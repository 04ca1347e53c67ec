--------------------------- MODULE SplLoggingProofs ---------------------------
(***************************************************************************)
(* What the SPL log keeps and says of a session, for any queue, segment     *)
(* length, rates and number of sessions: LogInv and LogSessionInv.          *)
(*                                                                         *)
(* The argument, thread by thread: what the message thread has still to     *)
(* post is what it wants, so a request that is applied and not followed by  *)
(* another is the session in force; a hop in the ring is of the rate of     *)
(* the epoch the analysis thread has seen; the writer lives exactly as long *)
(* as its sink; and every block of the running log is in one of four        *)
(* places.                                                                  *)
(***************************************************************************)
EXTENDS SplLogging, SequenceTheorems, FiniteSetTheorems, TLAPS

Blocks == Nat \X Nat
Posts == [op : {"both", "write", "flag"}, req : Requests]

DevType == [rate : LogRates, epoch : Nat, gate : BOOLEAN, up : BOOLEAN, pc : {"on", "gate", "epoch"}]
UiType == [active : BOOLEAN, lastEpoch : Nat, dir : Folders, cal : BOOLEAN, todo : Seq(Posts)]
CalType == [start : BOOLEAN, startCh : Channels, checks : Nat]
AnType == [pc : {"top", "request", "apply", "start", "feed"}, lastEpoch : Nat]
SesType == [on : BOOLEAN, epoch : Nat, rate : Nat, dir : Folders, id : Nat, blocks : Nat]
PipeType == [running : BOOLEAN, sink : BOOLEAN, queue : Seq(Blocks), dropped : Nat, failed : BOOLEAN,
             lastDropped : Nat, lastFailed : BOOLEAN]
WrType == [pc : {"none", "setup", "loop", "check", "final"}, ok : BOOLEAN, failed : BOOLEAN,
           seg : Nat, inSeg : Nat, dir : Folders]
MirrorType == [dropped : Nat, failed : BOOLEAN, blocks : Nat, invalid : SUBSET Channels]
RecordType == [dir : Folders, bad : SUBSET Channels, raced : BOOLEAN]
SeenType == [mixed : BOOLEAN, raced : BOOLEAN, lost : SUBSET Blocks, refused : SUBSET Blocks,
             sessions : Seq([dir : Folders, closed : Nat]), record : RecordType]
DiskType == [Folders -> Seq(Seq(Blocks))]

-------------------------------------------------------------------------------
(* The invariant.                                                          *)

LogShape ==
    /\ bound \in LogBounds /\ dev \in DevType /\ hop \in LogRates \cup {0} /\ second \in Nat
    /\ ui \in UiType /\ request \in Requests /\ pending \in BOOLEAN
    /\ cal \in CalType /\ an \in AnType /\ ses \in SesType /\ pipe \in PipeType
    /\ wr \in WrType /\ mirror \in MirrorType /\ disk \in DiskType /\ seen \in SeenType

\* Nothing passes its bound, and nobody knows an epoch that is not yet counted.
Counted ==
    /\ 1 <= dev.epoch /\ dev.epoch <= MaxEpoch /\ (dev.pc # "on" => dev.epoch < MaxEpoch)
    /\ 1 <= second /\ second <= MaxSecond /\ cal.checks <= MaxChecks
    /\ 1 <= an.lastEpoch /\ an.lastEpoch <= dev.epoch
    /\ ui.lastEpoch <= dev.epoch /\ ses.epoch <= dev.epoch
    /\ ses.id <= MaxSessions /\ ses.blocks <= MaxBlocks /\ (an.pc = "start" => ses.blocks = 0)
    /\ Len(pipe.queue) <= QueueBlocks /\ wr.inSeg <= SegmentBlocks
    /\ pipe.dropped <= MaxBlocks
    /\ (ses.on /\ an.pc # "start") => pipe.dropped <= ses.blocks

\* A hop in the ring is of the device's rate, once the analysis thread has seen its epoch;
\* one of an older rate is behind a gate that only a drain lowers.
HopIsOfDevice ==
    /\ (/\ hop # 0 /\ dev.pc = "on"
        /\ (~dev.gate \/ (an.pc # "top" /\ an.lastEpoch = dev.epoch))) => hop = dev.rate
    /\ (dev.pc = "epoch" /\ ~dev.gate) => hop = 0

\* A session stamped with the device's epoch, and not raced, is of its rate and hears it.
Stamped == ses.on /\ ~seen.raced /\ ses.epoch = dev.epoch /\ an.pc # "apply"
SessionIsOfDevice ==
    Stamped => /\ dev.pc = "on" => ses.rate = dev.rate
               /\ hop # 0 => hop = ses.rate

\* What the message thread has still to post ends in what it wants.
Wanted == IF ui.active THEN [enable |-> TRUE, dir |-> ui.dir, cal |-> ui.cal] ELSE NoRequest
FlagOnly == << [op |-> "flag", req |-> Wanted] >>
TodoIsWanted ==
    \/ ui.todo = <<>> /\ request = Wanted
    \/ ui.todo = disableSplLogging /\ ~ui.active
    \/ ui.todo = enableSplLogging(ui.dir, ui.cal) /\ ui.active
    \/ ui.todo = FlagOnly /\ ui.active /\ request = Wanted
    \/ ui.todo = disableSplLogging \o enableSplLogging(ui.dir, ui.cal) /\ ui.active

\* With no request under way the session is what the last one asked for.
Applied ==
    (~pending /\ an.pc # "apply" /\ ui.todo # FlagOnly) =>
        /\ ses.on = request.enable
        /\ ses.on => ses.dir = request.dir

\* Folders only move on: what the operator's record names, what the message thread writes
\* to, and now.  A closed device has to be counted again before it is logged again.
FoldersMoveOn ==
    /\ seen.record.dir[1] <= ui.dir[1] /\ ui.dir[1] <= second
    /\ seen.record.dir[2] <= ui.dir[2] /\ ui.dir[2] <= dev.epoch
    /\ (~ui.active /\ dev.up) => ui.dir[2] < dev.epoch

\* The number of the log in the files: one less than the session's while it waits for the
\* writer of the log before.
Logs == Len(seen.sessions)
SessionsNumbered ==
    /\ (an.pc = "start" /\ ses.on) => ses.id = Logs + 1
    /\ ~(an.pc = "start" /\ ses.on) => ses.id = Logs
    /\ (ses.on /\ an.pc # "start") => /\ ses.id > 0 /\ seen.sessions[ses.id].dir = ses.dir
                                      /\ seen.sessions[ses.id].closed = ses.blocks

\* The writer lives as long as its sink, and while its session is fed.
WriterLives ==
    /\ pipe.sink = (wr.pc # "none")
    /\ (ses.on /\ an.pc # "start") => pipe.running /\ wr.pc \in {"setup", "loop", "check"}
    /\ wr.pc = "none" => pipe.queue = <<>>
    /\ wr.pc # "none" => Logs > 0 /\ wr.dir = seen.sessions[Logs].dir

\* A failure is seen by the writer first, then by the pipeline, then in the mirror.
FailureTravels ==
    /\ mirror.failed => pipe.failed
    /\ pipe.failed => wr.failed /\ wr.pc # "setup"
    /\ mirror.dropped <= pipe.dropped

\* A record that was not raced: the mirror has it, or its log was stopped or restarted.
Quiet == ui.todo = <<>> /\ ~pending /\ an.pc \notin {"apply", "start"}
RecordKept ==
    /\ seen.record.dir = NoFolder => seen.record.bad = {}
    /\ (seen.record.dir # NoFolder /\ seen.record.dir = ui.dir /\ ~seen.record.raced) =>
        \/ \E k \in 1 .. Logs - 1 : seen.sessions[k].dir = ui.dir
        \/ /\ Logs > 0 /\ seen.sessions[Logs].dir = ui.dir
           /\ \/ an.pc \in {"apply", "start"} \/ ~ses.on
              \/ seen.record.bad \subseteq mirror.invalid
        \/ ~ui.active /\ Quiet /\ seen.record.bad \subseteq mirror.invalid

SessionIInv ==
    /\ LogShape /\ Counted /\ HopIsOfDevice /\ SessionIsOfDevice /\ TodoIsWanted /\ Applied
    /\ FoldersMoveOn /\ SessionsNumbered /\ WriterLives /\ FailureTravels /\ RecordKept
    /\ MirrorIsOwn /\ HopsOfOneRate

\* A block in a file is of a session of that folder; one of the running log is in a segment
\* the writer has opened.
Held(s) == {s[i] : i \in DOMAIN s}
InSegment(segs, k) == Held(segs[k])
FilesAreOwn ==
    /\ \A f \in Folders : \A k \in DOMAIN disk[f] : \A b \in InSegment(disk[f], k) :
          /\ b[1] \in 1..Logs /\ f = seen.sessions[b[1]].dir
          /\ b[1] = Logs => wr.pc # "setup" /\ k <= wr.seg + 1
    /\ (wr.ok /\ wr.pc \in {"loop", "check", "final"}) => wr.seg + 1 \in DOMAIN disk[wr.dir]

Queued == Held(pipe.queue)
Refused(id) == {b \in seen.refused : b[1] = id}
Lost(id) == {b \in seen.lost : b[1] = id}

\* The blocks of the running log: in a file, queued, refused or lost.
BlocksAccounted ==
    /\ \A b \in seen.refused \cup seen.lost : b[1] \in 1..Logs
    /\ Logs > 0 => Closed(Logs) = Logged(Logs) \cup Queued \cup Refused(Logs) \cup Lost(Logs)
    /\ IsFiniteSet(Refused(Logs)) /\ Cardinality(Refused(Logs)) = pipe.dropped
    /\ Lost(Logs) # {} => /\ wr.failed /\ wr.pc # "setup"
                          /\ wr.pc = "none" => pipe.lastFailed
    /\ Logs = 0 => pipe.queue = <<>>

\* Those of the logs before it: in a file, refused or lost, unless the folder was used again.
OldLogsKept ==
    \A id \in 1 .. Logs - 1 :
        ~Reused(id) => Closed(id) \subseteq Logged(id) \cup seen.refused \cup seen.lost

BlocksInv == FilesAreOwn /\ BlocksAccounted /\ OldLogsKept

LogIInv == SessionIInv /\ BlocksInv

-------------------------------------------------------------------------------
(* Types, and the first state.                                             *)

\* A behaviour keeps to one bound, so its folders and types stay what they are.
LEMMA TypesStay ==
    ASSUME bound' = bound
    PROVE  /\ Folders' = Folders /\ Requests' = Requests
           /\ MaxBlocks' = MaxBlocks /\ MaxChecks' = MaxChecks
           /\ MaxEpoch' = MaxEpoch /\ MaxSecond' = MaxSecond
           /\ UiType' = UiType /\ SesType' = SesType /\ WrType' = WrType
           /\ SeenType' = SeenType /\ DiskType' = DiskType
<1>1. MaxEpoch' = MaxEpoch /\ MaxSecond' = MaxSecond /\ MaxBlocks' = MaxBlocks /\ MaxChecks' = MaxChecks
  BY DEF MaxEpoch, MaxSecond, MaxBlocks, MaxChecks
<1>2. Folders' = Folders
  BY <1>1 DEF Folders
<1>3. Requests' = Requests
  BY <1>2 DEF Requests
<1> QED BY <1>1, <1>2, <1>3 DEF UiType, Posts, SesType, WrType, SeenType, RecordType, DiskType

\* The bounds are numbers, and the empty folder is a folder.
LEMMA BoundsAreNumbers ==
    ASSUME bound \in LogBounds
    PROVE  /\ MaxBlocks \in Nat /\ MaxChecks \in Nat /\ MaxEpoch \in Nat \ {0} /\ MaxSecond \in Nat \ {0}
           /\ NoFolder \in Folders /\ NoRequest \in Requests
           /\ Folders \subseteq Nat \X Nat
<1>1. /\ MaxBlocks \in Nat /\ MaxChecks \in Nat /\ MaxEpoch \in Nat \ {0} /\ MaxSecond \in Nat \ {0}
  BY LogAssumption DEF MaxBlocks, MaxChecks, MaxEpoch, MaxSecond
<1>2. NoFolder \in Folders
  BY <1>1 DEF NoFolder, Folders
<1>3. NoRequest \in Requests
  BY <1>2 DEF NoRequest, Requests
<1>4. Folders \subseteq Nat \X Nat
  BY <1>1 DEF Folders
<1> QED BY <1>1, <1>2, <1>3, <1>4

LEMMA SessionBegins == LogInit => SessionIInv
<1> SUFFICES ASSUME LogInit PROVE SessionIInv
  OBVIOUS
<1>1. bound \in LogBounds
  BY DEF LogInit
<1>2. /\ MaxBlocks \in Nat /\ MaxChecks \in Nat /\ MaxEpoch \in Nat \ {0} /\ MaxSecond \in Nat \ {0}
      /\ NoFolder \in Folders /\ NoRequest \in Requests
  BY <1>1, BoundsAreNumbers
<1>3. dev.rate \in LogRates /\ dev.epoch = 1 /\ dev.gate = FALSE /\ dev.up = TRUE /\ dev.pc = "on"
  <2>1. (CHOOSE r \in LogRates : TRUE) \in LogRates
    BY LogAssumption
  <2> QED BY <2>1 DEF LogInit
<1>4. LogShape
  <2>1. dev \in DevType
    BY <1>3 DEF LogInit, DevType
  <2>2. ui \in UiType
    BY <1>2 DEF LogInit, UiType
  <2>3. cal \in CalType /\ an \in AnType
    BY DEF LogInit, CalType, AnType, Channels
  <2>4. ses \in SesType /\ wr \in WrType /\ mirror \in MirrorType
    BY <1>2 DEF LogInit, SesType, WrType, MirrorType
  <2>5. pipe \in PipeType
    BY DEF LogInit, PipeType
  <2>6. disk \in DiskType
    BY DEF LogInit, DiskType
  <2>7. NoRecord \in RecordType
    BY <1>2 DEF NoRecord, RecordType
  <2>8. seen \in SeenType
    BY <2>7 DEF LogInit, SeenType
  <2> QED BY <1>1, <1>2, <2>1, <2>2, <2>3, <2>4, <2>5, <2>6, <2>8 DEF LogInit, LogShape
<1>5. Counted
  BY <1>2, <1>3, LogAssumption DEF LogInit, Counted
<1>6. HopIsOfDevice /\ SessionIsOfDevice
  BY <1>3 DEF LogInit, HopIsOfDevice, SessionIsOfDevice, Stamped
<1>7. TodoIsWanted /\ Applied
  BY DEF LogInit, TodoIsWanted, Applied, Wanted, NoRequest
<1>8. FoldersMoveOn
  BY <1>3 DEF LogInit, FoldersMoveOn, NoRecord, NoFolder
<1>9. SessionsNumbered /\ WriterLives
  BY DEF LogInit, SessionsNumbered, WriterLives, Logs
<1>10. FailureTravels /\ RecordKept /\ MirrorIsOwn /\ HopsOfOneRate
  BY DEF LogInit, FailureTravels, RecordKept, NoRecord, MirrorIsOwn, HopsOfOneRate
<1> QED BY <1>4, <1>5, <1>6, <1>7, <1>8, <1>9, <1>10 DEF SessionIInv

-------------------------------------------------------------------------------
(* The device.                                                             *)

\* What the steps of the device leave alone.
DevLeaves == UNCHANGED <<bound, ui, request, pending, cal, an, ses, pipe, wr, mirror, disk, seen>>

\* A step of the device that keeps the epochs, the hop and the folders in order is safe.
LEMMA DeviceKeeps ==
    ASSUME SessionIInv, DevLeaves, dev' \in DevType, hop' \in LogRates \cup {0}, second' \in Nat,
           Counted', HopIsOfDevice', SessionIsOfDevice', FoldersMoveOn'
    PROVE  SessionIInv'
<1>1. LogShape'
  BY TypesStay DEF SessionIInv, LogShape, DevLeaves
<1>2. TodoIsWanted' /\ Applied'
  BY DEF SessionIInv, DevLeaves, TodoIsWanted, Applied, Wanted, FlagOnly
<1>3. SessionsNumbered' /\ WriterLives' /\ FailureTravels' /\ MirrorIsOwn' /\ HopsOfOneRate'
  BY DEF SessionIInv, DevLeaves, SessionsNumbered, WriterLives, FailureTravels, MirrorIsOwn,
         HopsOfOneRate, Logs
<1>4. RecordKept'
  BY DEF SessionIInv, DevLeaves, RecordKept, Quiet, Logs
<1> QED BY <1>1, <1>2, <1>3, <1>4 DEF SessionIInv

LEMMA DeviceSteps ==
    ASSUME SessionIInv, Device
    PROVE  SessionIInv'
<1> USE DEF SessionIInv
<1>1. /\ dev \in DevType /\ hop \in LogRates \cup {0} /\ second \in Nat /\ bound \in LogBounds
      /\ ui.dir[2] \in Nat /\ an.lastEpoch \in Nat /\ ses.epoch \in Nat /\ ui.lastEpoch \in Nat
      /\ ui \in UiType /\ an \in AnType /\ ses \in SesType /\ seen \in SeenType
      /\ 0 \notin LogRates
  <2>1. ui.dir \in Nat \X Nat
    BY BoundsAreNumbers DEF LogShape, UiType
  <2> QED BY <2>1, LogAssumption DEF LogShape, AnType, SesType, UiType
<1>2. MaxEpoch \in Nat /\ MaxSecond \in Nat
  BY <1>1, BoundsAreNumbers
<1>3. ASSUME NEW r \in LogRates, DevOpenRate(r) PROVE SessionIInv'
  <2>1. dev' = [rate |-> r, epoch |-> dev.epoch, gate |-> dev.gate, up |-> dev.up, pc |-> "gate"]
    BY <1>1, <1>3, Zenon DEF DevOpenRate, DevType
  <2>2. DevLeaves /\ UNCHANGED <<hop, second>> /\ dev.pc = "on" /\ dev.epoch < MaxEpoch
    BY <1>3 DEF DevOpenRate, DevLeaves
  <2>3. dev' \in DevType
    BY <1>1, <2>1 DEF DevType
  <2>4. Counted'
    BY <2>1, <2>2, TypesStay DEF Counted, DevLeaves
  <2>5. HopIsOfDevice' /\ SessionIsOfDevice'
    BY <2>1, <2>2 DEF HopIsOfDevice, SessionIsOfDevice, Stamped, DevLeaves
  <2>6. FoldersMoveOn'
    BY <2>1, <2>2 DEF FoldersMoveOn, DevLeaves
  <2> QED BY <1>1, <2>2, <2>3, <2>4, <2>5, <2>6, DeviceKeeps
<1>4. CASE DevOpenGate
  <2>1. dev' = [rate |-> dev.rate, epoch |-> dev.epoch, gate |-> TRUE, up |-> dev.up, pc |-> "epoch"]
    BY <1>1, <1>4, Zenon DEF DevOpenGate, DevType
  <2>2. DevLeaves /\ UNCHANGED <<hop, second>> /\ dev.pc = "gate"
    BY <1>4 DEF DevOpenGate, DevLeaves
  <2>3. dev' \in DevType
    BY <1>1, <2>1 DEF DevType
  <2>4. Counted'
    BY <2>1, <2>2, TypesStay DEF Counted, DevLeaves
  <2>5. HopIsOfDevice' /\ SessionIsOfDevice'
    BY <2>1, <2>2 DEF HopIsOfDevice, SessionIsOfDevice, Stamped, DevLeaves
  <2>6. FoldersMoveOn'
    BY <2>1, <2>2 DEF FoldersMoveOn, DevLeaves
  <2> QED BY <1>1, <2>2, <2>3, <2>4, <2>5, <2>6, DeviceKeeps
<1>5. CASE DevOpenEpoch
  <2>1. dev' = [rate |-> dev.rate, epoch |-> dev.epoch + 1, gate |-> dev.gate, up |-> TRUE, pc |-> "on"]
    BY <1>1, <1>5, Zenon DEF DevOpenEpoch, DevType
  <2>2. DevLeaves /\ UNCHANGED <<hop, second>> /\ dev.pc = "epoch"
    BY <1>5 DEF DevOpenEpoch, DevLeaves
  <2>3. dev' \in DevType
    BY <1>1, <2>1 DEF DevType
  <2>4. Counted'
    BY <1>1, <1>2, <2>1, <2>2, TypesStay DEF Counted, DevLeaves, DevType
  <2>5. an.lastEpoch # dev'.epoch /\ ses.epoch # dev'.epoch
    BY <1>1, <2>1 DEF Counted, DevType
  <2>6. HopIsOfDevice' /\ SessionIsOfDevice'
    BY <2>1, <2>2, <2>5 DEF HopIsOfDevice, SessionIsOfDevice, Stamped, DevLeaves
  <2>7. FoldersMoveOn'
    BY <1>1, <2>1, <2>2 DEF FoldersMoveOn, DevLeaves, DevType
  <2> QED BY <1>1, <2>2, <2>3, <2>4, <2>6, <2>7, DeviceKeeps
<1>6. CASE DevClose
  <2>1. dev' = [rate |-> dev.rate, epoch |-> dev.epoch, gate |-> dev.gate, up |-> FALSE, pc |-> dev.pc]
    BY <1>1, <1>6, Zenon DEF DevClose, DevType
  <2>2. DevLeaves /\ UNCHANGED <<hop, second>>
    BY <1>6 DEF DevClose, DevLeaves
  <2>3. dev' \in DevType
    BY <1>1, <2>1 DEF DevType
  <2>4. Counted'
    BY <2>1, <2>2, TypesStay DEF Counted, DevLeaves
  <2>5. HopIsOfDevice' /\ SessionIsOfDevice'
    BY <2>1, <2>2 DEF HopIsOfDevice, SessionIsOfDevice, Stamped, DevLeaves
  <2>6. FoldersMoveOn'
    BY <2>1, <2>2 DEF FoldersMoveOn, DevLeaves
  <2> QED BY <1>1, <2>2, <2>3, <2>4, <2>5, <2>6, DeviceKeeps
<1>7. CASE DevCallback
  <2>1. DevLeaves /\ UNCHANGED <<dev, second>> /\ dev.pc = "on" /\ ~dev.gate /\ hop' = dev.rate
    BY <1>7 DEF DevCallback, DevLeaves
  <2>2. dev.rate \in LogRates
    BY <1>1 DEF DevType
  <2>3. Counted' /\ FoldersMoveOn'
    BY <2>1, TypesStay DEF Counted, FoldersMoveOn, DevLeaves
  <2>4. HopIsOfDevice' /\ SessionIsOfDevice'
    BY <2>1 DEF HopIsOfDevice, SessionIsOfDevice, Stamped, DevLeaves
  <2> QED BY <1>1, <2>1, <2>2, <2>3, <2>4, DeviceKeeps
<1>8. CASE ClockTick
  <2>1. DevLeaves /\ UNCHANGED <<dev, hop>> /\ second < MaxSecond /\ second' = second + 1
    BY <1>8 DEF ClockTick, DevLeaves
  <2>2. second' \in Nat
    BY <1>1, <2>1
  <2>3. ui.dir[1] \in Nat /\ seen.record.dir[1] \in Nat
    BY <1>1, BoundsAreNumbers DEF UiType, SeenType, RecordType
  <2>4. Counted'
    BY <1>1, <1>2, <2>1, TypesStay DEF Counted, DevLeaves
  <2>5. FoldersMoveOn'
    BY <1>1, <2>1, <2>3 DEF FoldersMoveOn, DevLeaves
  <2>6. HopIsOfDevice' /\ SessionIsOfDevice'
    BY <2>1 DEF HopIsOfDevice, SessionIsOfDevice, Stamped, DevLeaves
  <2> QED BY <1>1, <2>1, <2>2, <2>4, <2>5, <2>6, DeviceKeeps
<1> QED BY <1>3, <1>4, <1>5, <1>6, <1>7, <1>8 DEF Device

-------------------------------------------------------------------------------
(* The message thread.                                                     *)

MessageLeaves == UNCHANGED <<bound, dev, hop, second, an, ses, pipe, wr, disk>>

\* A step of the message thread that keeps its requests, folders and record in order, and
\* moves no counter of the mirror, is safe.
LEMMA MessageKeeps ==
    ASSUME SessionIInv, MessageLeaves,
           ui' \in UiType, ui'.lastEpoch <= dev.epoch, request' \in Requests, pending' \in BOOLEAN,
           cal' \in CalType, cal'.checks <= MaxChecks,
           mirror' \in MirrorType, mirror'.dropped = mirror.dropped, mirror'.failed = mirror.failed,
           mirror'.blocks = mirror.blocks,
           seen' \in SeenType, seen'.mixed = seen.mixed, seen'.raced = seen.raced,
           seen'.sessions = seen.sessions,
           TodoIsWanted', Applied', FoldersMoveOn', RecordKept'
    PROVE  SessionIInv'
<1>1. LogShape'
  BY TypesStay DEF SessionIInv, LogShape, MessageLeaves
<1>2. Counted'
  BY TypesStay DEF SessionIInv, MessageLeaves, Counted
<1>3. HopIsOfDevice' /\ SessionIsOfDevice' /\ HopsOfOneRate'
  BY DEF SessionIInv, MessageLeaves, HopIsOfDevice, SessionIsOfDevice, Stamped, HopsOfOneRate
<1>4. SessionsNumbered' /\ WriterLives'
  BY DEF SessionIInv, MessageLeaves, SessionsNumbered, WriterLives, Logs
<1>5. FailureTravels' /\ MirrorIsOwn'
  BY DEF SessionIInv, MessageLeaves, FailureTravels, MirrorIsOwn
<1> QED BY <1>1, <1>2, <1>3, <1>4, <1>5 DEF SessionIInv

\* The requests that a start and a stop of the log post, one by one.
LEMMA PostsInOrder ==
    ASSUME SessionIInv, NEW d \in Folders, NEW c \in BOOLEAN
    PROVE  LET want == [enable |-> TRUE, dir |-> d, cal |-> c]
               write == [op |-> "write", req |-> want]
               flag == [op |-> "flag", req |-> want]
               both == [op |-> "both", req |-> NoRequest]
           IN  /\ want \in Requests /\ NoRequest \in Requests
               /\ disableSplLogging = <<both>> /\ disableSplLogging \in Seq(Posts)
               /\ enableSplLogging(d, c) = <<write, flag>> /\ enableSplLogging(d, c) \in Seq(Posts)
               /\ <<flag>> \in Seq(Posts)
               /\ disableSplLogging \o enableSplLogging(d, c) = <<both, write, flag>>
               /\ disableSplLogging \o enableSplLogging(d, c) \in Seq(Posts)
               /\ <<>> \o enableSplLogging(d, c) = enableSplLogging(d, c)
<1> DEFINE want == [enable |-> TRUE, dir |-> d, cal |-> c]
           write == [op |-> "write", req |-> want]
           flag == [op |-> "flag", req |-> want]
           both == [op |-> "both", req |-> NoRequest]
<1>1. want \in Requests /\ NoRequest \in Requests
  BY BoundsAreNumbers DEF SessionIInv, LogShape, Requests
<1>2. write \in Posts /\ flag \in Posts /\ both \in Posts
  BY <1>1 DEF Posts
<1>3. disableSplLogging = <<both>> /\ enableSplLogging(d, c) = <<write, flag>>
  BY DEF disableSplLogging, enableSplLogging
<1> HIDE DEF want, write, flag, both
<1>4. <<both>> \in Seq(Posts) /\ <<write, flag>> \in Seq(Posts) /\ <<flag>> \in Seq(Posts)
      /\ <<both, write, flag>> \in Seq(Posts)
  BY <1>2
<1>5. <<both>> \o <<write, flag>> = <<both, write, flag>>
  <2> DEFINE s == <<both>>
             t == <<write, flag>>
             u == <<both, write, flag>>
  <2>1. Len(s) = 1 /\ Len(t) = 2 /\ Len(u) = 3
    OBVIOUS
  <2>2. s[1] = both /\ t[1] = write /\ t[2] = flag /\ u[1] = both /\ u[2] = write /\ u[3] = flag
    OBVIOUS
  <2> HIDE DEF s, t, u
  <2>3. /\ s \o t \in Seq(Posts) /\ Len(s \o t) = 3
        /\ \A i \in 1..3 : (s \o t)[i] = IF i <= 1 THEN s[i] ELSE t[i - 1]
    BY <1>4, <2>1, ConcatProperties DEF s, t
  <2>4. \A i \in 1..3 : (s \o t)[i] = u[i]
    BY <2>2, <2>3
  <2>5. u \in Seq(Posts)
    BY <1>4 DEF u
  <2>6. s \o t = u
    BY <2>1, <2>3, <2>4, <2>5, SeqEqual
  <2> QED BY <2>6 DEF s, t, u
<1>6. <<>> \o <<write, flag>> = <<write, flag>>
  BY <1>4, ConcatEmptySeq
<1> QED BY <1>1, <1>3, <1>4, <1>5, <1>6 DEF want, write, flag, both

\* The three things a poll does: it stops the log, starts one, or starts a fresh one.
LEMMA PollKinds ==
    ASSUME SessionIInv, pollSplLogging
    PROVE  LET now == <<second, dev.epoch>> IN
           /\ now \in Folders /\ now[1] = second /\ now[2] = dev.epoch
           /\ ui.todo = <<>> /\ ui' \in UiType /\ ui'.lastEpoch = dev.epoch
           /\ ~dev.up => /\ ui.active /\ ui'.active = FALSE /\ ui'.dir = ui.dir
                         /\ ui'.cal = ui.cal /\ ui'.todo = disableSplLogging
           /\ dev.up => /\ ui'.active = TRUE /\ ui'.dir = now /\ ui'.cal = FALSE
                        /\ ui'.todo = IF ui.active THEN disableSplLogging \o enableSplLogging(now, FALSE)
                                      ELSE enableSplLogging(now, FALSE)
<1>1. /\ ui \in UiType /\ ui.active \in BOOLEAN /\ dev.up \in BOOLEAN /\ bound \in LogBounds
      /\ ui.cal \in BOOLEAN /\ ui.dir \in Folders /\ dev.epoch \in Nat
  BY DEF SessionIInv, LogShape, UiType, DevType
<1> DEFINE now == <<second, dev.epoch>>
           action == decideSplLoggingAction(ui.active, dev.up, ui.lastEpoch, dev.epoch)
           before == IF ui.active THEN disableSplLogging ELSE <<>>
<1>2. now \in Folders /\ now[1] = second /\ now[2] = dev.epoch
  BY <1>1, BoundsAreNumbers DEF Folders, SessionIInv, Counted, LogShape
<1>3. /\ disableSplLogging \in Seq(Posts) /\ enableSplLogging(now, FALSE) \in Seq(Posts)
      /\ disableSplLogging \o enableSplLogging(now, FALSE) \in Seq(Posts)
      /\ <<>> \o enableSplLogging(now, FALSE) = enableSplLogging(now, FALSE)
  BY <1>2, PostsInOrder
<1>4. PICK u : u = [ui EXCEPT !.active = dev.up, !.lastEpoch = dev.epoch]
  OBVIOUS
<1>5. ui.todo = <<>> /\ action # "NoOp"
      /\ ui' = IF action = "Disable" THEN [u EXCEPT !.todo = disableSplLogging]
               ELSE startFreshSplLogWithConfig(u, FALSE, dev.epoch, before)
  BY <1>4 DEF pollSplLogging
<1>6. u = [active |-> dev.up, lastEpoch |-> dev.epoch, dir |-> ui.dir, cal |-> ui.cal, todo |-> ui.todo]
  BY <1>1, <1>4, Zenon DEF UiType
<1>7. CASE ~dev.up
  <2>1. ui.active /\ action = "Disable"
    BY <1>1, <1>5, <1>7 DEF decideSplLoggingAction
  <2>2. ui' = [u EXCEPT !.todo = disableSplLogging]
    BY <1>5, <2>1
  <2>3. ui' = [active |-> dev.up, lastEpoch |-> dev.epoch, dir |-> ui.dir, cal |-> ui.cal,
               todo |-> disableSplLogging]
    BY <1>6, <2>2, Zenon
  <2>4. ui' \in UiType
    BY <1>1, <1>3, <2>3 DEF UiType
  <2>5. /\ ui'.active = FALSE /\ ui'.dir = ui.dir /\ ui'.cal = ui.cal /\ ui'.lastEpoch = dev.epoch
        /\ ui'.todo = disableSplLogging
    BY <1>1, <1>7, <2>3
  <2> HIDE DEF now, action
  <2> QED BY <1>2, <1>5, <1>7, <2>1, <2>4, <2>5 DEF now
<1>8. CASE dev.up
  <2>1. action = "EnableFresh"
    BY <1>1, <1>5, <1>8 DEF decideSplLoggingAction
  <2> HIDE DEF before, action
  <2>2. ui' = [u EXCEPT !.dir = now, !.cal = FALSE, !.todo = before \o enableSplLogging(now, FALSE)]
    BY <1>5, <2>1 DEF startFreshSplLogWithConfig, sessionFolderName
  <2> HIDE DEF now
  <2>3. ui' = [active |-> dev.up, lastEpoch |-> dev.epoch, dir |-> now, cal |-> FALSE,
               todo |-> before \o enableSplLogging(now, FALSE)]
    BY <1>6, <2>2, Zenon
  <2>4. before \o enableSplLogging(now, FALSE)
           = IF ui.active THEN disableSplLogging \o enableSplLogging(now, FALSE)
             ELSE enableSplLogging(now, FALSE)
    BY <1>3 DEF before
  <2>5. before \o enableSplLogging(now, FALSE) \in Seq(Posts)
    BY <1>3, <2>4
  <2>6. ui' \in UiType
    BY <1>1, <1>2, <2>3, <2>5 DEF UiType
  <2>7. /\ ui'.active = TRUE /\ ui'.dir = now /\ ui'.cal = FALSE /\ ui'.lastEpoch = dev.epoch
        /\ ui'.todo = before \o enableSplLogging(now, FALSE)
    BY <1>1, <1>8, <2>3
  <2> QED BY <1>2, <1>5, <1>8, <2>4, <2>6, <2>7 DEF now
<1> QED BY <1>1, <1>7, <1>8

\* Components of folders are numbers, and two folders with the same ones are the same.
LEMMA FoldersArePairs ==
    ASSUME bound \in LogBounds, NEW d \in Folders, NEW e \in Folders
    PROVE  /\ d[1] \in Nat /\ d[2] \in Nat /\ d = <<d[1], d[2]>>
           /\ (d[1] = e[1] /\ d[2] = e[2]) => d = e
  BY BoundsAreNumbers

LEMMA PollStep ==
    ASSUME SessionIInv, pollSplLogging
    PROVE  SessionIInv'
<1> USE DEF SessionIInv
<1>1. MessageLeaves /\ UNCHANGED <<request, pending, cal, mirror, seen>>
  BY DEF pollSplLogging, MessageLeaves
<1>2. /\ bound \in LogBounds /\ ui \in UiType /\ request \in Requests /\ pending \in BOOLEAN
      /\ cal \in CalType /\ mirror \in MirrorType /\ seen \in SeenType /\ dev \in DevType
  BY DEF LogShape
<1>3. Folders' = Folders /\ SeenType' = SeenType /\ UiType' = UiType /\ Requests' = Requests
  BY <1>1, TypesStay DEF MessageLeaves
<1>4. PICK now \in Folders :
        /\ now[1] = second /\ now[2] = dev.epoch
        /\ ui.todo = <<>> /\ ui' \in UiType /\ ui'.lastEpoch = dev.epoch
        /\ ~dev.up => /\ ui.active /\ ui'.active = FALSE /\ ui'.dir = ui.dir
                      /\ ui'.cal = ui.cal /\ ui'.todo = disableSplLogging
        /\ dev.up => /\ ui'.active = TRUE /\ ui'.dir = now /\ ui'.cal = FALSE
                     /\ ui'.todo = IF ui.active THEN disableSplLogging \o enableSplLogging(now, FALSE)
                                   ELSE enableSplLogging(now, FALSE)
  <2> HIDE DEF SessionIInv
  <2>1. SessionIInv
    BY DEF SessionIInv
  <2> QED BY <2>1, PollKinds
<1>5. ui'.lastEpoch <= dev.epoch
  BY <1>2, <1>4 DEF DevType
<1>6. TodoIsWanted'
  <2>1. CASE dev.up /\ ui.active
    <3>1. ui'.todo = disableSplLogging \o enableSplLogging(ui'.dir, ui'.cal) /\ ui'.active
      BY <1>4, <2>1
    <3> QED BY <3>1 DEF TodoIsWanted, disableSplLogging, enableSplLogging, NoRequest
  <2>2. CASE dev.up /\ ~ui.active
    <3>1. ui'.todo = enableSplLogging(ui'.dir, ui'.cal) /\ ui'.active
      BY <1>4, <2>2
    <3> QED BY <3>1 DEF TodoIsWanted, enableSplLogging
  <2>3. CASE ~dev.up
    <3>1. ui'.todo = disableSplLogging /\ ~ui'.active
      BY <1>4, <2>3
    <3> QED BY <3>1 DEF TodoIsWanted, disableSplLogging, NoRequest
  <2> QED BY <2>1, <2>2, <2>3
<1>7. Applied'
  <2>1. ui.todo # FlagOnly
    BY <1>4 DEF FlagOnly
  <2> QED BY <1>1, <2>1 DEF Applied, MessageLeaves
<1>8. seen.record.dir \in Folders /\ ui.dir \in Folders /\ ui'.dir \in Folders
  BY <1>2, <1>4 DEF SeenType, RecordType, UiType
<1>9. /\ seen.record.dir[1] \in Nat /\ seen.record.dir[2] \in Nat
       /\ ui.dir[1] \in Nat /\ ui.dir[2] \in Nat /\ second \in Nat /\ dev.epoch \in Nat
  BY <1>2, <1>8, FoldersArePairs DEF LogShape, DevType
<1>10. FoldersMoveOn'
  <2>1. CASE dev.up
    <3>1. ui'.dir = now /\ ui'.active
      BY <1>4, <2>1
    <3> QED BY <1>1, <1>4, <1>9, <3>1 DEF FoldersMoveOn, MessageLeaves
  <2>2. CASE ~dev.up
    <3>1. ui'.dir = ui.dir
      BY <1>4, <2>2
    <3> QED BY <1>1, <2>2, <3>1 DEF FoldersMoveOn, MessageLeaves
  <2> QED BY <2>1, <2>2
<1>11. RecordKept'
  <2>1. CASE ~dev.up
    <3>1. ui'.dir = ui.dir /\ ui.active /\ ~ui'.active
      BY <1>4, <2>1
    <3> QED BY <1>1, <3>1 DEF RecordKept, MessageLeaves, Logs
  <2>2. CASE dev.up /\ seen.record.dir # now
    <3>1. ui'.dir = now
      BY <1>4, <2>2
    <3> QED BY <1>1, <2>2, <3>1 DEF RecordKept, MessageLeaves
  <2>3. CASE dev.up /\ seen.record.dir = now
    <3>1. seen.record.dir[1] = ui.dir[1] /\ seen.record.dir[2] = ui.dir[2]
      BY <1>4, <1>9, <2>3 DEF FoldersMoveOn
    <3>2. seen.record.dir = ui.dir
      BY <1>2, <1>8, <3>1, FoldersArePairs
    <3>3. ui.active
      BY <1>4, <1>9, <2>3, <3>1 DEF FoldersMoveOn
    <3>4. ui'.dir = ui.dir
      BY <1>4, <2>3, <3>2
    <3> QED BY <1>1, <3>2, <3>3, <3>4 DEF RecordKept, MessageLeaves, Logs
  <2> QED BY <2>1, <2>2, <2>3
<1> QED
  <2>1. cal.checks <= MaxChecks
    BY DEF Counted
  <2> QED BY <1>1, <1>2, <1>3, <1>4, <1>5, <1>6, <1>7, <1>10, <1>11, <2>1, MessageKeeps

LEMMA PostStep ==
    ASSUME SessionIInv, UiPostRequest
    PROVE  SessionIInv'
<1> USE DEF SessionIInv
<1>1. MessageLeaves /\ UNCHANGED <<cal, mirror, seen>>
  BY DEF UiPostRequest, MessageLeaves
<1>2. /\ bound \in LogBounds /\ ui \in UiType /\ request \in Requests /\ pending \in BOOLEAN
      /\ cal \in CalType /\ mirror \in MirrorType /\ seen \in SeenType
      /\ ui.dir \in Folders /\ ui.cal \in BOOLEAN /\ ui.active \in BOOLEAN /\ ui.lastEpoch \in Nat
  BY DEF LogShape, UiType
<1>3. SeenType' = SeenType /\ UiType' = UiType /\ Requests' = Requests
  BY <1>1, TypesStay DEF MessageLeaves
<1> DEFINE want == [enable |-> TRUE, dir |-> ui.dir, cal |-> ui.cal]
           write == [op |-> "write", req |-> want]
           flag == [op |-> "flag", req |-> want]
           both == [op |-> "both", req |-> NoRequest]
<1>4. /\ want \in Requests /\ NoRequest \in Requests
      /\ disableSplLogging = <<both>>
      /\ enableSplLogging(ui.dir, ui.cal) = <<write, flag>> /\ <<write, flag>> \in Seq(Posts)
      /\ <<flag>> \in Seq(Posts)
      /\ disableSplLogging \o enableSplLogging(ui.dir, ui.cal) = <<both, write, flag>>
  BY <1>2, PostsInOrder
<1>5. Wanted = IF ui.active THEN want ELSE NoRequest
  BY DEF Wanted
<1>6. write.op = "write" /\ write.req = want /\ flag.op = "flag" /\ both.op = "both" /\ both.req = NoRequest
  OBVIOUS
<1>7. /\ ui.todo # <<>> /\ ui' = [ui EXCEPT !.todo = Tail(ui.todo)]
      /\ request' = IF Head(ui.todo).op = "flag" THEN request ELSE Head(ui.todo).req
      /\ pending' = (pending \/ Head(ui.todo).op # "write")
  BY DEF UiPostRequest
<1>8. FlagOnly = << [op |-> "flag", req |-> Wanted] >>
  BY DEF FlagOnly
<1> HIDE DEF want, write, flag, both
<1>9. \/ ui'.todo = <<>> /\ request' = Wanted /\ pending' = TRUE
      \/ ui.active /\ ui'.todo = <<flag>> /\ request' = want /\ pending' \in BOOLEAN
      \/ ui.active /\ ui'.todo = <<write, flag>> /\ request' = NoRequest /\ pending' = TRUE
  <2> HIDE DEF SessionIInv
  <2>1. ui'.todo = Tail(ui.todo)
    BY <1>2, <1>7 DEF UiType
  <2>2. CASE ui.todo = <<both>> /\ ~ui.active
    <3>1. Head(ui.todo) = both /\ Tail(ui.todo) = <<>>
      BY <2>2
    <3> QED BY <1>5, <1>6, <1>7, <2>1, <2>2, <3>1
  <2>3. CASE ui.todo = <<write, flag>> /\ ui.active
    <3>1. Head(ui.todo) = write /\ Tail(ui.todo) = <<flag>>
      BY <2>3
    <3> QED BY <1>2, <1>6, <1>7, <2>1, <2>3, <3>1
  <2>4. CASE ui.todo = <<flag>> /\ ui.active /\ request = Wanted
    <3>1. Head(ui.todo) = flag /\ Tail(ui.todo) = <<>>
      BY <2>4
    <3> QED BY <1>6, <1>7, <2>1, <2>4, <3>1
  <2>5. CASE ui.todo = <<both, write, flag>> /\ ui.active
    <3>1. Head(ui.todo) = both /\ Tail(ui.todo) = <<write, flag>>
      BY <2>5
    <3> QED BY <1>6, <1>7, <2>1, <2>5, <3>1
  <2>6. ui.active => FlagOnly = <<flag>>
    BY <1>5, <1>8 DEF flag
  <2>7. TodoIsWanted
    BY DEF SessionIInv
  <2> QED BY <1>4, <1>7, <2>2, <2>3, <2>4, <2>5, <2>6, <2>7 DEF TodoIsWanted
<1>10. /\ ui' \in UiType /\ ui'.active = ui.active /\ ui'.dir = ui.dir /\ ui'.cal = ui.cal
       /\ ui'.lastEpoch = ui.lastEpoch
  <2>1. ui'.todo \in Seq(Posts)
    <3>1. <<>> \in Seq(Posts)
      OBVIOUS
    <3>2. ui'.todo \in {<<>>, <<flag>>, <<write, flag>>}
      BY <1>9
    <3> HIDE DEF SessionIInv
    <3> QED BY <1>4, <3>1, <3>2
  <2>2. ui'.todo = Tail(ui.todo)
    BY <1>2, <1>7 DEF UiType
  <2> QED BY <1>2, <1>7, <2>1, <2>2 DEF UiType
<1>11. Wanted' = Wanted
  BY <1>10 DEF Wanted
<1>12. TodoIsWanted'
  <2>1. CASE ui'.todo = <<>> /\ request' = Wanted
    BY <1>11, <2>1 DEF TodoIsWanted
  <2>2. CASE ui.active /\ ui'.todo = <<flag>> /\ request' = want
    <3>1. ui'.todo = << [op |-> "flag", req |-> Wanted'] >>
      BY <1>5, <1>11, <2>2 DEF flag
    <3> QED BY <1>5, <1>10, <1>11, <2>2, <3>1 DEF TodoIsWanted, FlagOnly
  <2>3. CASE ui.active /\ ui'.todo = <<write, flag>>
    <3>1. ui'.todo = enableSplLogging(ui'.dir, ui'.cal) /\ ui'.active
      BY <1>4, <1>10, <2>3
    <3> QED BY <3>1 DEF TodoIsWanted, enableSplLogging
  <2> QED BY <1>9, <2>1, <2>2, <2>3
<1>13. Applied'
  <2>1. CASE pending' = TRUE
    BY <2>1 DEF Applied
  <2>2. CASE ui.active /\ ui'.todo = <<flag>>
    <3>1. ui'.todo = << [op |-> "flag", req |-> Wanted'] >>
      BY <1>5, <1>11, <2>2 DEF flag
    <3> QED BY <3>1 DEF Applied, FlagOnly
  <2> QED BY <1>9, <2>1, <2>2
<1>14. FoldersMoveOn'
  BY <1>1, <1>10 DEF FoldersMoveOn, MessageLeaves
<1>15. RecordKept'
  BY <1>1, <1>7, <1>10 DEF RecordKept, Quiet, MessageLeaves, Logs
<1> QED
  <2>1. cal.checks <= MaxChecks /\ ui.lastEpoch <= dev.epoch
    BY DEF Counted
  <2>2. request' \in Requests /\ pending' \in BOOLEAN
    <3>1. Wanted \in Requests
      BY <1>4, <1>5
    <3> QED BY <1>4, <1>9, <3>1
  <2> QED BY <1>1, <1>2, <1>3, <1>10, <1>12, <1>13, <1>14, <1>15, <2>1, <2>2, MessageKeeps

-------------------------------------------------------------------------------
(* The calibration checks.                                                 *)

LEMMA StartCheckStep ==
    ASSUME SessionIInv, NEW ch \in Channels, restartSplLoggingForCalibration(ch)
    PROVE  SessionIInv'
<1> USE DEF SessionIInv
<1>1. MessageLeaves /\ UNCHANGED <<request, pending>> /\ ui.todo = <<>> /\ cal.checks < MaxChecks
  BY DEF restartSplLoggingForCalibration, MessageLeaves
<1>2. /\ bound \in LogBounds /\ ui \in UiType /\ request \in Requests /\ pending \in BOOLEAN
      /\ cal \in CalType /\ mirror \in MirrorType /\ seen \in SeenType /\ dev \in DevType
      /\ ui.active \in BOOLEAN /\ ui.lastEpoch \in Nat /\ MaxChecks \in Nat
      /\ second \in Nat /\ dev.epoch \in Nat
  BY BoundsAreNumbers DEF LogShape, UiType, DevType
<1>3. SeenType' = SeenType /\ UiType' = UiType /\ Requests' = Requests
  BY <1>1, TypesStay DEF MessageLeaves
<1>4. cal' \in CalType /\ cal'.checks <= MaxChecks
  BY <1>1, <1>2 DEF restartSplLoggingForCalibration, recordStartCheck, CalType
<1>5. CASE ~ui.active
  <2>1. UNCHANGED <<ui, mirror, seen>>
    BY <1>5 DEF restartSplLoggingForCalibration
  <2>2. TodoIsWanted' /\ Applied'
    BY <1>1, <2>1 DEF TodoIsWanted, Applied, Wanted, FlagOnly, MessageLeaves
  <2>3. FoldersMoveOn'
    BY <1>1, <2>1 DEF FoldersMoveOn, MessageLeaves
  <2>4. RecordKept'
    BY <1>1, <2>1 DEF RecordKept, Quiet, MessageLeaves, Logs
  <2>5. ui.lastEpoch <= dev.epoch
    BY DEF Counted
  <2> QED BY <1>1, <1>2, <1>3, <1>4, <2>1, <2>2, <2>3, <2>4, <2>5, MessageKeeps
<1>6. CASE ui.active
  <2> DEFINE now == <<second, dev.epoch>>
             todo == disableSplLogging \o enableSplLogging(now, TRUE)
  <2>1. now \in Folders /\ now[1] = second /\ now[2] = dev.epoch
    BY <1>2, BoundsAreNumbers DEF Folders, Counted
  <2>2. todo \in Seq(Posts)
    BY <2>1, PostsInOrder
  <2>3. ui' = [ui EXCEPT !.dir = now, !.cal = TRUE, !.todo = todo]
    BY <1>6 DEF restartSplLoggingForCalibration, startFreshSplLogWithConfig, sessionFolderName
  <2> HIDE DEF now, todo
  <2>4. ui' = [active |-> ui.active, lastEpoch |-> ui.lastEpoch, dir |-> now, cal |-> TRUE, todo |-> todo]
    BY <1>2, <2>3, Zenon DEF UiType
  <2>5. ui' \in UiType /\ ui'.active /\ ui'.lastEpoch = ui.lastEpoch /\ ui'.dir = now
        /\ ui'.cal = TRUE /\ ui'.todo = todo
    BY <1>2, <1>6, <2>1, <2>2, <2>4 DEF UiType
  <2>6. /\ mirror' = [mirror EXCEPT !.invalid = mirror.invalid \ {ch}]
        /\ seen' = [seen EXCEPT !.record = NoRecord]
    BY <1>6 DEF restartSplLoggingForCalibration, setCalibrationInvalid
  <2>7. /\ mirror' \in MirrorType /\ mirror'.dropped = mirror.dropped
        /\ mirror'.failed = mirror.failed /\ mirror'.blocks = mirror.blocks
    BY <1>2, <2>6 DEF MirrorType
  <2>8. NoRecord \in RecordType /\ NoRecord.dir = NoFolder /\ NoRecord.bad = {}
    BY <1>2, BoundsAreNumbers DEF NoRecord, RecordType
  <2>9. /\ seen' \in SeenType /\ seen'.record = NoRecord /\ seen'.mixed = seen.mixed
        /\ seen'.raced = seen.raced /\ seen'.sessions = seen.sessions
    BY <1>2, <2>6, <2>8 DEF SeenType
  <2>10. TodoIsWanted'
    <3>1. ui'.todo = disableSplLogging \o enableSplLogging(ui'.dir, ui'.cal)
      BY <2>5 DEF todo
    <3> QED BY <2>5, <3>1 DEF TodoIsWanted, disableSplLogging, enableSplLogging, NoRequest
  <2>11. Applied'
    <3>1. ui.todo # FlagOnly
      BY <1>1 DEF FlagOnly
    <3> QED BY <1>1, <3>1 DEF Applied, MessageLeaves
  <2>12. FoldersMoveOn'
    <3>1. NoRecord.dir[1] = 0 /\ NoRecord.dir[2] = 0
      BY DEF NoRecord, NoFolder
    <3> QED BY <1>1, <1>2, <2>1, <2>5, <2>9, <3>1 DEF FoldersMoveOn, MessageLeaves
  <2>13. RecordKept'
    BY <2>8, <2>9 DEF RecordKept
  <2>14. ui'.lastEpoch <= dev.epoch
    BY <2>5 DEF Counted
  <2> QED BY <1>1, <1>2, <1>3, <1>4, <2>5, <2>7, <2>9, <2>10, <2>11, <2>12, <2>13, <2>14, MessageKeeps
<1> QED BY <1>5, <1>6

LEMMA EndCheckStep ==
    ASSUME SessionIInv, NEW ch \in Channels, NEW v,
           writeCalibrationRecordAndUpdateInvalidFlag(ch, v)
    PROVE  SessionIInv'
<1> USE DEF SessionIInv
<1>1. MessageLeaves /\ UNCHANGED <<ui, request, pending>> /\ ui.todo = <<>> /\ cal.checks < MaxChecks
  BY DEF writeCalibrationRecordAndUpdateInvalidFlag, MessageLeaves
<1>2. /\ bound \in LogBounds /\ ui \in UiType /\ request \in Requests /\ pending \in BOOLEAN
      /\ cal \in CalType /\ mirror \in MirrorType /\ seen \in SeenType
      /\ ui.dir \in Folders /\ ui.active \in BOOLEAN /\ MaxChecks \in Nat
      /\ ui.dir[1] \in Nat /\ ui.dir[2] \in Nat
  BY BoundsAreNumbers DEF LogShape, UiType
<1>3. SeenType' = SeenType /\ UiType' = UiType /\ Requests' = Requests
  BY <1>1, TypesStay DEF MessageLeaves
<1>4. cal' \in CalType /\ cal'.checks <= MaxChecks
  BY <1>1, <1>2 DEF writeCalibrationRecordAndUpdateInvalidFlag, CalType
<1>5. TodoIsWanted' /\ Applied' /\ ui.lastEpoch <= dev.epoch
  BY <1>1 DEF TodoIsWanted, Applied, Wanted, FlagOnly, MessageLeaves, Counted
<1>6. CASE ui.dir = NoFolder
  <2>1. UNCHANGED <<mirror, seen>>
    BY <1>6 DEF writeCalibrationRecordAndUpdateInvalidFlag
  <2>2. FoldersMoveOn'
    BY <1>1, <2>1 DEF FoldersMoveOn, MessageLeaves
  <2>3. RecordKept'
    BY <1>1, <2>1 DEF RecordKept, Quiet, MessageLeaves, Logs
  <2> QED BY <1>1, <1>2, <1>3, <1>4, <1>5, <2>1, <2>2, <2>3, MessageKeeps
<1>7. CASE ui.dir # NoFolder
  <2> DEFINE writes == decideCalibrationRecordChannel(cal.startCh, ch) = "Write"
             bad == IF writes /\ v = "fail" THEN {ch} ELSE {}
             raced == pending \/ an.pc \in {"apply", "start"}
  <2>1. /\ mirror' = IF writes THEN setCalibrationInvalid(mirror, ch, v = "fail") ELSE mirror
        /\ seen' = [seen EXCEPT !.record = [dir |-> ui.dir, bad |-> bad, raced |-> raced]]
    BY <1>7 DEF writeCalibrationRecordAndUpdateInvalidFlag
  <2>2. bad \in SUBSET Channels /\ raced \in BOOLEAN
    OBVIOUS
  <2>3. /\ mirror' \in MirrorType /\ mirror'.dropped = mirror.dropped
        /\ mirror'.failed = mirror.failed /\ mirror'.blocks = mirror.blocks /\ bad \subseteq mirror'.invalid
    BY <1>2, <2>1 DEF MirrorType, setCalibrationInvalid
  <2>4. (~raced) <=> (~pending /\ an.pc \notin {"apply", "start"})
    OBVIOUS
  <2> HIDE DEF bad, raced, writes
  <2>5. /\ seen' \in SeenType /\ seen'.record.dir = ui.dir /\ seen'.record.bad = bad
        /\ seen'.record.raced = raced /\ seen'.mixed = seen.mixed
        /\ seen'.raced = seen.raced /\ seen'.sessions = seen.sessions
    BY <1>2, <2>1, <2>2 DEF SeenType, RecordType
  <2>6. FoldersMoveOn'
    BY <1>1, <1>2, <2>5 DEF FoldersMoveOn, MessageLeaves
  <2>7. ASSUME ~raced, ui.active
        PROVE  Logs > 0 /\ seen.sessions[Logs].dir = ui.dir
    <3>1. request = Wanted /\ ui.todo # FlagOnly
      BY <1>1 DEF TodoIsWanted, FlagOnly, disableSplLogging, enableSplLogging
    <3>2. request.enable = TRUE /\ request.dir = ui.dir
      BY <2>7, <3>1 DEF Wanted
    <3>3. ses.on /\ ses.dir = ui.dir
      BY <2>4, <2>7, <3>1, <3>2 DEF Applied
    <3> QED BY <2>4, <2>7, <3>3 DEF SessionsNumbered
  <2>8. RecordKept'
    <3>1. CASE raced
      BY <1>7, <2>5, <3>1 DEF RecordKept
    <3>2. CASE ~raced /\ ui.active
      BY <1>1, <1>7, <2>3, <2>5, <2>7, <3>2 DEF RecordKept, Logs
    <3>3. CASE ~raced /\ ~ui.active
      BY <1>1, <1>7, <2>3, <2>4, <2>5, <3>3 DEF RecordKept, Quiet, MessageLeaves
    <3> QED BY <3>1, <3>2, <3>3
  <2> QED BY <1>1, <1>2, <1>3, <1>4, <1>5, <2>3, <2>5, <2>6, <2>8, MessageKeeps
<1> QED BY <1>6, <1>7

-------------------------------------------------------------------------------
(* The analysis thread.                                                    *)

LEMMA TickStep ==
    ASSUME SessionIInv, NEW lowered \in BOOLEAN, AnTick(lowered)
    PROVE  SessionIInv'
<1> USE DEF SessionIInv
<1>1. /\ UNCHANGED <<bound, second, ui, request, pending, cal, ses, pipe, wr, mirror, disk, seen>>
      /\ an.pc = "top" /\ (lowered => dev.gate)
      /\ an' = [pc |-> IF dev.gate /\ ~lowered THEN "top" ELSE "request", lastEpoch |-> dev.epoch]
      /\ dev' = [dev EXCEPT !.gate = dev.gate /\ ~lowered] /\ hop' = IF lowered THEN 0 ELSE hop
  BY DEF AnTick
<1>2. dev \in DevType /\ dev.epoch \in Nat /\ dev.gate \in BOOLEAN /\ hop \in LogRates \cup {0}
  BY DEF LogShape, DevType
<1>3. /\ dev' \in DevType /\ dev'.rate = dev.rate /\ dev'.epoch = dev.epoch /\ dev'.up = dev.up
      /\ dev'.pc = dev.pc /\ dev'.gate = (dev.gate /\ ~lowered)
  BY <1>1, <1>2 DEF DevType
<1>4. /\ an' \in AnType /\ an'.lastEpoch = dev.epoch /\ an'.pc \in {"top", "request"}
      /\ an'.pc = "request" => ~dev'.gate
  BY <1>1, <1>2, <1>3 DEF AnType
<1>5. hop' \in LogRates \cup {0} /\ (hop' = 0 \/ (hop' = hop /\ ~lowered))
  BY <1>1, <1>2
<1>6. LogShape'
  BY <1>1, <1>3, <1>4, <1>5, TypesStay DEF LogShape
<1>7. Counted'
  BY <1>1, <1>2, <1>3, <1>4, TypesStay DEF Counted
<1>8. HopIsOfDevice'
  BY <1>1, <1>3, <1>4, <1>5 DEF HopIsOfDevice
<1>9. SessionIsOfDevice'
  BY <1>1, <1>3, <1>4, <1>5 DEF SessionIsOfDevice, Stamped
<1>10. TodoIsWanted' /\ Applied'
  BY <1>1, <1>4 DEF TodoIsWanted, Applied, Wanted, FlagOnly
<1>11. FoldersMoveOn'
  BY <1>1, <1>3 DEF FoldersMoveOn
<1>12. SessionsNumbered' /\ WriterLives' /\ FailureTravels' /\ MirrorIsOwn' /\ HopsOfOneRate'
  BY <1>1, <1>4 DEF SessionsNumbered, WriterLives, FailureTravels, MirrorIsOwn, HopsOfOneRate, Logs
<1>13. RecordKept'
  BY <1>1, <1>4 DEF RecordKept, Quiet, Logs
<1> QED BY <1>6, <1>7, <1>8, <1>9, <1>10, <1>11, <1>12, <1>13

LEMMA TakeRequestStep ==
    ASSUME SessionIInv, AnTakeRequest
    PROVE  SessionIInv'
<1> USE DEF SessionIInv
<1>1. /\ UNCHANGED <<bound, dev, hop, second, ui, request, cal, pipe, wr, mirror, disk, seen>>
      /\ an.pc = "request" /\ an' = [an EXCEPT !.pc = IF pending THEN "apply" ELSE "feed"]
      /\ pending' = FALSE /\ ses' = IF pending THEN [ses EXCEPT !.epoch = an.lastEpoch] ELSE ses
  BY DEF AnTakeRequest
<1>2. an \in AnType /\ ses \in SesType /\ pending \in BOOLEAN /\ an.lastEpoch \in Nat
  BY DEF LogShape, AnType
<1>3. /\ an' \in AnType /\ an'.lastEpoch = an.lastEpoch /\ an'.pc = IF pending THEN "apply" ELSE "feed"
  BY <1>1, <1>2 DEF AnType
<1>4. /\ ses' \in SesType /\ ses'.on = ses.on /\ ses'.rate = ses.rate /\ ses'.dir = ses.dir
      /\ ses'.id = ses.id /\ ses'.blocks = ses.blocks
      /\ ses'.epoch = IF pending THEN an.lastEpoch ELSE ses.epoch
  BY <1>1, <1>2 DEF SesType
<1>5. LogShape'
  BY <1>1, <1>3, <1>4, TypesStay DEF LogShape
<1>6. Counted'
  BY <1>1, <1>3, <1>4, TypesStay DEF Counted
<1>7. HopIsOfDevice' /\ SessionIsOfDevice'
  BY <1>1, <1>3, <1>4 DEF HopIsOfDevice, SessionIsOfDevice, Stamped
<1>8. TodoIsWanted' /\ Applied'
  BY <1>1, <1>3, <1>4 DEF TodoIsWanted, Applied, Wanted, FlagOnly
<1>9. FoldersMoveOn'
  BY <1>1 DEF FoldersMoveOn
<1>10. SessionsNumbered' /\ WriterLives' /\ FailureTravels' /\ MirrorIsOwn' /\ HopsOfOneRate'
  BY <1>1, <1>3, <1>4 DEF SessionsNumbered, WriterLives, FailureTravels, MirrorIsOwn, HopsOfOneRate, Logs
<1>11. RecordKept'
  BY <1>1, <1>3, <1>4 DEF RecordKept, Quiet, Logs
<1> QED BY <1>5, <1>6, <1>7, <1>8, <1>9, <1>10, <1>11

\* What a request that is applied makes of the session, and what it leaves of the pipeline.
LEMMA ApplyEffect ==
    ASSUME SessionIInv, AnApply
    PROVE  /\ UNCHANGED <<bound, dev, hop, second, ui, request, pending, cal, wr, mirror, disk>>
           /\ an.pc = "apply" /\ an' \in AnType /\ an'.pc = "start" /\ an'.lastEpoch = an.lastEpoch
           /\ ses' \in SesType /\ ses'.on = request.enable /\ ses'.epoch = ses.epoch /\ ses'.blocks = 0
           /\ request.enable => /\ ses.id < MaxSessions /\ ses'.id = ses.id + 1
                                /\ ses'.rate = dev.rate /\ ses'.dir = request.dir
           /\ ~request.enable => ses'.id = ses.id
           /\ pipe' = [pipe EXCEPT !.running = FALSE] /\ pipe' \in PipeType
           /\ seen' \in SeenType
           /\ seen' = [seen EXCEPT !.raced = request.enable /\ (dev.pc # "on" \/ dev.epoch # an.lastEpoch)]
<1>1. /\ an \in AnType /\ ses \in SesType /\ pipe \in PipeType /\ seen \in SeenType
      /\ request.enable \in BOOLEAN /\ request.dir \in Folders /\ dev.rate \in Nat
      /\ dev.epoch \in Nat /\ an.lastEpoch \in Nat
  BY LogAssumption DEF SessionIInv, LogShape, Requests, DevType, AnType
<1>2. /\ UNCHANGED <<bound, dev, hop, second, ui, request, pending, cal, wr, mirror, disk>>
      /\ an.pc = "apply" /\ an' = [an EXCEPT !.pc = "start"]
      /\ (request.enable => ses.id < MaxSessions)
      /\ pipe' = [pipe EXCEPT !.running = FALSE]
      /\ seen' = [seen EXCEPT !.raced = request.enable /\ (dev.pc # "on" \/ dev.epoch # an.lastEpoch)]
  BY DEF AnApply
<1>3. an' \in AnType /\ an'.pc = "start" /\ an'.lastEpoch = an.lastEpoch
  BY <1>1, <1>2 DEF AnType
<1>4. pipe' \in PipeType
  BY <1>1, <1>2 DEF PipeType
<1>5. seen' \in SeenType
  BY <1>1, <1>2 DEF SeenType
<1>6. CASE request.enable
  <2>1. ses' = [ses EXCEPT !.on = TRUE, !.rate = dev.rate, !.dir = request.dir, !.id = @ + 1, !.blocks = 0]
    BY <1>6 DEF AnApply
  <2>2. ses' = [on |-> TRUE, epoch |-> ses.epoch, rate |-> dev.rate, dir |-> request.dir,
                id |-> ses.id + 1, blocks |-> 0]
    BY <1>1, <2>1, Zenon DEF SesType
  <2>3. ses' \in SesType
    BY <1>1, <2>2 DEF SesType
  <2>4. /\ ses'.on = request.enable /\ ses'.epoch = ses.epoch /\ ses'.blocks = 0 /\ ses'.id = ses.id + 1
        /\ ses'.rate = dev.rate /\ ses'.dir = request.dir
    BY <1>1, <1>6, <2>2
  <2> QED BY <1>2, <1>3, <1>4, <1>5, <1>6, <2>3, <2>4
<1>7. CASE ~request.enable
  <2>1. ses' = [ses EXCEPT !.on = FALSE, !.blocks = 0]
    BY <1>7 DEF AnApply
  <2>2. ses' = [on |-> FALSE, epoch |-> ses.epoch, rate |-> ses.rate, dir |-> ses.dir,
                id |-> ses.id, blocks |-> 0]
    BY <1>1, <2>1, Zenon DEF SesType
  <2>3. ses' \in SesType
    BY <1>1, <2>2 DEF SesType
  <2>4. ses'.on = request.enable /\ ses'.epoch = ses.epoch /\ ses'.blocks = 0 /\ ses'.id = ses.id
    BY <1>1, <1>7, <2>2
  <2> QED BY <1>2, <1>3, <1>4, <1>5, <1>7, <2>3, <2>4
<1> QED BY <1>6, <1>7

LEMMA ApplyStep ==
    ASSUME SessionIInv, AnApply
    PROVE  SessionIInv'
<1>1. /\ UNCHANGED <<bound, dev, hop, second, ui, request, pending, cal, wr, mirror, disk>>
      /\ an.pc = "apply" /\ an' \in AnType /\ an'.pc = "start" /\ an'.lastEpoch = an.lastEpoch
      /\ ses' \in SesType /\ ses'.on = request.enable /\ ses'.epoch = ses.epoch /\ ses'.blocks = 0
      /\ request.enable => /\ ses.id < MaxSessions /\ ses'.id = ses.id + 1
                           /\ ses'.rate = dev.rate /\ ses'.dir = request.dir
      /\ ~request.enable => ses'.id = ses.id
      /\ pipe' \in PipeType /\ seen' \in SeenType
      /\ pipe' = [pipe EXCEPT !.running = FALSE]
      /\ seen' = [seen EXCEPT !.raced = request.enable /\ (dev.pc # "on" \/ dev.epoch # an.lastEpoch)]
  BY ApplyEffect
<1> USE DEF SessionIInv
<1>2. /\ pipe'.sink = pipe.sink /\ pipe'.queue = pipe.queue /\ pipe'.dropped = pipe.dropped
      /\ pipe'.failed = pipe.failed
  BY <1>1 DEF LogShape, PipeType
<1>3. /\ seen'.mixed = seen.mixed /\ seen'.sessions = seen.sessions /\ seen'.record = seen.record
      /\ seen'.raced = (request.enable /\ (dev.pc # "on" \/ dev.epoch # an.lastEpoch))
  BY <1>1 DEF LogShape, SeenType
<1>4. ses.id \in Nat /\ MaxSessions \in Nat /\ MaxBlocks \in Nat /\ request.enable \in BOOLEAN
  BY LogAssumption, BoundsAreNumbers DEF LogShape, SesType, Requests
<1>5. LogShape'
  BY <1>1, TypesStay DEF LogShape
<1>6. Counted'
  BY <1>1, <1>2, <1>4, TypesStay DEF Counted
<1>7. HopIsOfDevice'
  BY <1>1 DEF HopIsOfDevice
<1>8. SessionIsOfDevice'
  BY <1>1, <1>3 DEF SessionIsOfDevice, Stamped, HopIsOfDevice
<1>9. TodoIsWanted' /\ Applied'
  BY <1>1 DEF TodoIsWanted, Applied, Wanted, FlagOnly
<1>10. FoldersMoveOn'
  BY <1>1, <1>3 DEF FoldersMoveOn
<1>11. SessionsNumbered'
  BY <1>1, <1>3, <1>4 DEF SessionsNumbered, Logs
<1>12. WriterLives' /\ FailureTravels' /\ MirrorIsOwn' /\ HopsOfOneRate'
  BY <1>1, <1>2, <1>3 DEF WriterLives, FailureTravels, MirrorIsOwn, HopsOfOneRate, Logs
<1>13. RecordKept'
  BY <1>1, <1>3 DEF RecordKept, Quiet, Logs
<1> QED BY <1>5, <1>6, <1>7, <1>8, <1>9, <1>10, <1>11, <1>12, <1>13

\* What the start of a log resets, and the session it adds to the list.
LEMMA StartEffect ==
    ASSUME SessionIInv, AnStart
    PROVE  /\ UNCHANGED <<bound, dev, hop, second, ui, request, pending, cal, ses, disk>>
           /\ an.pc = "start" /\ wr.pc = "none"
           /\ an' \in AnType /\ an'.pc = "feed" /\ an'.lastEpoch = an.lastEpoch
           /\ mirror' = freshMirror /\ mirror' \in MirrorType
           /\ ~ses.on => UNCHANGED <<pipe, wr, seen>>
           /\ ses.on =>
                /\ pipe' = freshPipe /\ pipe' \in PipeType
                /\ wr' \in WrType /\ wr'.pc = "setup" /\ wr'.dir = ses.dir /\ wr'.inSeg = wr.inSeg
                /\ wr'.failed = wr.failed
                /\ seen' \in SeenType /\ seen'.mixed = seen.mixed /\ seen'.raced = seen.raced
                /\ seen'.record = seen.record /\ seen'.lost = seen.lost /\ seen'.refused = seen.refused
                /\ Len(seen'.sessions) = Logs + 1
                /\ seen'.sessions[Logs + 1].dir = ses.dir /\ seen'.sessions[Logs + 1].closed = 0
                /\ \A k \in 1..Logs : seen'.sessions[k] = seen.sessions[k]
<1>1. /\ an \in AnType /\ ses \in SesType /\ wr \in WrType /\ seen \in SeenType /\ ses.dir \in Folders
      /\ seen.sessions \in Seq([dir : Folders, closed : Nat])
  BY DEF SessionIInv, LogShape, SesType, SeenType
<1>2. /\ UNCHANGED <<bound, dev, hop, second, ui, request, pending, cal, ses, disk>>
      /\ an.pc = "start" /\ wr.pc = "none" /\ an' = [an EXCEPT !.pc = "feed"] /\ mirror' = freshMirror
  BY DEF AnStart
<1>3. an' \in AnType /\ an'.pc = "feed" /\ an'.lastEpoch = an.lastEpoch
  BY <1>1, <1>2 DEF AnType
<1>4. mirror' \in MirrorType
  BY <1>2 DEF MirrorType, freshMirror
<1>5. CASE ~ses.on
  BY <1>2, <1>3, <1>4, <1>5 DEF AnStart
<1>6. CASE ses.on
  <2> DEFINE s == [dir |-> ses.dir, closed |-> 0]
             t == Append(seen.sessions, s)
  <2>1. pipe' = freshPipe /\ wr' = [wr EXCEPT !.pc = "setup", !.dir = ses.dir]
        /\ seen' = [seen EXCEPT !.sessions = t]
    BY <1>6 DEF AnStart
  <2>2. pipe' \in PipeType
    BY <2>1 DEF PipeType, freshPipe
  <2>3. wr' = [pc |-> "setup", ok |-> wr.ok, failed |-> wr.failed, seg |-> wr.seg, inSeg |-> wr.inSeg,
               dir |-> ses.dir]
    BY <1>1, <2>1, Zenon DEF WrType
  <2>4. wr' \in WrType /\ wr'.pc = "setup" /\ wr'.dir = ses.dir /\ wr'.inSeg = wr.inSeg
        /\ wr'.failed = wr.failed
    BY <1>1, <2>3 DEF WrType
  <2>5. s \in [dir : Folders, closed : Nat] /\ s.dir = ses.dir /\ s.closed = 0
    BY <1>1
  <2> HIDE DEF s
  <2>6. /\ t \in Seq([dir : Folders, closed : Nat]) /\ Len(t) = Logs + 1 /\ t[Logs + 1] = s
        /\ \A k \in 1..Logs : t[k] = seen.sessions[k]
    BY <1>1, <2>5, AppendProperties DEF Logs
  <2> HIDE DEF t
  <2>7. /\ seen' \in SeenType /\ seen'.mixed = seen.mixed /\ seen'.raced = seen.raced
        /\ seen'.record = seen.record /\ seen'.lost = seen.lost /\ seen'.refused = seen.refused
        /\ seen'.sessions = t
    BY <1>1, <2>1, <2>6 DEF SeenType
  <2> QED BY <1>2, <1>3, <1>4, <1>6, <2>1, <2>2, <2>4, <2>5, <2>6, <2>7
<1> QED BY <1>5, <1>6

LEMMA StartStep ==
    ASSUME SessionIInv, AnStart
    PROVE  SessionIInv'
<1>1. /\ UNCHANGED <<bound, dev, hop, second, ui, request, pending, cal, ses, disk>>
      /\ an.pc = "start" /\ wr.pc = "none"
      /\ an' \in AnType /\ an'.pc = "feed" /\ an'.lastEpoch = an.lastEpoch
      /\ mirror' = freshMirror /\ mirror' \in MirrorType
  BY StartEffect
<1>2. ~ses.on => UNCHANGED <<pipe, wr, seen>>
  BY StartEffect
<1>3. ses.on =>
        /\ pipe' = freshPipe /\ pipe' \in PipeType
        /\ wr' \in WrType /\ wr'.pc = "setup" /\ wr'.dir = ses.dir /\ wr'.inSeg = wr.inSeg
        /\ seen' \in SeenType /\ seen'.mixed = seen.mixed /\ seen'.raced = seen.raced
        /\ seen'.record = seen.record
        /\ Len(seen'.sessions) = Logs + 1
        /\ seen'.sessions[Logs + 1].dir = ses.dir /\ seen'.sessions[Logs + 1].closed = 0
        /\ \A k \in 1..Logs : seen'.sessions[k] = seen.sessions[k]
  BY StartEffect
<1>4. mirror'.dropped = 0 /\ mirror'.failed = FALSE /\ mirror'.blocks = 0
  BY <1>1 DEF freshMirror
<1>5. ses.on => /\ pipe'.running = TRUE /\ pipe'.sink = TRUE /\ pipe'.queue = <<>> /\ pipe'.dropped = 0
                /\ pipe'.failed = FALSE
  BY <1>3 DEF freshPipe
<1> USE DEF SessionIInv
<1>6. /\ Logs \in Nat /\ ses.id \in Nat /\ ses.blocks = 0 /\ ses.on \in BOOLEAN /\ MaxBlocks \in Nat
      /\ pipe.dropped \in Nat
  BY <1>1, BoundsAreNumbers DEF Logs, LogShape, SeenType, SesType, Counted, PipeType
<1>7. LogShape'
  <2>1. pipe' \in PipeType /\ wr' \in WrType /\ seen' \in SeenType
    BY <1>2, <1>3 DEF LogShape
  <2> QED BY <1>1, <2>1, TypesStay DEF LogShape
<1>8. Counted'
  <2>1. CASE ses.on
    BY <1>1, <1>3, <1>5, <1>6, <2>1, TypesStay, LogAssumption DEF Counted
  <2>2. CASE ~ses.on
    BY <1>1, <1>2, <2>2, TypesStay DEF Counted
  <2> QED BY <2>1, <2>2
<1>9. HopIsOfDevice'
  BY <1>1 DEF HopIsOfDevice
<1>10. SessionIsOfDevice' /\ HopsOfOneRate'
  BY <1>1, <1>2, <1>3 DEF SessionIsOfDevice, Stamped, HopsOfOneRate
<1>11. TodoIsWanted' /\ Applied'
  BY <1>1 DEF TodoIsWanted, Applied, Wanted, FlagOnly
<1>12. seen'.record = seen.record
  BY <1>2, <1>3
<1>13. FoldersMoveOn'
  BY <1>1, <1>12 DEF FoldersMoveOn
<1>14. SessionsNumbered'
  <2>1. CASE ses.on
    BY <1>1, <1>3, <1>6, <2>1 DEF SessionsNumbered, Logs
  <2>2. CASE ~ses.on
    BY <1>1, <1>2, <2>2 DEF SessionsNumbered, Logs
  <2> QED BY <2>1, <2>2
<1>15. WriterLives'
  <2>1. CASE ses.on
    <3>1. pipe'.sink = (wr'.pc # "none")
      BY <1>3, <1>5, <2>1
    <3>2. pipe'.running /\ pipe'.queue = <<>> /\ wr'.pc = "setup"
      BY <1>3, <1>5, <2>1
    <3>3. Logs' = Logs + 1 /\ wr'.dir = seen'.sessions[Logs'].dir /\ Logs' > 0
      BY <1>3, <1>6, <2>1 DEF Logs
    <3> HIDE DEF SessionIInv
    <3> QED BY <3>1, <3>2, <3>3 DEF WriterLives
  <2>2. CASE ~ses.on
    BY <1>1, <1>2, <2>2 DEF WriterLives, Logs
  <2> QED BY <2>1, <2>2
<1>16. FailureTravels' /\ MirrorIsOwn'
  <2>1. CASE ses.on
    BY <1>1, <1>3, <1>4, <1>5, <1>6, <2>1 DEF FailureTravels, MirrorIsOwn
  <2>2. CASE ~ses.on
    BY <1>1, <1>2, <1>4, <1>6, <2>2 DEF FailureTravels, MirrorIsOwn
  <2> QED BY <2>1, <2>2
<1>17. RecordKept'
  <2>1. CASE ses.on
    <3>1. Len(seen'.sessions) = Logs + 1 /\ \A k \in 1..Logs : seen'.sessions[k] = seen.sessions[k]
      BY <1>3, <2>1
    <3>2. SUFFICES ASSUME seen.record.dir # NoFolder, seen.record.dir = ui.dir, ~seen.record.raced
                   PROVE  \E k \in 1..Logs : seen.sessions[k].dir = ui.dir
      BY <1>1, <1>6, <1>12, <3>1 DEF RecordKept, Logs
    <3> QED BY <1>1, <1>6, <3>2 DEF RecordKept, Quiet
  <2>2. CASE ~ses.on
    BY <1>1, <1>2, <2>2 DEF RecordKept, Quiet, Logs
  <2> QED BY <2>1, <2>2
<1> QED BY <1>7, <1>8, <1>9, <1>10, <1>11, <1>13, <1>14, <1>15, <1>16, <1>17

\* A hop that is fed and closes no block, closes one that is queued, or one that is refused.
FeedNone(closes) ==
    /\ ~closes /\ ses' = ses /\ pipe' = pipe /\ seen'.refused = seen.refused
FeedQueued(closes, b) ==
    /\ closes /\ ses'.blocks = ses.blocks + 1 /\ Len(pipe.queue) < QueueBlocks
    /\ pipe' = [pipe EXCEPT !.queue = Append(@, b)] /\ seen'.refused = seen.refused
FeedRefused(closes, b) ==
    /\ closes /\ ses'.blocks = ses.blocks + 1
    /\ pipe' = [pipe EXCEPT !.dropped = @ + 1] /\ seen'.refused = seen.refused \cup {b}

\* What a hop that the session takes changes.
LEMMA FeedEffect ==
    ASSUME SessionIInv, NEW closes \in BOOLEAN, AnFeed(closes), hop # 0, ~splFrozen
    PROVE  /\ ses.on /\ ses.epoch = an.lastEpoch /\ ses.id = Logs /\ Logs > 0
           /\ closes => ses.blocks < MaxBlocks
           /\ ses' \in SesType /\ ses'.on = ses.on /\ ses'.epoch = ses.epoch /\ ses'.rate = ses.rate
           /\ ses'.dir = ses.dir /\ ses'.id = ses.id
           /\ pipe' \in PipeType /\ pipe'.running = pipe.running /\ pipe'.sink = pipe.sink
           /\ pipe'.failed = pipe.failed /\ pipe'.lastFailed = pipe.lastFailed
           /\ mirror' \in MirrorType /\ mirror'.dropped = pipe'.dropped /\ mirror'.failed = pipe'.failed
           /\ mirror'.blocks = ses'.blocks /\ mirror'.invalid = mirror.invalid
           /\ seen' \in SeenType /\ seen'.raced = seen.raced /\ seen'.lost = seen.lost
           /\ seen'.record = seen.record
           /\ seen'.mixed = (seen.mixed \/ (hop # ses.rate /\ ~seen.raced /\ dev.epoch = an.lastEpoch))
           /\ Len(seen'.sessions) = Logs
           /\ \A k \in 1..Logs : /\ seen'.sessions[k].dir = seen.sessions[k].dir
                                 /\ k # Logs => seen'.sessions[k] = seen.sessions[k]
           /\ seen'.sessions[Logs].closed = ses'.blocks
           /\ LET b == <<ses.id, ses.blocks + 1>>
              IN  FeedNone(closes) \/ FeedQueued(closes, b) \/ FeedRefused(closes, b)
<1>1. /\ ses \in SesType /\ pipe \in PipeType /\ mirror \in MirrorType /\ seen \in SeenType
      /\ ses.id \in Nat /\ ses.blocks \in Nat /\ pipe.queue \in Seq(Blocks) /\ pipe.dropped \in Nat
      /\ pipe.failed \in BOOLEAN /\ seen.refused \in SUBSET Blocks
      /\ seen.sessions \in Seq([dir : Folders, closed : Nat]) /\ Logs \in Nat
  BY DEF SessionIInv, LogShape, SesType, PipeType, SeenType, Logs
<1> DEFINE b == <<ses.id, ses.blocks + 1>>
           p == IF closes THEN pushBlock(pipe, b) ELSE pipe
           mixed == seen.mixed \/ (hop # ses.rate /\ ~seen.raced /\ dev.epoch = an.lastEpoch)
           refused == IF closes /\ p.queue = pipe.queue THEN seen.refused \cup {b} ELSE seen.refused
           sessions == [seen.sessions EXCEPT ![ses.id].closed = ses'.blocks]
<1>2. /\ an.pc = "feed" /\ ses.on /\ ses.epoch = an.lastEpoch /\ (closes => ses.blocks < MaxBlocks)
      /\ ses' = IF closes THEN [ses EXCEPT !.blocks = @ + 1] ELSE ses
      /\ pipe' = p
      /\ mirror' = [mirror EXCEPT !.dropped = p.dropped, !.failed = p.failed, !.blocks = ses'.blocks]
      /\ seen' = [seen EXCEPT !.mixed = mixed, !.refused = refused, !.sessions = sessions]
  BY DEF AnFeed, splFrozen
<1>3. ses.id = Logs /\ Logs > 0
  BY <1>1, <1>2 DEF SessionIInv, SessionsNumbered
<1>4. b \in Blocks
  BY <1>1 DEF Blocks
<1>5. /\ ses' \in SesType /\ ses'.on = ses.on /\ ses'.epoch = ses.epoch /\ ses'.rate = ses.rate
      /\ ses'.dir = ses.dir /\ ses'.id = ses.id /\ ses'.blocks \in Nat
      /\ ses'.blocks = IF closes THEN ses.blocks + 1 ELSE ses.blocks
  <2>1. CASE closes
    <3>1. ses' = [ses EXCEPT !.blocks = ses.blocks + 1]
      BY <1>2, <2>1
    <3> QED BY <1>1, <2>1, <3>1, SMTT(30) DEF SesType
  <2>2. CASE ~closes
    <3>1. ses' = ses
      BY <1>2, <2>2
    <3> QED BY <1>1, <2>2, <3>1
  <2> QED BY <2>1, <2>2
<1> HIDE DEF b, mixed, refused, sessions
<1>6. \/ ~closes /\ p = pipe /\ refused = seen.refused
      \/ /\ closes /\ Len(pipe.queue) < QueueBlocks /\ p = [pipe EXCEPT !.queue = Append(@, b)]
         /\ refused = seen.refused
      \/ closes /\ p = [pipe EXCEPT !.dropped = @ + 1] /\ refused = seen.refused \cup {b}
  <2>1. CASE ~closes
    BY <2>1 DEF refused
  <2>2. CASE closes /\ Len(pipe.queue) < QueueBlocks
    <3>1. p = [pipe EXCEPT !.queue = Append(pipe.queue, b)]
      BY <2>2 DEF pushBlock
    <3>2. p.queue = Append(pipe.queue, b)
      BY <1>1, <3>1 DEF PipeType
    <3>3. p.queue # pipe.queue
      BY <1>1, <1>4, <3>2, AppendProperties
    <3> QED BY <2>2, <3>1, <3>3 DEF refused
  <2>3. CASE closes /\ ~(Len(pipe.queue) < QueueBlocks)
    <3>1. p = [pipe EXCEPT !.dropped = pipe.dropped + 1]
      BY <2>3 DEF pushBlock
    <3>2. p.queue = pipe.queue
      BY <1>1, <3>1 DEF PipeType
    <3> QED BY <2>3, <3>1, <3>2 DEF refused
  <2> QED BY <2>1, <2>2, <2>3
<1> HIDE DEF p
<1>7. /\ p \in PipeType /\ p.running = pipe.running /\ p.sink = pipe.sink
      /\ p.failed = pipe.failed /\ p.lastFailed = pipe.lastFailed
  <2>1. Append(pipe.queue, b) \in Seq(Blocks)
    BY <1>1, <1>4, AppendProperties
  <2>2. CASE p = pipe
    BY <1>1, <2>2
  <2>3. CASE p = [pipe EXCEPT !.queue = Append(@, b)]
    BY <1>1, <2>1, <2>3 DEF PipeType
  <2>4. CASE p = [pipe EXCEPT !.dropped = @ + 1]
    BY <1>1, <2>4, SMTT(30) DEF PipeType
  <2> QED BY <1>6, <2>2, <2>3, <2>4
<1>8. p.dropped \in Nat /\ p.failed \in BOOLEAN
  BY <1>7 DEF PipeType
<1>9. mirror' = [dropped |-> p.dropped, failed |-> p.failed, blocks |-> ses'.blocks, invalid |-> mirror.invalid]
  BY <1>1, <1>2, Zenon DEF MirrorType
<1>10. /\ mirror' \in MirrorType /\ mirror'.dropped = pipe'.dropped /\ mirror'.failed = pipe'.failed
       /\ mirror'.blocks = ses'.blocks /\ mirror'.invalid = mirror.invalid
  BY <1>1, <1>2, <1>5, <1>8, <1>9 DEF MirrorType
<1>11. seen' = [mixed |-> mixed, raced |-> seen.raced, lost |-> seen.lost, refused |-> refused,
                sessions |-> sessions, record |-> seen.record]
  BY <1>1, <1>2, Zenon DEF SeenType
<1>12. /\ sessions \in Seq([dir : Folders, closed : Nat]) /\ Len(sessions) = Logs
       /\ \A k \in 1..Logs : /\ sessions[k].dir = seen.sessions[k].dir
                             /\ k # Logs => sessions[k] = seen.sessions[k]
       /\ sessions[Logs].closed = ses'.blocks
  <2> DEFINE e == [seen.sessions[Logs] EXCEPT !.closed = ses'.blocks]
  <2>1. Logs \in 1..Len(seen.sessions)
    BY <1>1, <1>3 DEF Logs
  <2>2. seen.sessions[Logs] \in [dir : Folders, closed : Nat]
    BY <1>1, <2>1, ElementOfSeq
  <2>3. e \in [dir : Folders, closed : Nat] /\ e.dir = seen.sessions[Logs].dir /\ e.closed = ses'.blocks
    BY <1>5, <2>2
  <2>4. sessions = [seen.sessions EXCEPT ![Logs] = e]
    BY <1>3 DEF sessions
  <2> HIDE DEF e
  <2>5. /\ sessions \in Seq([dir : Folders, closed : Nat]) /\ Len(sessions) = Logs
        /\ \A k \in 1..Logs : sessions[k] = IF k = Logs THEN e ELSE seen.sessions[k]
    BY <1>1, <2>1, <2>3, <2>4, ExceptSeq DEF Logs
  <2> QED BY <1>1, <1>3, <2>3, <2>5, SMTT(30)
<1>13. mixed \in BOOLEAN /\ refused \in SUBSET Blocks
  <2>1. mixed \in BOOLEAN
    BY <1>1 DEF mixed, SeenType
  <2> QED BY <1>1, <1>4, <1>6, <2>1
<1>14. seen' \in SeenType
  BY <1>1, <1>11, <1>12, <1>13 DEF SeenType
<1>15. /\ seen'.raced = seen.raced /\ seen'.lost = seen.lost /\ seen'.record = seen.record
       /\ seen'.mixed = mixed /\ seen'.sessions = sessions /\ seen'.refused = refused
  BY <1>11
<1>16. FeedNone(closes) \/ FeedQueued(closes, b) \/ FeedRefused(closes, b)
  <2>1. ~closes => ses' = ses
    BY <1>2
  <2> QED BY <1>2, <1>5, <1>6, <1>15, <2>1 DEF FeedNone, FeedQueued, FeedRefused
<1>17. /\ pipe' \in PipeType /\ pipe'.running = pipe.running /\ pipe'.sink = pipe.sink
       /\ pipe'.failed = pipe.failed /\ pipe'.lastFailed = pipe.lastFailed
  BY <1>2, <1>7
<1>18. seen'.mixed = (seen.mixed \/ (hop # ses.rate /\ ~seen.raced /\ dev.epoch = an.lastEpoch))
  BY <1>15 DEF mixed
<1>19. /\ Len(seen'.sessions) = Logs /\ seen'.sessions[Logs].closed = ses'.blocks
       /\ \A k \in 1..Logs : /\ seen'.sessions[k].dir = seen.sessions[k].dir
                             /\ k # Logs => seen'.sessions[k] = seen.sessions[k]
  BY <1>12, <1>15
<1> QED BY <1>2, <1>3, <1>5, <1>10, <1>14, <1>15, <1>16, <1>17, <1>18, <1>19 DEF b

LEMMA FeedStep ==
    ASSUME SessionIInv, NEW closes \in BOOLEAN, AnFeed(closes)
    PROVE  SessionIInv'
<1>1. /\ UNCHANGED <<bound, dev, second, ui, request, pending, cal, wr, disk>>
      /\ an.pc = "feed" /\ an' = [an EXCEPT !.pc = "top"] /\ hop' = 0
  BY DEF AnFeed
<1>2. an' \in AnType /\ an'.pc = "top" /\ an'.lastEpoch = an.lastEpoch
  BY <1>1 DEF SessionIInv, LogShape, AnType
<1>3. HopIsOfDevice'
  BY <1>1 DEF HopIsOfDevice
<1>4. TodoIsWanted'
  BY <1>1 DEF SessionIInv, TodoIsWanted, Wanted, FlagOnly
<1>5. CASE hop = 0 \/ splFrozen
  <2>1. UNCHANGED <<ses, pipe, mirror, seen>>
    BY <1>5 DEF AnFeed
  <2> USE DEF SessionIInv
  <2>2. LogShape'
    BY <1>1, <1>2, <2>1, TypesStay DEF LogShape
  <2>3. Counted'
    BY <1>1, <1>2, <2>1, TypesStay DEF Counted
  <2>4. SessionIsOfDevice' /\ Applied' /\ FoldersMoveOn' /\ SessionsNumbered'
    BY <1>1, <1>2, <2>1 DEF SessionIsOfDevice, Stamped, Applied, Wanted, FlagOnly, FoldersMoveOn,
                            SessionsNumbered, Logs
  <2>5. WriterLives' /\ FailureTravels' /\ MirrorIsOwn' /\ HopsOfOneRate'
    BY <1>1, <1>2, <2>1 DEF WriterLives, FailureTravels, MirrorIsOwn, HopsOfOneRate, Logs
  <2>6. RecordKept'
    BY <1>1, <1>2, <2>1 DEF RecordKept, Quiet, Logs
  <2> QED BY <1>3, <1>4, <2>2, <2>3, <2>4, <2>5, <2>6
<1>6. CASE hop # 0 /\ ~splFrozen
  <2> DEFINE b == <<ses.id, ses.blocks + 1>>
  <2>1. /\ ses.on /\ ses.epoch = an.lastEpoch /\ ses.id = Logs /\ Logs > 0
        /\ closes => ses.blocks < MaxBlocks
        /\ ses' \in SesType /\ ses'.on = ses.on /\ ses'.epoch = ses.epoch /\ ses'.rate = ses.rate
        /\ ses'.dir = ses.dir /\ ses'.id = ses.id
    BY <1>6, FeedEffect
  <2>2. /\ pipe' \in PipeType /\ pipe'.running = pipe.running /\ pipe'.sink = pipe.sink
        /\ pipe'.failed = pipe.failed
        /\ mirror' \in MirrorType /\ mirror'.dropped = pipe'.dropped /\ mirror'.failed = pipe'.failed
        /\ mirror'.blocks = ses'.blocks /\ mirror'.invalid = mirror.invalid
    BY <1>6, FeedEffect
  <2>3. /\ seen' \in SeenType /\ seen'.raced = seen.raced /\ seen'.record = seen.record
        /\ seen'.mixed = (seen.mixed \/ (hop # ses.rate /\ ~seen.raced /\ dev.epoch = an.lastEpoch))
    BY <1>6, FeedEffect
  <2>4. /\ Len(seen'.sessions) = Logs
        /\ \A k \in 1..Logs : seen'.sessions[k].dir = seen.sessions[k].dir
        /\ seen'.sessions[Logs].closed = ses'.blocks
    BY <1>6, FeedEffect
  <2>5. FeedNone(closes) \/ FeedQueued(closes, b) \/ FeedRefused(closes, b)
    BY <1>6, FeedEffect
  <2> HIDE DEF b
  <2> USE DEF SessionIInv
  <2>6. /\ ses.blocks \in Nat /\ pipe \in PipeType /\ pipe.dropped \in Nat /\ pipe.queue \in Seq(Blocks)
        /\ MaxBlocks \in Nat /\ Logs \in Nat /\ mirror.dropped \in Nat /\ QueueBlocks \in Nat
    BY BoundsAreNumbers, LogAssumption DEF LogShape, SesType, PipeType, MirrorType, SeenType, Logs
  <2>7. b \in Blocks
    BY <2>1, <2>6 DEF b, Blocks
  <2>8. /\ ses'.blocks <= MaxBlocks /\ pipe'.dropped >= pipe.dropped
        /\ pipe'.dropped <= ses'.blocks /\ Len(pipe'.queue) <= QueueBlocks
    <3>0. pipe.dropped <= ses.blocks /\ Len(pipe.queue) <= QueueBlocks /\ ses.blocks <= MaxBlocks
      BY <1>1, <2>1 DEF Counted
    <3>1. CASE FeedNone(closes)
      BY <2>6, <3>0, <3>1 DEF FeedNone
    <3>2. CASE FeedQueued(closes, b)
      <4>1. pipe'.queue = Append(pipe.queue, b) /\ pipe'.dropped = pipe.dropped
        BY <2>6, <3>2 DEF FeedQueued, PipeType
      <4>2. Len(pipe'.queue) = Len(pipe.queue) + 1 /\ Len(pipe.queue) \in Nat
        BY <2>6, <2>7, <4>1, AppendProperties
      <4>3. ses'.blocks = ses.blocks + 1 /\ ses.blocks < MaxBlocks /\ Len(pipe.queue) < QueueBlocks
        BY <2>1, <3>2 DEF FeedQueued
      <4> QED BY <2>6, <3>0, <4>1, <4>2, <4>3
    <3>3. CASE FeedRefused(closes, b)
      <4>1. pipe'.queue = pipe.queue /\ pipe'.dropped = pipe.dropped + 1
        BY <2>6, <3>3 DEF FeedRefused, PipeType
      <4>2. ses'.blocks = ses.blocks + 1 /\ ses.blocks < MaxBlocks
        BY <2>1, <3>3 DEF FeedRefused
      <4> QED BY <2>6, <3>0, <4>1, <4>2
    <3> QED BY <2>5, <3>1, <3>2, <3>3
  <2>9. LogShape'
    BY <1>1, <1>2, <2>1, <2>2, <2>3, TypesStay DEF LogShape
  <2>10. Counted'
    <3>1. pipe'.dropped <= MaxBlocks
      <4>1. pipe'.dropped \in Nat /\ ses'.blocks \in Nat
        BY <2>1, <2>2 DEF PipeType, SesType
      <4> QED BY <2>6, <2>8, <4>1
    <3> QED BY <1>1, <1>2, <2>1, <2>8, <3>1, TypesStay DEF Counted
  <2>11. SessionIsOfDevice' /\ Applied'
    BY <1>1, <1>2, <2>1, <2>3 DEF SessionIsOfDevice, Stamped, Applied, Wanted, FlagOnly
  <2>12. FoldersMoveOn'
    BY <1>1, <2>3 DEF FoldersMoveOn
  <2>13. Logs' = Logs
    BY <2>4 DEF Logs
  <2>14. SessionsNumbered'
    <3>1. seen'.sessions[Logs].dir = seen.sessions[Logs].dir
      BY <2>1, <2>4, <2>6
    <3>2. seen.sessions[Logs].dir = ses.dir
      BY <1>1, <2>1 DEF SessionsNumbered
    <3> QED BY <1>2, <2>1, <2>4, <2>13, <3>1, <3>2 DEF SessionsNumbered
  <2>15. WriterLives'
    <3>1. pipe.running /\ wr.pc \in {"setup", "loop", "check"}
      BY <1>1, <2>1 DEF WriterLives
    <3>2. wr.dir = seen.sessions[Logs].dir /\ seen'.sessions[Logs].dir = seen.sessions[Logs].dir
      BY <2>1, <2>4, <2>6, <3>1 DEF WriterLives
    <3>3. pipe'.sink = (wr'.pc # "none")
      BY <1>1, <2>2 DEF WriterLives
    <3> QED BY <1>1, <1>2, <2>1, <2>2, <2>13, <3>1, <3>2, <3>3 DEF WriterLives
  <2>16. FailureTravels' /\ MirrorIsOwn'
    <3>1. pipe'.dropped \in Nat
      BY <2>2 DEF PipeType
    <3> QED BY <1>1, <1>2, <2>1, <2>2, <3>1 DEF FailureTravels, MirrorIsOwn
  <2>17. HopsOfOneRate'
    BY <1>1, <1>6, <2>1, <2>3 DEF HopsOfOneRate, SessionIsOfDevice, Stamped
  <2>18. RecordKept'
    BY <1>1, <1>2, <2>1, <2>2, <2>3, <2>4, <2>6, <2>13 DEF RecordKept, Quiet
  <2> QED BY <1>3, <1>4, <2>9, <2>10, <2>11, <2>12, <2>14, <2>15, <2>16, <2>17, <2>18
<1> QED BY <1>5, <1>6

-------------------------------------------------------------------------------
(* The writer.                                                             *)

WriterLeaves == UNCHANGED <<bound, dev, hop, second, ui, request, pending, cal, an, ses, mirror>>

\* A step of the writer that keeps it alive with its sink, adds no block and forgets no
\* failure is safe.
LEMMA WriterKeeps ==
    ASSUME SessionIInv, WriterLeaves,
           wr' \in WrType, wr'.inSeg <= SegmentBlocks, wr'.dir = wr.dir,
           pipe' \in PipeType, pipe'.running = pipe.running, pipe'.dropped = pipe.dropped,
           Len(pipe'.queue) <= Len(pipe.queue), pipe.failed => pipe'.failed,
           pipe'.failed => wr'.failed /\ wr'.pc # "setup",
           disk' \in DiskType, seen' \in SeenType, seen'.mixed = seen.mixed, seen'.raced = seen.raced,
           seen'.sessions = seen.sessions, seen'.record = seen.record,
           pipe'.sink = (wr'.pc # "none"), wr.pc # "none",
           wr'.pc = "none" => pipe'.queue = <<>>,
           (ses.on /\ an.pc # "start") => wr'.pc \in {"setup", "loop", "check"}
    PROVE  SessionIInv'
<1> USE DEF SessionIInv
<1>1. LogShape'
  BY TypesStay DEF LogShape, WriterLeaves
<1>2. Counted'
  <2>1. Len(pipe'.queue) \in Nat /\ Len(pipe.queue) \in Nat /\ QueueBlocks \in Nat
    BY LogAssumption DEF LogShape, PipeType
  <2>2. Len(pipe'.queue) <= QueueBlocks
    BY <2>1 DEF Counted
  <2> QED BY <2>2, TypesStay DEF Counted, WriterLeaves
<1>3. HopIsOfDevice' /\ SessionIsOfDevice' /\ HopsOfOneRate' /\ FoldersMoveOn'
  BY DEF WriterLeaves, HopIsOfDevice, SessionIsOfDevice, Stamped, HopsOfOneRate, FoldersMoveOn
<1>4. TodoIsWanted' /\ Applied'
  BY DEF WriterLeaves, TodoIsWanted, Applied, Wanted, FlagOnly
<1>5. SessionsNumbered' /\ Logs' = Logs
  BY DEF WriterLeaves, SessionsNumbered, Logs
<1>6. WriterLives'
  BY <1>5 DEF WriterLeaves, WriterLives
<1>7. FailureTravels' /\ MirrorIsOwn'
  BY DEF WriterLeaves, FailureTravels, MirrorIsOwn
<1>8. RecordKept'
  BY <1>5 DEF WriterLeaves, RecordKept, Quiet
<1> QED BY <1>1, <1>2, <1>3, <1>4, <1>5, <1>6, <1>7, <1>8

\* A segment that is opened is empty, and the others are what they were.
LEMMA OpenedSegments ==
    ASSUME NEW segs \in Seq(Seq(Blocks)), NEW seg \in Nat
    PROVE  LET w == withSegment(segs, seg) IN
           /\ w \in Seq(Seq(Blocks)) /\ seg + 1 \in DOMAIN w /\ InSegment(w, seg + 1) = {}
           /\ \A k \in DOMAIN segs : k \in DOMAIN w
           /\ \A k \in DOMAIN w : k # seg + 1 =>
                 IF k \in DOMAIN segs THEN InSegment(w, k) = InSegment(segs, k) ELSE InSegment(w, k) = {}
<1> DEFINE n == IF Len(segs) > seg THEN Len(segs) ELSE seg + 1
           w == [k \in 1..n |-> IF k = seg + 1 THEN <<>> ELSE IF k <= Len(segs) THEN segs[k] ELSE <<>>]
<1>1. withSegment(segs, seg) = w
  BY DEF withSegment
<1>2. n \in Nat /\ Len(segs) \in Nat /\ n >= Len(segs) /\ n >= seg + 1 /\ DOMAIN segs = 1..Len(segs)
  OBVIOUS
<1> HIDE DEF n
<1>3. ASSUME NEW k \in 1..n PROVE w[k] \in Seq(Blocks)
  <2>1. <<>> \in Seq(Blocks)
    OBVIOUS
  <2>2. k <= Len(segs) => segs[k] \in Seq(Blocks)
    <3>1. k <= Len(segs) => k \in 1..Len(segs)
      BY <1>2
    <3> QED BY <3>1, ElementOfSeq
  <2> QED BY <2>1, <2>2
<1>4. w \in Seq(Seq(Blocks))
  BY <1>2, <1>3, IsASeq
<1>5. DOMAIN w = 1..n
  OBVIOUS
<1>6. seg + 1 \in 1..n /\ w[seg + 1] = <<>>
  BY <1>2
<1>7. InSegment(w, seg + 1) = {}
  BY <1>6 DEF InSegment, Held
<1>8. \A k \in 1..n : k # seg + 1 => w[k] = IF k \in DOMAIN segs THEN segs[k] ELSE <<>>
  BY <1>2
<1>9. \A k \in DOMAIN segs : k \in DOMAIN w
  BY <1>2, <1>5
<1> HIDE DEF w
<1>10. \A k \in DOMAIN w : k # seg + 1 =>
          IF k \in DOMAIN segs THEN InSegment(w, k) = InSegment(segs, k) ELSE InSegment(w, k) = {}
  BY <1>5, <1>8 DEF InSegment, Held
<1> QED BY <1>1, <1>4, <1>5, <1>6, <1>7, <1>9, <1>10

\* A sequence holds what it held and what was appended.
LEMMA AppendAdds ==
    ASSUME NEW S, NEW s \in Seq(S), NEW x \in S
    PROVE  Held(Append(s, x)) = Held(s) \cup {x}
<1> DEFINE e == Append(s, x)
<1>1. /\ e \in Seq(S) /\ Len(e) = Len(s) + 1 /\ e[Len(s) + 1] = x
      /\ \A i \in 1..Len(s) : e[i] = s[i]
  BY AppendProperties
<1> HIDE DEF e
<1>2. DOMAIN e = 1 .. Len(s) + 1 /\ DOMAIN s = 1..Len(s) /\ Len(s) \in Nat
  BY <1>1
<1>3. ASSUME NEW y \in {e[i] : i \in DOMAIN e} PROVE y \in {s[i] : i \in DOMAIN s} \cup {x}
  <2>1. PICK i \in 1 .. Len(s) + 1 : y = e[i]
    BY <1>2
  <2>2. CASE i = Len(s) + 1
    BY <1>1, <2>1, <2>2
  <2>3. CASE i # Len(s) + 1
    <3>1. i \in 1..Len(s)
      BY <1>2, <2>3
    <3> QED BY <1>1, <1>2, <2>1, <3>1
  <2> QED BY <2>2, <2>3
<1>4. ASSUME NEW i \in 1..Len(s) PROVE s[i] \in {e[j] : j \in DOMAIN e}
  BY <1>1, <1>2
<1>5. x \in {e[j] : j \in DOMAIN e}
  <2>1. Len(s) + 1 \in DOMAIN e
    BY <1>2
  <2> QED BY <1>1, <2>1
<1>6. {e[i] : i \in DOMAIN e} = {s[i] : i \in DOMAIN s} \cup {x}
  BY <1>2, <1>3, <1>4, <1>5
<1> QED BY <1>6 DEF e, Held

\* What a sequence holds is its head and what its tail holds.
LEMMA TailDrops ==
    ASSUME NEW S, NEW s \in Seq(S), s # <<>>
    PROVE  Held(s) = Held(Tail(s)) \cup {Head(s)}
<1> DEFINE t == Tail(s)
<1>1. /\ t \in Seq(S) /\ Len(t) = Len(s) - 1 /\ \A i \in 1..Len(t) : t[i] = s[i + 1]
  BY HeadTailProperties
<1>2. Head(s) = s[1] /\ Len(s) \in Nat \ {0} /\ DOMAIN s = 1..Len(s)
  BY EmptySeq
<1> HIDE DEF t
<1>3. DOMAIN t = 1..Len(t)
  BY <1>1
<1>4. ASSUME NEW y \in {s[i] : i \in DOMAIN s} PROVE y \in {t[i] : i \in DOMAIN t} \cup {s[1]}
  <2>1. PICK i \in 1..Len(s) : y = s[i]
    BY <1>2
  <2>2. CASE i = 1
    BY <2>1, <2>2
  <2>3. CASE i # 1
    <3>1. i - 1 \in 1..Len(t) /\ (i - 1) + 1 = i
      BY <1>1, <1>2, <2>3
    <3> QED BY <1>1, <1>3, <2>1, <3>1, ZenonT(40)
  <2> QED BY <2>2, <2>3
<1>5. ASSUME NEW i \in 1..Len(t) PROVE t[i] \in {s[j] : j \in DOMAIN s}
  <2>1. i + 1 \in DOMAIN s
    BY <1>1, <1>2
  <2> QED BY <1>1, <2>1
<1>6. s[1] \in {s[j] : j \in DOMAIN s}
  BY <1>2
<1>7. {s[i] : i \in DOMAIN s} = {t[i] : i \in DOMAIN t} \cup {s[1]}
  BY <1>3, <1>4, <1>5, <1>6
<1> QED BY <1>2, <1>7 DEF t, Held

\* A block that lands is the last of its segment.
Landed(segs, k, b) == [segs EXCEPT ![k] = Append(@, b)]

LEMMA LandedBlock ==
    ASSUME NEW segs \in Seq(Seq(Blocks)), NEW k \in DOMAIN segs, NEW b \in Blocks
    PROVE  /\ Landed(segs, k, b) \in Seq(Seq(Blocks)) /\ DOMAIN Landed(segs, k, b) = DOMAIN segs
           /\ InSegment(Landed(segs, k, b), k) = InSegment(segs, k) \cup {b}
           /\ \A j \in DOMAIN segs : j # k => InSegment(Landed(segs, k, b), j) = InSegment(segs, j)
<1> DEFINE e == Append(segs[k], b)
           w == Landed(segs, k, b)
<1>1. k \in 1..Len(segs) /\ DOMAIN segs = 1..Len(segs)
  OBVIOUS
<1>2. segs[k] \in Seq(Blocks)
  BY <1>1, ElementOfSeq
<1>3. e \in Seq(Blocks) /\ Held(e) = Held(segs[k]) \cup {b}
  BY <1>2, AppendProperties, AppendAdds
<1>4. w = [segs EXCEPT ![k] = e]
  BY DEF Landed
<1> HIDE DEF e, w
<1>5. w \in Seq(Seq(Blocks)) /\ DOMAIN w = DOMAIN segs /\ w[k] = e
      /\ \A j \in DOMAIN segs : j # k => w[j] = segs[j]
  BY <1>1, <1>3, <1>4, ExceptSeq
<1>6. InSegment(w, k) = InSegment(segs, k) \cup {b}
  BY <1>3, <1>5 DEF InSegment
<1>7. \A j \in DOMAIN segs : j # k => InSegment(w, j) = InSegment(segs, j)
  BY <1>5 DEF InSegment
<1> QED BY <1>5, <1>6, <1>7 DEF w

LEMMA SetupEffect ==
    ASSUME SessionIInv, NEW how \in Openings, setupWriters(how)
    PROVE  /\ WriterLeaves /\ seen' = seen /\ wr.pc = "setup"
           /\ wr' \in WrType /\ wr'.pc = "loop" /\ wr'.ok = (how = "opened") /\ wr'.failed = (how = "unopened")
           /\ wr'.seg = 0 /\ wr'.inSeg = 0 /\ wr'.dir = wr.dir
           /\ pipe' = [pipe EXCEPT !.failed = @ \/ how = "unopened"] /\ pipe' \in PipeType
           /\ disk' \in DiskType
           /\ disk' = IF how # "unopened" THEN [disk EXCEPT ![wr.dir] = withSegment(disk[wr.dir], 0)] ELSE disk
<1>1. /\ wr \in WrType /\ pipe \in PipeType /\ disk \in DiskType /\ wr.dir \in Folders
      /\ disk[wr.dir] \in Seq(Seq(Blocks)) /\ pipe.failed \in BOOLEAN
  BY DEF SessionIInv, LogShape, WrType, DiskType, PipeType
<1>2. /\ WriterLeaves /\ seen' = seen /\ wr.pc = "setup"
      /\ pipe' = [pipe EXCEPT !.failed = @ \/ how = "unopened"]
      /\ disk' = IF how # "unopened" THEN [disk EXCEPT ![wr.dir] = withSegment(disk[wr.dir], 0)] ELSE disk
  BY DEF setupWriters, WriterLeaves
<1>3. PICK u : u = [wr EXCEPT !.failed = FALSE]
  OBVIOUS
<1>4. u = [pc |-> wr.pc, ok |-> wr.ok, failed |-> FALSE, seg |-> wr.seg, inSeg |-> wr.inSeg, dir |-> wr.dir]
  BY <1>1, <1>3, Zenon DEF WrType
<1>5. PICK x : x = [u EXCEPT !.ok = how = "opened", !.failed = @ \/ how = "unopened", !.seg = 0, !.inSeg = 0]
  OBVIOUS
<1>6. x = [pc |-> wr.pc, ok |-> how = "opened", failed |-> FALSE \/ how = "unopened",
           seg |-> 0, inSeg |-> 0, dir |-> wr.dir]
  BY <1>4, <1>5, Zenon
<1>7. wr' = [x EXCEPT !.pc = "loop"]
  BY <1>3, <1>5 DEF setupWriters, openSegment
<1>8. wr' = [pc |-> "loop", ok |-> how = "opened", failed |-> FALSE \/ how = "unopened",
           seg |-> 0, inSeg |-> 0, dir |-> wr.dir]
  BY <1>6, <1>7, Zenon
<1>9. /\ wr' \in WrType /\ wr'.pc = "loop" /\ wr'.ok = (how = "opened") /\ wr'.failed = (how = "unopened")
      /\ wr'.seg = 0 /\ wr'.inSeg = 0 /\ wr'.dir = wr.dir
  BY <1>1, <1>8 DEF WrType
<1>10. pipe' \in PipeType
  BY <1>1, <1>2 DEF PipeType
<1>11. disk' \in DiskType
  <2>1. withSegment(disk[wr.dir], 0) \in Seq(Seq(Blocks))
    BY <1>1, OpenedSegments
  <2> QED BY <1>1, <1>2, <2>1 DEF DiskType
<1> QED BY <1>2, <1>9, <1>10, <1>11

\* What a block that is written leaves: d are the folder's segments once the next one was
\* opened, where it had to be and could be.
WriteOutcome(d, h) ==
    /\ \/ d = disk[wr.dir] /\ (wr'.ok => wr.ok /\ wr'.seg = wr.seg)
       \/ d = withSegment(disk[wr.dir], wr.seg + 1) /\ wr'.seg = wr.seg + 1
    /\ \/ /\ wr'.ok /\ seen' = seen
          /\ disk' = [disk EXCEPT ![wr.dir] = Landed(d, wr'.seg + 1, h)]
       \/ /\ ~wr'.ok /\ wr'.failed /\ seen' = [seen EXCEPT !.lost = @ \cup {h}]
          /\ disk' = [disk EXCEPT ![wr.dir] = d]

LEMMA WriteEffect ==
    ASSUME SessionIInv, NEW how \in Openings, NEW writes \in BOOLEAN, writeBlock(how, writes)
    PROVE  /\ WriterLeaves /\ wr.pc \in {"loop", "final"} /\ pipe.queue # <<>>
           /\ wr' \in WrType /\ wr'.pc = wr.pc /\ wr'.dir = wr.dir /\ wr'.inSeg <= SegmentBlocks
           /\ wr.failed => wr'.failed
           /\ wr'.seg \in {wr.seg, wr.seg + 1}
           /\ pipe' = [pipe EXCEPT !.queue = Tail(@)]
           /\ \E d \in Seq(Seq(Blocks)) : WriteOutcome(d, Head(pipe.queue))
<1>1. /\ wr \in WrType /\ wr.dir \in Folders /\ wr.seg \in Nat /\ wr.inSeg \in Nat
      /\ wr.ok \in BOOLEAN /\ wr.failed \in BOOLEAN
      /\ disk[wr.dir] \in Seq(Seq(Blocks)) /\ SegmentBlocks \in Nat \ {0}
  BY LogAssumption DEF SessionIInv, LogShape, WrType, DiskType
<1> DEFINE rotate == wr.inSeg >= SegmentBlocks
           h == Head(pipe.queue)
<1>2. PICK w : w = IF rotate THEN openSegment(wr, how, wr.seg + 1) ELSE wr
  OBVIOUS
<1>3. PICK d : d = IF rotate /\ how # "unopened" THEN withSegment(disk[wr.dir], w.seg) ELSE disk[wr.dir]
  OBVIOUS
<1> DEFINE lands == w.ok /\ writes
<1>4. /\ WriterLeaves /\ wr.pc \in {"loop", "final"} /\ pipe.queue # <<>>
      /\ (~rotate => how = "opened") /\ (~w.ok => ~writes)
      /\ wr' = [w EXCEPT !.ok = lands, !.failed = @ \/ ~lands, !.inSeg = @ + 1]
      /\ pipe' = [pipe EXCEPT !.queue = Tail(@)]
      /\ disk' = [disk EXCEPT ![wr.dir] = IF lands THEN [d EXCEPT ![w.seg + 1] = Append(@, h)] ELSE d]
      /\ seen' = IF lands THEN seen ELSE [seen EXCEPT !.lost = @ \cup {h}]
  BY <1>2, <1>3 DEF writeBlock, WriterLeaves
<1>5. /\ w \in WrType /\ w.pc = wr.pc /\ w.dir = wr.dir
      /\ rotate => /\ w.ok = (how = "opened") /\ w.seg = wr.seg + 1 /\ w.inSeg = 0
                   /\ w.failed = (wr.failed \/ how = "unopened")
      /\ ~rotate => w = wr
  <2>1. CASE rotate
    <3>1. w = [wr EXCEPT !.ok = how = "opened", !.failed = @ \/ how = "unopened", !.seg = wr.seg + 1, !.inSeg = 0]
      BY <1>2, <2>1 DEF openSegment
    <3>2. w = [pc |-> wr.pc, ok |-> how = "opened", failed |-> wr.failed \/ how = "unopened", seg |-> wr.seg + 1,
               inSeg |-> 0, dir |-> wr.dir]
      BY <1>1, <3>1, Zenon DEF WrType
    <3>3. w \in WrType
      BY <1>1, <3>2 DEF WrType
    <3> QED BY <2>1, <3>2, <3>3
  <2>2. CASE ~rotate
    BY <1>1, <1>2, <2>2
  <2> QED BY <2>1, <2>2
<1> HIDE DEF lands, rotate
<1>6. wr' = [pc |-> w.pc, ok |-> lands, failed |-> w.failed \/ ~lands, seg |-> w.seg,
             inSeg |-> w.inSeg + 1, dir |-> w.dir]
  BY <1>4, <1>5, Zenon DEF WrType
<1>7. w.inSeg \in Nat /\ w.seg \in Nat /\ w.ok \in BOOLEAN /\ w.failed \in BOOLEAN /\ lands \in BOOLEAN
  BY <1>5 DEF WrType, lands
<1>8. /\ wr' \in WrType /\ wr'.pc = wr.pc /\ wr'.dir = wr.dir /\ wr'.ok = lands
      /\ wr'.failed = (w.failed \/ ~lands) /\ wr'.seg = w.seg /\ wr'.inSeg = w.inSeg + 1
  BY <1>1, <1>5, <1>6, <1>7 DEF WrType
<1>9. wr'.inSeg <= SegmentBlocks
  BY <1>1, <1>5, <1>7, <1>8 DEF rotate
<1>10. wr.failed => wr'.failed
  BY <1>5, <1>8
<1>11. wr'.seg \in {wr.seg, wr.seg + 1}
  BY <1>5, <1>8
<1>12. d \in Seq(Seq(Blocks))
  <2>1. withSegment(disk[wr.dir], w.seg) \in Seq(Seq(Blocks))
    BY <1>1, <1>7, OpenedSegments, ZenonT(40)
  <2> QED BY <1>1, <1>3, <2>1
<1>13. WriteOutcome(d, h)
  <2>1. \/ d = disk[wr.dir] /\ (wr'.ok => wr.ok /\ wr'.seg = wr.seg)
        \/ d = withSegment(disk[wr.dir], wr.seg + 1) /\ wr'.seg = wr.seg + 1
    <3>1. CASE rotate /\ how # "unopened"
      BY <1>3, <1>5, <1>8, <3>1
    <3>2. CASE rotate /\ how = "unopened"
      BY <1>3, <1>5, <1>7, <1>8, <3>2 DEF lands
    <3>3. CASE ~rotate
      BY <1>3, <1>5, <1>7, <1>8, <3>3 DEF lands
    <3> QED BY <3>1, <3>2, <3>3
  <2>2. CASE lands
    BY <1>4, <1>8, <2>1, <2>2 DEF WriteOutcome, Landed
  <2>3. CASE ~lands
    <3>1. ~wr'.ok /\ wr'.failed
      BY <1>7, <1>8, <2>3
    <3> QED BY <1>4, <2>1, <2>3, <3>1 DEF WriteOutcome
  <2> QED BY <2>2, <2>3
<1> QED BY <1>4, <1>8, <1>9, <1>10, <1>11, <1>12, <1>13

LEMMA WriterSteps ==
    ASSUME SessionIInv, Writer
    PROVE  SessionIInv'
<1>1. /\ wr \in WrType /\ pipe \in PipeType /\ disk \in DiskType /\ seen \in SeenType
      /\ wr.dir \in Folders /\ wr.failed \in BOOLEAN /\ pipe.failed \in BOOLEAN
      /\ pipe.queue \in Seq(Blocks) /\ wr.inSeg <= SegmentBlocks /\ SegmentBlocks \in Nat \ {0}
      /\ pipe.sink = (wr.pc # "none") /\ (pipe.failed => wr.failed /\ wr.pc # "setup")
      /\ wr.inSeg \in Nat /\ pipe.dropped \in Nat
  BY LogAssumption DEF SessionIInv, LogShape, WrType, PipeType, Counted, WriterLives, FailureTravels
<1>2. ASSUME NEW how \in Openings, setupWriters(how) PROVE SessionIInv'
  <2>1. /\ WriterLeaves /\ seen' = seen /\ wr.pc = "setup"
        /\ wr' \in WrType /\ wr'.pc = "loop" /\ wr'.failed = (how = "unopened") /\ wr'.inSeg = 0 /\ wr'.dir = wr.dir
        /\ pipe' = [pipe EXCEPT !.failed = @ \/ how = "unopened"] /\ pipe' \in PipeType /\ disk' \in DiskType
    BY <1>2, SetupEffect
  <2>2. /\ pipe'.running = pipe.running /\ pipe'.dropped = pipe.dropped /\ pipe'.queue = pipe.queue
        /\ pipe'.sink = pipe.sink /\ pipe'.failed = (pipe.failed \/ how = "unopened")
    BY <1>1, <2>1 DEF PipeType
  <2>3. pipe'.failed => wr'.failed /\ wr'.pc # "setup"
    BY <1>1, <2>1, <2>2
  <2>4. pipe'.sink = (wr'.pc # "none") /\ wr.pc # "none"
    BY <1>1, <2>1, <2>2
  <2>5. Len(pipe'.queue) <= Len(pipe.queue) /\ wr'.inSeg <= SegmentBlocks
    BY <1>1, <2>1, <2>2
  <2>6. pipe.failed => pipe'.failed
    BY <2>2
  <2>7. wr'.pc = "loop"
    BY <2>1
  <2> QED BY <1>1, <2>1, <2>2, <2>3, <2>4, <2>5, <2>6, <2>7, WriterKeeps
<1>3. ASSUME NEW how \in Openings, NEW writes \in BOOLEAN, writeBlock(how, writes) PROVE SessionIInv'
  <2>1. /\ WriterLeaves /\ wr.pc \in {"loop", "final"} /\ pipe.queue # <<>>
        /\ wr' \in WrType /\ wr'.pc = wr.pc /\ wr'.dir = wr.dir /\ wr'.inSeg <= SegmentBlocks
        /\ wr.failed => wr'.failed
        /\ pipe' = [pipe EXCEPT !.queue = Tail(@)]
        /\ wr'.seg \in {wr.seg, wr.seg + 1}
    BY <1>3, WriteEffect
  <2>2. PICK d \in Seq(Seq(Blocks)) : WriteOutcome(d, Head(pipe.queue))
    BY <1>3, WriteEffect
  <2>3. /\ Head(pipe.queue) \in Blocks /\ Tail(pipe.queue) \in Seq(Blocks)
        /\ Len(Tail(pipe.queue)) = Len(pipe.queue) - 1 /\ Len(pipe.queue) \in Nat
    BY <1>1, <2>1, HeadTailProperties
  <2> DEFINE h == Head(pipe.queue)
             q == Tail(pipe.queue)
  <2> HIDE DEF h
  <2>4. /\ pipe' \in PipeType /\ pipe'.running = pipe.running /\ pipe'.dropped = pipe.dropped
        /\ pipe'.queue = Tail(pipe.queue) /\ pipe'.sink = pipe.sink /\ pipe'.failed = pipe.failed
    <3>1. pipe' = [pipe EXCEPT !.queue = q] /\ q \in Seq(Blocks)
      BY <2>1, <2>3
    <3> HIDE DEF q
    <3>2. /\ pipe' \in PipeType /\ pipe'.running = pipe.running /\ pipe'.dropped = pipe.dropped
          /\ pipe'.queue = q /\ pipe'.sink = pipe.sink /\ pipe'.failed = pipe.failed
      BY <1>1, <3>1 DEF PipeType
    <3> QED BY <3>2 DEF q
  <2>5. Len(pipe'.queue) <= Len(pipe.queue)
    BY <2>3, <2>4
  <2>6. seen' \in SeenType /\ seen'.mixed = seen.mixed /\ seen'.raced = seen.raced
        /\ seen'.sessions = seen.sessions /\ seen'.record = seen.record
    <3>1. seen' = seen \/ seen' = [seen EXCEPT !.lost = seen.lost \cup {h}]
      BY <2>2 DEF WriteOutcome, h
    <3>2. seen.lost \cup {h} \in SUBSET Blocks
      BY <1>1, <2>3 DEF SeenType, h
    <3>3. CASE seen' = seen
      BY <1>1, <3>3
    <3>4. CASE seen' = [seen EXCEPT !.lost = seen.lost \cup {h}]
      BY <1>1, <3>2, <3>4 DEF SeenType
    <3> QED BY <3>1, <3>3, <3>4
  <2>7. disk' \in DiskType
    <3> DEFINE k == wr'.seg + 1
    <3>1. CASE disk' = [disk EXCEPT ![wr.dir] = d]
      BY <1>1, <2>2, <3>1 DEF DiskType
    <3>2. CASE disk' = [disk EXCEPT ![wr.dir] = Landed(d, k, h)]
      <4>1. Landed(d, k, h) \in Seq(Seq(Blocks))
        <5> HIDE DEF k
        <5>1. CASE k \in DOMAIN d
          BY <2>2, <2>3, <5>1, LandedBlock DEF h
        <5>2. CASE k \notin DOMAIN d
          <6>1. Landed(d, k, h) = d
            BY <2>2, <5>2 DEF Landed
          <6> QED BY <2>2, <6>1
        <5> QED BY <5>1, <5>2
      <4> HIDE DEF k
      <4> QED BY <1>1, <3>2, <4>1 DEF DiskType
    <3> QED BY <2>2, <3>1, <3>2 DEF WriteOutcome, h
  <2>8. /\ pipe'.failed => wr'.failed /\ wr'.pc # "setup"
        /\ pipe'.sink = (wr'.pc # "none") /\ wr.pc # "none" /\ wr'.pc # "none"
    BY <1>1, <2>1, <2>4
  <2>9. (ses.on /\ an.pc # "start") => wr'.pc \in {"setup", "loop", "check"}
    BY <2>1 DEF SessionIInv, WriterLives
  <2> QED BY <1>1, <2>1, <2>4, <2>5, <2>6, <2>7, <2>8, <2>9, WriterKeeps

<1>4. CASE drainOnce
  <2>1. /\ WriterLeaves /\ UNCHANGED <<disk, seen>> /\ wr.pc = "loop"
        /\ wr' = [wr EXCEPT !.pc = "check"] /\ pipe' = [pipe EXCEPT !.failed = @ \/ wr.failed]
    BY <1>4 DEF drainOnce, WriterLeaves
  <2>2. /\ wr' \in WrType /\ wr'.pc = "check" /\ wr'.dir = wr.dir /\ wr'.inSeg = wr.inSeg
        /\ wr'.failed = wr.failed
    BY <1>1, <2>1 DEF WrType
  <2>3. /\ pipe' \in PipeType /\ pipe'.running = pipe.running /\ pipe'.dropped = pipe.dropped
        /\ pipe'.queue = pipe.queue /\ pipe'.sink = pipe.sink /\ pipe'.failed = (pipe.failed \/ wr.failed)
    BY <1>1, <2>1 DEF PipeType
  <2>4. /\ pipe'.failed => wr'.failed /\ wr'.pc # "setup"
        /\ pipe.failed => pipe'.failed
    BY <1>1, <2>2, <2>3
  <2>5. pipe'.sink = (wr'.pc # "none") /\ wr.pc # "none"
    BY <1>1, <2>1, <2>2, <2>3
  <2>6. Len(pipe'.queue) <= Len(pipe.queue) /\ wr'.inSeg <= SegmentBlocks
    BY <1>1, <2>2, <2>3
  <2>7. disk' \in DiskType /\ seen' \in SeenType
    BY <1>1, <2>1
  <2> QED BY <2>1, <2>2, <2>3, <2>4, <2>5, <2>6, <2>7, WriterKeeps
<1>5. CASE writerLoop
  <2>1. /\ WriterLeaves /\ UNCHANGED <<disk, seen, pipe>> /\ wr.pc = "check"
        /\ wr' = [wr EXCEPT !.pc = IF pipe.running THEN "loop" ELSE "final"]
    BY <1>5 DEF writerLoop, WriterLeaves
  <2>2. /\ wr' \in WrType /\ wr'.pc = (IF pipe.running THEN "loop" ELSE "final") /\ wr'.dir = wr.dir
        /\ wr'.inSeg = wr.inSeg /\ wr'.failed = wr.failed
    BY <1>1, <2>1 DEF WrType
  <2>3. pipe'.failed => wr'.failed /\ wr'.pc # "setup"
    BY <1>1, <2>1, <2>2
  <2>4. pipe'.sink = (wr'.pc # "none") /\ wr.pc # "none" /\ wr'.pc # "none"
    BY <1>1, <2>1, <2>2
  <2>5. Len(pipe'.queue) <= Len(pipe.queue) /\ wr'.inSeg <= SegmentBlocks
    BY <1>1, <2>1, <2>2
  <2>6. (ses.on /\ an.pc # "start") => wr'.pc \in {"setup", "loop", "check"}
    BY <2>2 DEF SessionIInv, WriterLives
  <2>7. disk' \in DiskType /\ seen' \in SeenType /\ pipe' \in PipeType
    BY <1>1, <2>1
  <2> QED BY <2>1, <2>2, <2>3, <2>4, <2>5, <2>6, <2>7, WriterKeeps
<1>6. CASE writerLoopEnd
  <2>1. /\ WriterLeaves /\ UNCHANGED <<disk, seen>> /\ wr.pc = "final" /\ pipe.queue = <<>>
        /\ wr' = [wr EXCEPT !.pc = "none"]
        /\ pipe' = [pipe EXCEPT !.sink = FALSE, !.lastDropped = pipe.dropped,
                                !.failed = @ \/ wr.failed, !.lastFailed = pipe.failed \/ wr.failed]
    BY <1>6 DEF writerLoopEnd, WriterLeaves
  <2>2. wr' \in WrType /\ wr'.pc = "none" /\ wr'.dir = wr.dir /\ wr'.inSeg = wr.inSeg /\ wr'.failed = wr.failed
    BY <1>1, <2>1 DEF WrType
  <2>3. pipe' = [running |-> pipe.running, sink |-> FALSE, queue |-> pipe.queue, dropped |-> pipe.dropped,
                 failed |-> pipe.failed \/ wr.failed, lastDropped |-> pipe.dropped,
                 lastFailed |-> pipe.failed \/ wr.failed]
    BY <1>1, <2>1, Zenon DEF PipeType
  <2>4. pipe' \in PipeType
    BY <1>1, <2>3 DEF PipeType
  <2>5. /\ pipe'.running = pipe.running /\ pipe'.dropped = pipe.dropped /\ pipe'.sink = FALSE
        /\ pipe'.queue = pipe.queue /\ pipe'.failed = (pipe.failed \/ wr.failed)
    BY <2>3
  <2>6. /\ pipe'.failed => wr'.failed /\ wr'.pc # "setup"
        /\ pipe.failed => pipe'.failed
    BY <1>1, <2>2, <2>5
  <2>7. pipe'.sink = (wr'.pc # "none") /\ wr.pc # "none"
    BY <2>1, <2>2, <2>5
  <2>8. Len(pipe'.queue) <= Len(pipe.queue) /\ wr'.inSeg <= SegmentBlocks /\ pipe'.queue = <<>>
    BY <1>1, <2>1, <2>2, <2>5
  <2>9. ~(ses.on /\ an.pc # "start")
    BY <2>1 DEF SessionIInv, WriterLives
  <2>10. disk' \in DiskType /\ seen' \in SeenType
    BY <1>1, <2>1
  <2> QED BY <2>1, <2>2, <2>4, <2>5, <2>6, <2>7, <2>8, <2>9, <2>10, WriterKeeps
<1> QED BY <1>2, <1>3, <1>4, <1>5, <1>6 DEF Writer

-------------------------------------------------------------------------------
(* What a session says is its own.                                         *)

LEMMA SessionStep ==
    ASSUME SessionIInv, [LogNext]_logVars
    PROVE  SessionIInv'
<1>1. CASE Device
  BY <1>1, DeviceSteps
<1>2. CASE Calibrate
  BY <1>2, StartCheckStep, EndCheckStep DEF Calibrate
<1>3. CASE MessageThread
  BY <1>3, PollStep, PostStep DEF MessageThread
<1>4. CASE Analysis
  BY <1>4, TickStep, TakeRequestStep, ApplyStep, StartStep, FeedStep DEF Analysis
<1>5. CASE Writer
  BY <1>5, WriterSteps
<1>6. CASE UNCHANGED logVars
  <2> USE <1>6 DEF SessionIInv, logVars
  <2>1. LogShape'
    BY TypesStay DEF LogShape
  <2>2. Counted'
    BY TypesStay DEF Counted
  <2>3. HopIsOfDevice' /\ SessionIsOfDevice' /\ HopsOfOneRate' /\ FoldersMoveOn'
    BY DEF HopIsOfDevice, SessionIsOfDevice, Stamped, HopsOfOneRate, FoldersMoveOn
  <2>4. TodoIsWanted' /\ Applied'
    BY DEF TodoIsWanted, Applied, Wanted, FlagOnly
  <2>5. SessionsNumbered' /\ WriterLives' /\ FailureTravels' /\ MirrorIsOwn'
    BY DEF SessionsNumbered, WriterLives, FailureTravels, MirrorIsOwn, Logs
  <2>6. RecordKept'
    BY DEF RecordKept, Quiet, Logs
  <2> QED BY <2>1, <2>2, <2>3, <2>4, <2>5, <2>6
<1> QED BY <1>1, <1>2, <1>3, <1>4, <1>5, <1>6 DEF LogNext

LEMMA RecordIsShown == SessionIInv => RecordIsFlagged
<1> SUFFICES ASSUME SessionIInv, ses.on, ses.dir = ui.dir, seen.record.dir = ui.dir,
                    \A k \in 1..(Len(seen.sessions) - 1) : seen.sessions[k].dir # ui.dir,
                    ~seen.record.raced, an.pc \notin {"apply", "start"}
             PROVE  seen.record.bad \subseteq mirror.invalid
  BY DEF RecordIsFlagged
<1> QED BY DEF SessionIInv, RecordKept, Logs

\* What the mirror shows is of the session in force, its hops are of one rate, and a channel
\* whose end check failed is flagged while its session runs: the snapshot never shows another
\* session's failures, drops or calibration (AnalysisThreadSpl.cpp, MainComponentCalibration.cpp).
THEOREM SessionSaysItsOwn == LogSpec => []LogSessionInv
<1>1. SessionIInv => LogSessionInv
  BY RecordIsShown DEF SessionIInv, LogSessionInv
<1> QED BY <1>1, SessionBegins, SessionStep, PTL DEF LogSpec

-------------------------------------------------------------------------------
(* Where the blocks are.                                                   *)

\* What is logged for a session is what the segments hold with its number.
LEMMA WhatIsLogged ==
    ASSUME NEW id, NEW b
    PROVE  b \in Logged(id) <=>
              /\ b[1] = id
              /\ \E f \in Folders : \E k \in DOMAIN disk[f] : b \in InSegment(disk[f], k)
BY DEF Logged, Range2, InSegment, Held

LEMMA BlocksBegin == LogInit => BlocksInv
<1> SUFFICES ASSUME LogInit PROVE BlocksInv
  OBVIOUS
<1>1. Logs = 0 /\ seen.refused = {} /\ seen.lost = {} /\ pipe.queue = <<>> /\ pipe.dropped = 0
  BY DEF LogInit, Logs
<1>2. FilesAreOwn
  <2>1. \A f \in Folders : disk[f] = <<>>
    BY DEF LogInit
  <2> QED BY <2>1 DEF FilesAreOwn, LogInit
<1>3. BlocksAccounted
  <2>1. Refused(Logs) = {} /\ Lost(Logs) = {}
    BY <1>1 DEF Refused, Lost
  <2>2. IsFiniteSet(Refused(Logs)) /\ Cardinality(Refused(Logs)) = pipe.dropped
    BY <1>1, <2>1, FS_EmptySet
  <2>3. \A b \in seen.refused \cup seen.lost : b[1] \in 1..Logs
    BY <1>1
  <2>4. ~(Logs > 0)
    BY <1>1
  <2> QED BY <1>1, <2>1, <2>2, <2>3, <2>4 DEF BlocksAccounted
<1>4. OldLogsKept
  BY <1>1 DEF OldLogsKept
<1> QED BY <1>2, <1>3, <1>4 DEF BlocksInv

\* A writer that goes on from where it was: its segment and its failure stay.
WriterGoesOn ==
    /\ wr'.ok = wr.ok /\ wr'.failed = wr.failed /\ wr'.seg = wr.seg /\ wr'.dir = wr.dir
    /\ wr.pc \in {"loop", "check", "final"} /\ wr'.pc # "setup"
    /\ (wr'.pc = "none" /\ wr.failed) => pipe'.lastFailed

\* A step that moves no block and starts no session leaves the blocks where they are.
LEMMA BlocksUntouched ==
    ASSUME BlocksInv, UNCHANGED <<bound, disk>>,
           seen'.sessions = seen.sessions, seen'.refused = seen.refused, seen'.lost = seen.lost,
           pipe'.queue = pipe.queue, pipe'.dropped = pipe.dropped,
           (wr' = wr /\ pipe'.lastFailed = pipe.lastFailed) \/ WriterGoesOn
    PROVE  BlocksInv'
<1>1. Folders' = Folders /\ Logs' = Logs
  BY TypesStay DEF Logs
<1>2. FilesAreOwn'
  BY <1>1 DEF BlocksInv, FilesAreOwn, InSegment, Held, WriterGoesOn
<1>3. /\ Logged(Logs)' = Logged(Logs) /\ Closed(Logs)' = Closed(Logs) /\ Queued' = Queued
      /\ Refused(Logs)' = Refused(Logs) /\ Lost(Logs)' = Lost(Logs)
  BY <1>1 DEF Logged, Range2, Closed, Queued, Held, Refused, Lost
<1>4. BlocksAccounted'
  BY <1>1, <1>3 DEF BlocksInv, BlocksAccounted, WriterGoesOn
<1>5. ASSUME NEW id \in 1 .. Logs - 1, ~Reused(id)'
      PROVE  Closed(id)' \subseteq Logged(id)' \cup seen'.refused \cup seen'.lost
  <2>1. ~Reused(id)
    BY <1>5 DEF Reused
  <2>2. Closed(id)' = Closed(id) /\ Logged(id)' = Logged(id)
    BY <1>1 DEF Closed, Logged, Range2
  <2> QED BY <2>1, <2>2 DEF BlocksInv, OldLogsKept
<1>6. OldLogsKept'
  BY <1>1, <1>5 DEF OldLogsKept
<1> QED BY <1>2, <1>4, <1>6 DEF BlocksInv

\* The log before a new one is complete: its queue was drained, and its blocks stay in place.
LEMMA StartBlocks ==
    ASSUME SessionIInv, BlocksInv, AnStart
    PROVE  BlocksInv'
<1>1. /\ UNCHANGED <<bound, disk>> /\ wr.pc = "none"
      /\ ~ses.on => UNCHANGED <<pipe, wr, seen>>
      /\ ses.on =>
           /\ pipe' = freshPipe /\ wr'.pc = "setup"
           /\ seen'.lost = seen.lost /\ seen'.refused = seen.refused /\ seen' \in SeenType
           /\ Len(seen'.sessions) = Logs + 1
           /\ seen'.sessions[Logs + 1].dir = ses.dir /\ seen'.sessions[Logs + 1].closed = 0
           /\ \A k \in 1..Logs : seen'.sessions[k] = seen.sessions[k]
  BY StartEffect
<1>2. CASE ~ses.on
  BY <1>1, <1>2, BlocksUntouched
<1>3. CASE ses.on
  <2>1. /\ Logs \in Nat /\ Logs' = Logs + 1 /\ Folders' = Folders
        /\ DOMAIN seen.sessions = 1..Logs /\ DOMAIN seen'.sessions = 1 .. Logs + 1
    <3>1. seen \in SeenType /\ SeenType' = SeenType /\ Folders' = Folders
      BY <1>1, TypesStay DEF SessionIInv, LogShape
    <3>2. seen.sessions \in Seq([dir : Folders, closed : Nat]) /\ seen'.sessions \in Seq([dir : Folders, closed : Nat])
      BY <1>1, <1>3, <3>1 DEF SeenType
    <3> QED BY <1>1, <1>3, <3>1, <3>2 DEF Logs
  <2>2. /\ pipe'.queue = <<>> /\ pipe'.dropped = 0 /\ pipe.queue = <<>>
    BY <1>1, <1>3 DEF freshPipe, SessionIInv, WriterLives
  <2>3. \A f \in Folders : \A k \in DOMAIN disk[f] : \A b \in InSegment(disk[f], k) :
           b[1] \in 1..Logs /\ f = seen.sessions[b[1]].dir
    BY DEF BlocksInv, FilesAreOwn
  <2>4. FilesAreOwn'
    <3>1. SUFFICES ASSUME NEW f \in Folders, NEW k \in DOMAIN disk[f], NEW b \in InSegment(disk[f], k)
                   PROVE  /\ b[1] \in 1 .. Logs + 1 /\ f = seen'.sessions[b[1]].dir
                          /\ b[1] # Logs + 1
      BY <1>1, <1>3, <2>1 DEF FilesAreOwn, InSegment, Held
    <3>2. b[1] \in 1..Logs /\ f = seen.sessions[b[1]].dir
      BY <2>3
    <3>3. seen'.sessions[b[1]] = seen.sessions[b[1]]
      BY <1>1, <1>3, <3>2
    <3> QED BY <2>1, <3>2, <3>3
  <2>5. /\ Closed(Logs)' = {} /\ Logged(Logs)' = {} /\ Queued' = {}
        /\ Refused(Logs)' = {} /\ Lost(Logs)' = {}
    <3>1. Closed(Logs)' = {}
      BY <1>1, <1>3, <2>1 DEF Closed
    <3>2. ASSUME NEW b \in Logged(Logs)' PROVE FALSE
      <4>1. b[1] = Logs' /\ \E f \in Folders' : \E k \in DOMAIN disk'[f] : b \in InSegment(disk'[f], k)
        BY <3>2 DEF Logged, Range2, InSegment, Held
      <4> QED BY <1>1, <2>1, <2>3, <4>1
    <3>3. Queued' = {}
      BY <2>2 DEF Queued, Held
    <3>4. \A b \in seen.refused \cup seen.lost : b[1] # Logs + 1
      BY <2>1 DEF BlocksInv, BlocksAccounted
    <3>5. Refused(Logs)' = {} /\ Lost(Logs)' = {}
      BY <1>1, <1>3, <2>1, <3>4 DEF Refused, Lost
    <3> QED BY <3>1, <3>2, <3>3, <3>5
  <2>6. BlocksAccounted'
    <3>1. IsFiniteSet(Refused(Logs))' /\ Cardinality(Refused(Logs))' = pipe'.dropped
      BY <2>2, <2>5, FS_EmptySet
    <3>2. \A b \in seen'.refused \cup seen'.lost : b[1] \in 1..Logs'
      BY <1>1, <1>3, <2>1 DEF BlocksInv, BlocksAccounted
    <3> QED BY <2>1, <2>2, <2>5, <3>1, <3>2 DEF BlocksAccounted
  <2>7. ASSUME NEW id \in 1..Logs, ~Reused(id)'
        PROVE  Closed(id)' \subseteq Logged(id)' \cup seen'.refused \cup seen'.lost
    <3>1. ~Reused(id)
      <4>1. \A k \in 1..Logs : k \in 1 .. Logs + 1 /\ seen'.sessions[k] = seen.sessions[k]
        BY <1>1, <1>3, <2>1
      <4> QED BY <2>1, <2>7, <4>1 DEF Reused
    <3>2. Closed(id)' = Closed(id) /\ Logged(id)' = Logged(id)
      BY <1>1, <1>3, <2>1 DEF Closed, Logged, Range2
    <3>3. CASE id = Logs
      <4>1. Logs > 0 /\ Queued = {}
        BY <2>1, <2>2 DEF Queued, Held
      <4>2. Closed(Logs) = Logged(Logs) \cup Refused(Logs) \cup Lost(Logs)
        BY <4>1 DEF BlocksInv, BlocksAccounted
      <4> QED BY <1>1, <1>3, <3>2, <3>3, <4>2 DEF Refused, Lost
    <3>4. CASE id # Logs
      <4>1. id \in 1 .. Logs - 1
        BY <2>1, <3>4
      <4> QED BY <1>1, <1>3, <3>1, <3>2, <4>1 DEF BlocksInv, OldLogsKept
    <3> QED BY <3>3, <3>4
  <2>8. OldLogsKept'
    <3>1. 1 .. Logs' - 1 = 1..Logs
      BY <2>1
    <3> QED BY <2>7, <3>1 DEF OldLogsKept
  <2> QED BY <2>4, <2>6, <2>8 DEF BlocksInv
<1> QED BY <1>2, <1>3

\* A block that closes is queued, or refused and counted.
LEMMA FeedBlocks ==
    ASSUME SessionIInv, BlocksInv, NEW closes \in BOOLEAN, AnFeed(closes), hop # 0, ~splFrozen
    PROVE  BlocksInv'
<1> DEFINE b == <<ses.id, ses.blocks + 1>>
<1>1. /\ ses.on /\ ses.id = Logs /\ Logs > 0
      /\ pipe'.lastFailed = pipe.lastFailed /\ ses'.id = ses.id
      /\ seen'.lost = seen.lost /\ seen' \in SeenType
      /\ Len(seen'.sessions) = Logs
      /\ \A k \in 1..Logs : /\ seen'.sessions[k].dir = seen.sessions[k].dir
                            /\ k # Logs => seen'.sessions[k] = seen.sessions[k]
      /\ seen'.sessions[Logs].closed = ses'.blocks
  BY FeedEffect
<1>2. FeedNone(closes) \/ FeedQueued(closes, b) \/ FeedRefused(closes, b)
  BY FeedEffect
<1>3. UNCHANGED <<bound, disk, wr>> /\ an.pc = "feed"
  BY DEF AnFeed
<1>4. /\ pipe \in PipeType /\ ses.blocks \in Nat /\ ses.id \in Nat /\ pipe.queue \in Seq(Blocks)
      /\ pipe.dropped \in Nat /\ Folders' = Folders
      /\ seen.sessions \in Seq([dir : Folders, closed : Nat])
      /\ seen'.sessions \in Seq([dir : Folders, closed : Nat])
  <2>1. seen \in SeenType /\ SeenType' = SeenType /\ Folders' = Folders
    BY <1>3, TypesStay DEF SessionIInv, LogShape
  <2>2. pipe \in PipeType /\ ses \in SesType
    BY DEF SessionIInv, LogShape
  <2> QED BY <1>1, <2>1, <2>2 DEF SeenType, PipeType, SesType
<1>5. /\ Logs \in Nat /\ Logs' = Logs /\ DOMAIN seen.sessions = 1..Logs /\ DOMAIN seen'.sessions = 1..Logs
  BY <1>1, <1>4 DEF Logs
<1>6. seen.sessions[Logs].closed = ses.blocks
  BY <1>1, <1>3 DEF SessionIInv, SessionsNumbered
<1>7. CASE FeedNone(closes)
  <2>1. ses' = ses /\ pipe' = pipe /\ seen'.refused = seen.refused
    BY <1>7 DEF FeedNone
  <2>2. ASSUME NEW k \in 1..Logs PROVE seen'.sessions[k] = seen.sessions[k]
    <3>1. CASE k = Logs
      <4>1. /\ seen.sessions[k] \in [dir : Folders, closed : Nat]
            /\ seen'.sessions[k] \in [dir : Folders, closed : Nat]
        BY <1>1, <1>4, <1>5, ElementOfSeq DEF Logs
      <4>2. /\ seen'.sessions[k].dir = seen.sessions[k].dir
            /\ seen'.sessions[k].closed = seen.sessions[k].closed
        BY <1>1, <1>6, <2>1, <3>1
      <4> QED BY <4>1, <4>2
    <3>2. CASE k # Logs
      BY <1>1, <3>2
    <3> QED BY <3>1, <3>2
  <2>3. seen'.sessions = seen.sessions
    BY <1>1, <1>4, <1>5, <2>2, SeqEqual DEF Logs
  <2> QED BY <1>1, <1>3, <2>1, <2>3, BlocksUntouched
<1>8. CASE ~FeedNone(closes)
  <2>1. /\ ses'.blocks = ses.blocks + 1
        /\ FeedQueued(closes, b) \/ FeedRefused(closes, b)
    BY <1>2, <1>8 DEF FeedQueued, Held, FeedRefused
  <2>2. b \in Blocks /\ b[1] = Logs /\ b[2] = ses.blocks + 1
    BY <1>1, <1>4 DEF Blocks
  <2> HIDE DEF b
  <2>3. FilesAreOwn'
    <3>1. SUFFICES ASSUME NEW f \in Folders, NEW k \in DOMAIN disk[f], NEW x \in InSegment(disk[f], k)
                   PROVE  /\ x[1] \in 1..Logs /\ f = seen'.sessions[x[1]].dir
                          /\ x[1] = Logs => wr.pc # "setup" /\ k <= wr.seg + 1
      BY <1>3, <1>4, <1>5, SMTT(30) DEF BlocksInv, FilesAreOwn, InSegment, Held
    <3>2. /\ x[1] \in 1..Logs /\ f = seen.sessions[x[1]].dir
          /\ x[1] = Logs => wr.pc # "setup" /\ k <= wr.seg + 1
      BY DEF BlocksInv, FilesAreOwn
    <3> QED BY <1>1, <3>2
  <2>4. Logged(Logs)' = Logged(Logs) /\ Lost(Logs)' = Lost(Logs)
    BY <1>1, <1>3, <1>4, <1>5 DEF Logged, Range2, Lost
  <2>5. Closed(Logs)' = Closed(Logs) \cup {b} /\ b \notin Closed(Logs)
    <3>1. 1 .. ses.blocks + 1 = (1..ses.blocks) \cup {ses.blocks + 1}
      BY <1>4
    <3>2. Closed(Logs) = {<<Logs, n>> : n \in 1..ses.blocks}
      BY <1>6 DEF Closed
    <3>3. Closed(Logs)' = {<<Logs, n>> : n \in 1 .. ses.blocks + 1}
      BY <1>1, <1>5, <2>1 DEF Closed
    <3>4. b = <<Logs, ses.blocks + 1>>
      BY <1>1 DEF b
    <3>5. Closed(Logs)' = Closed(Logs) \cup {b}
      BY <3>1, <3>2, <3>3, <3>4
    <3>6. ses.blocks + 1 \notin 1..ses.blocks
      BY <1>4
    <3> QED BY <2>2, <3>2, <3>5, <3>6
  <2>6. Closed(Logs) = Logged(Logs) \cup Queued \cup Refused(Logs) \cup Lost(Logs)
    BY <1>1 DEF BlocksInv, BlocksAccounted
  <2>7. OldLogsKept'
    <3>1. seen.refused \subseteq seen'.refused
      BY <2>1 DEF FeedQueued, Held, FeedRefused
    <3>2. ASSUME NEW id \in 1 .. Logs - 1, ~Reused(id)'
          PROVE  Closed(id)' \subseteq Logged(id)' \cup seen'.refused \cup seen'.lost
      <4>1. id \in 1..Logs /\ id # Logs
        BY <1>5
      <4>2. ~Reused(id)
        BY <1>1, <1>5, <3>2, <4>1 DEF Reused
      <4>3. Logged(id)' = Logged(id)
        BY <1>3, <1>4 DEF Logged, Range2
      <4>4. seen'.sessions[id] = seen.sessions[id]
        BY <1>1, <4>1
      <4>5. Closed(id)' = Closed(id)
        BY <4>4 DEF Closed
      <4> QED BY <1>1, <3>1, <4>2, <4>3, <4>5 DEF BlocksInv, OldLogsKept
    <3> QED BY <1>5, <3>2 DEF OldLogsKept
  <2>8. \A x \in seen'.refused \cup seen'.lost : x[1] \in 1..Logs
    <3>1. seen'.refused \subseteq seen.refused \cup {b}
      BY <2>1 DEF FeedQueued, Held, FeedRefused
    <3>2. \A x \in seen.refused \cup seen.lost : x[1] \in 1..Logs
      BY DEF BlocksInv, BlocksAccounted
    <3> QED BY <1>1, <1>5, <2>2, <3>1, <3>2
  <2>9. CASE FeedQueued(closes, b)
    <3>1. pipe' = [pipe EXCEPT !.queue = Append(pipe.queue, b)] /\ seen'.refused = seen.refused
      BY <2>9 DEF FeedQueued, Held
    <3>2. pipe'.queue = Append(pipe.queue, b) /\ pipe'.dropped = pipe.dropped
      BY <1>4, <3>1 DEF PipeType
    <3>3. Held(Append(pipe.queue, b)) = Held(pipe.queue) \cup {b}
      BY <1>4, <2>2, AppendAdds
    <3>4. Queued' = Queued \cup {b}
      BY <3>2, <3>3, Zenon DEF Queued
    <3>5. Refused(Logs)' = Refused(Logs)
      BY <1>5, <3>1 DEF Refused
    <3>6. Closed(Logs)' = Logged(Logs)' \cup Queued' \cup Refused(Logs)' \cup Lost(Logs)'
      BY <2>4, <2>5, <2>6, <3>4, <3>5
    <3>7. BlocksAccounted'
      BY <1>1, <1>3, <1>5, <2>4, <2>8, <3>2, <3>5, <3>6 DEF BlocksInv, BlocksAccounted
    <3> QED BY <2>3, <2>7, <3>7 DEF BlocksInv
  <2>10. CASE FeedRefused(closes, b)
    <3>1. pipe' = [pipe EXCEPT !.dropped = @ + 1] /\ seen'.refused = seen.refused \cup {b}
      BY <2>10 DEF FeedRefused
    <3>2. pipe'.queue = pipe.queue /\ pipe'.dropped = pipe.dropped + 1
      BY <1>4, <3>1 DEF PipeType
    <3>3. Queued' = Queued
      BY <3>2 DEF Queued, Held
    <3>4. Refused(Logs)' = Refused(Logs) \cup {b} /\ b \notin Refused(Logs)
      BY <1>5, <2>2, <2>5, <2>6, <3>1 DEF Refused
    <3>5. Closed(Logs)' = Logged(Logs)' \cup Queued' \cup Refused(Logs)' \cup Lost(Logs)'
      BY <2>4, <2>5, <2>6, <3>3, <3>4
    <3>6. IsFiniteSet(Refused(Logs)) /\ Cardinality(Refused(Logs)) = pipe.dropped
      BY DEF BlocksInv, BlocksAccounted
    <3>7. IsFiniteSet(Refused(Logs))' /\ Cardinality(Refused(Logs))' = pipe'.dropped
      BY <3>2, <3>4, <3>6, FS_AddElement
    <3>8. BlocksAccounted'
      BY <1>1, <1>3, <1>5, <2>4, <2>8, <3>5, <3>7 DEF BlocksInv, BlocksAccounted
    <3> QED BY <2>3, <2>7, <3>8 DEF BlocksInv
  <2> QED BY <2>1, <2>9, <2>10
<1> QED BY <1>7, <1>8

\* A log whose folder no other uses is out of the writer's reach once another is written.
LEMMA OldLogsUntouched ==
    ASSUME SessionIInv, BlocksInv, bound' = bound, wr.pc # "none",
           seen'.sessions = seen.sessions, seen'.refused = seen.refused, seen.lost \subseteq seen'.lost,
           \A f \in Folders : f # wr.dir => disk'[f] = disk[f]
    PROVE  OldLogsKept'
<1>1. /\ Folders' = Folders /\ Logs' = Logs /\ Logs \in Nat /\ DOMAIN seen.sessions = 1..Logs
      /\ Logs > 0 /\ wr.dir = seen.sessions[Logs].dir
  <2>1. seen.sessions \in Seq([dir : Folders, closed : Nat])
    BY DEF SessionIInv, LogShape, SeenType
  <2> QED BY <2>1, TypesStay DEF Logs, SessionIInv, WriterLives
<1>2. ASSUME NEW id \in 1 .. Logs - 1, ~Reused(id)'
      PROVE  Closed(id)' \subseteq Logged(id)' \cup seen'.refused \cup seen'.lost
  <2>1. ~Reused(id) /\ Closed(id)' = Closed(id)
    BY <1>2 DEF Reused, Closed
  <2>2. seen.sessions[id].dir # wr.dir
    <3>1. Logs \in DOMAIN seen.sessions /\ Logs # id
      BY <1>1
    <3> QED BY <1>1, <2>1, <3>1 DEF Reused
  <2>3. ASSUME NEW b \in Logged(id) PROVE b \in Logged(id)'
    <3>1. b[1] = id
      BY <2>3 DEF Logged
    <3>2. PICK f \in Folders : \E k \in DOMAIN disk[f] : b \in InSegment(disk[f], k)
      BY <2>3, WhatIsLogged
    <3>3. f # wr.dir
      BY <2>2, <3>1, <3>2 DEF BlocksInv, FilesAreOwn
    <3>4. disk'[f] = disk[f]
      BY <3>3
    <3>5. \E k \in DOMAIN disk'[f] : b \in InSegment(disk'[f], k)
      BY <3>2, <3>4
    <3>6. b \in Range2(disk'[f])
      BY <3>5 DEF Range2, InSegment, Held
    <3> QED BY <1>1, <3>1, <3>2, <3>6 DEF Logged, Range2
  <2> QED BY <2>1, <2>3 DEF BlocksInv, OldLogsKept
<1> QED BY <1>1, <1>2 DEF OldLogsKept

\* The writer opens its first segment before any block of its log is written.
LEMMA SetupBlocks ==
    ASSUME SessionIInv, BlocksInv, NEW how \in Openings, setupWriters(how)
    PROVE  BlocksInv'
<1>1. /\ WriterLeaves /\ seen' = seen /\ wr.pc = "setup"
      /\ wr' \in WrType /\ wr'.pc = "loop" /\ wr'.ok = (how = "opened") /\ wr'.seg = 0 /\ wr'.dir = wr.dir
      /\ pipe' = [pipe EXCEPT !.failed = @ \/ how = "unopened"]
      /\ disk' = IF how # "unopened" THEN [disk EXCEPT ![wr.dir] = withSegment(disk[wr.dir], 0)] ELSE disk
  BY SetupEffect
<1>2. /\ pipe \in PipeType /\ disk \in DiskType /\ wr.dir \in Folders /\ DOMAIN disk = Folders
      /\ disk[wr.dir] \in Seq(Seq(Blocks))
  BY DEF SessionIInv, LogShape, WrType, DiskType
<1>3. /\ pipe'.queue = pipe.queue /\ pipe'.dropped = pipe.dropped
  BY <1>1, <1>2 DEF PipeType
<1>4. /\ Folders' = Folders /\ Logs' = Logs
  BY <1>1, TypesStay DEF WriterLeaves, Logs
<1>5. \A f \in Folders : f # wr.dir => disk'[f] = disk[f]
  BY <1>1, <1>2
<1>6. OldLogsKept'
  BY <1>1, <1>5, OldLogsUntouched DEF WriterLeaves
<1>7. ASSUME NEW f \in Folders, NEW k \in DOMAIN disk'[f], NEW b \in InSegment(disk'[f], k)
      PROVE  k \in DOMAIN disk[f] /\ b \in InSegment(disk[f], k)
  <2>1. CASE disk'[f] = disk[f]
    BY <1>7, <2>1
  <2>2. CASE disk'[f] # disk[f]
    <3>1. f = wr.dir /\ disk'[f] = withSegment(disk[f], 0)
      BY <1>1, <1>2, <1>5, <2>2
    <3>2. LET w == withSegment(disk[f], 0) IN
          /\ InSegment(w, 0 + 1) = {}
          /\ \A j \in DOMAIN w : j # 0 + 1 =>
                IF j \in DOMAIN disk[f] THEN InSegment(w, j) = InSegment(disk[f], j) ELSE InSegment(w, j) = {}
      BY <1>2, <3>1, OpenedSegments
    <3>3. k # 0 + 1
      BY <1>7, <3>1, <3>2
    <3> QED BY <1>7, <3>1, <3>2, <3>3
  <2> QED BY <2>1, <2>2
<1>8. \A f \in Folders : \A k \in DOMAIN disk[f] : \A b \in InSegment(disk[f], k) :
         b[1] \in 1..Logs /\ f = seen.sessions[b[1]].dir /\ b[1] # Logs
  BY <1>1 DEF BlocksInv, FilesAreOwn
<1>9. wr'.ok => 1 \in DOMAIN disk'[wr.dir]
  <2>1. ASSUME wr'.ok PROVE 1 \in DOMAIN disk'[wr.dir]
    <3>1. disk'[wr.dir] = withSegment(disk[wr.dir], 0)
      BY <1>1, <1>2, <2>1
    <3>2. 0 + 1 \in DOMAIN withSegment(disk[wr.dir], 0)
      BY <1>2, OpenedSegments
    <3> QED BY <3>1, <3>2
  <2> QED BY <2>1
<1>10. FilesAreOwn'
  <2>1. \A f \in Folders : \A k \in DOMAIN disk'[f] : \A b \in InSegment(disk'[f], k) :
           b[1] \in 1..Logs /\ f = seen.sessions[b[1]].dir /\ b[1] # Logs
    BY <1>7, <1>8
  <2> QED BY <1>1, <1>4, <1>9, <2>1 DEF FilesAreOwn, InSegment
<1>11. Logged(Logs)' = {} /\ Logged(Logs) = {}
  <2>1. ASSUME NEW b \in Logged(Logs) PROVE FALSE
    BY <1>8, WhatIsLogged
  <2>2. ASSUME NEW b \in Logged(Logs)' PROVE FALSE
    <3>1. b[1] = Logs' /\ \E f \in Folders' : \E k \in DOMAIN disk'[f] : b \in InSegment(disk'[f], k)
      BY <2>2 DEF Logged, Range2, InSegment, Held
    <3> QED BY <1>4, <1>7, <1>8, <3>1
  <2> QED BY <2>1, <2>2
<1>12. /\ Closed(Logs)' = Closed(Logs) /\ Queued' = Queued
       /\ Refused(Logs)' = Refused(Logs) /\ Lost(Logs)' = Lost(Logs)
  BY <1>1, <1>3, <1>4 DEF Closed, Queued, Held, Refused, Lost
<1>13. Lost(Logs) = {}
  BY <1>1 DEF BlocksInv, BlocksAccounted
<1>14. BlocksAccounted'
  BY <1>1, <1>3, <1>4, <1>11, <1>12, <1>13 DEF BlocksInv, BlocksAccounted
<1> QED BY <1>6, <1>10, <1>14 DEF BlocksInv

\* What the files hold after a block was written: what they held, up to a segment newly opened,
\* and the block where it landed.
WrittenFiles(h) ==
    LET old == disk[wr.dir]
        new == disk'[wr.dir]
    IN  /\ \A f \in Folders : f # wr.dir => disk'[f] = disk[f]
        /\ \A k \in DOMAIN new : \A b \in InSegment(new, k) :
              \/ k \in DOMAIN old /\ b \in InSegment(old, k)
              \/ b = h /\ k = wr'.seg + 1 /\ wr'.ok
        /\ \A k \in DOMAIN old : k <= wr.seg + 1 =>
              k \in DOMAIN new /\ InSegment(old, k) \subseteq InSegment(new, k)
        /\ wr'.ok => wr'.seg + 1 \in DOMAIN new /\ h \in InSegment(new, wr'.seg + 1)

LEMMA WriteFiles ==
    ASSUME SessionIInv, BlocksInv, NEW d \in Seq(Seq(Blocks)), NEW h \in Blocks, WriteOutcome(d, h),
           wr.pc \in {"loop", "final"}, wr' \in WrType
    PROVE  WrittenFiles(h)
<1> DEFINE old == disk[wr.dir]
           new == disk'[wr.dir]
<1>1. /\ DOMAIN disk = Folders /\ wr.dir \in Folders /\ old \in Seq(Seq(Blocks)) /\ wr.seg \in Nat
      /\ wr'.seg \in Nat
  BY DEF SessionIInv, LogShape, WrType, DiskType
<1>2. wr.ok => wr.seg + 1 \in DOMAIN old
  BY DEF BlocksInv, FilesAreOwn
<1>3. /\ \A k \in DOMAIN d : InSegment(d, k) = {} \/ (k \in DOMAIN old /\ InSegment(d, k) = InSegment(old, k))
      /\ \A k \in DOMAIN old : k <= wr.seg + 1 => k \in DOMAIN d /\ InSegment(old, k) = InSegment(d, k)
      /\ wr'.ok => wr'.seg + 1 \in DOMAIN d
  <2>1. CASE d = old /\ (wr'.ok => wr.ok /\ wr'.seg = wr.seg)
    BY <1>2, <2>1
  <2>2. CASE d = withSegment(old, wr.seg + 1) /\ wr'.seg = wr.seg + 1
    <3>1. wr.seg + 1 \in Nat
      BY <1>1
    <3>2. LET w == withSegment(old, wr.seg + 1) IN
          /\ wr.seg + 1 + 1 \in DOMAIN w /\ InSegment(w, wr.seg + 1 + 1) = {}
          /\ \A k \in DOMAIN old : k \in DOMAIN w
          /\ \A k \in DOMAIN w : k # wr.seg + 1 + 1 =>
                IF k \in DOMAIN old THEN InSegment(w, k) = InSegment(old, k) ELSE InSegment(w, k) = {}
      <4> HIDE DEF old
      <4> QED BY <1>1, <3>1, OpenedSegments
    <3>3. \A k \in DOMAIN old : k <= wr.seg + 1 => k # wr.seg + 1 + 1
      BY <1>1
    <3> HIDE DEF old
    <3> QED BY <2>2, <3>2, <3>3
  <2> QED BY <2>1, <2>2 DEF WriteOutcome
<1>4. CASE wr'.ok
  <2> DEFINE k == wr'.seg + 1
             e == Landed(d, k, h)
  <2>1. disk' = [disk EXCEPT ![wr.dir] = e]
    BY <1>4 DEF WriteOutcome
  <2>2. k \in DOMAIN d
    BY <1>3, <1>4
  <2>3. /\ DOMAIN e = DOMAIN d /\ InSegment(e, k) = InSegment(d, k) \cup {h}
        /\ \A j \in DOMAIN d : j # k => InSegment(e, j) = InSegment(d, j)
    <3> HIDE DEF k
    <3> QED BY <2>2, LandedBlock
  <2> HIDE DEF e
  <2>4. new = e /\ \A f \in Folders : f # wr.dir => disk'[f] = disk[f]
    BY <1>1, <2>1
  <2> HIDE DEF old, new
  <2>5. \A j \in DOMAIN new : \A b \in InSegment(new, j) :
           (j \in DOMAIN old /\ b \in InSegment(old, j)) \/ (b = h /\ j = k)
    BY <1>3, <2>2, <2>3, <2>4
  <2>6. \A j \in DOMAIN old : j <= wr.seg + 1 =>
           j \in DOMAIN new /\ InSegment(old, j) \subseteq InSegment(new, j)
    BY <1>3, <2>3, <2>4
  <2>7. k \in DOMAIN new /\ h \in InSegment(new, k)
    BY <2>2, <2>3, <2>4
  <2> QED BY <1>4, <2>4, <2>5, <2>6, <2>7 DEF WrittenFiles, old, new
<1>5. CASE ~wr'.ok
  <2>1. disk' = [disk EXCEPT ![wr.dir] = d]
    BY <1>5 DEF WriteOutcome
  <2>2. new = d /\ \A f \in Folders : f # wr.dir => disk'[f] = disk[f]
    BY <1>1, <2>1
  <2> HIDE DEF old, new
  <2>3. \A j \in DOMAIN new : \A b \in InSegment(new, j) : j \in DOMAIN old /\ b \in InSegment(old, j)
    BY <1>3, <2>2
  <2>4. \A j \in DOMAIN old : j <= wr.seg + 1 =>
           j \in DOMAIN new /\ InSegment(old, j) \subseteq InSegment(new, j)
    BY <1>3, <2>2
  <2> QED BY <1>5, <2>2, <2>3, <2>4 DEF WrittenFiles, old, new
<1> QED BY <1>4, <1>5

\* The oldest block of the queue lands in the open segment, or is lost with the failure noted.
LEMMA WriteBlocks ==
    ASSUME SessionIInv, BlocksInv, NEW how \in Openings, NEW writes \in BOOLEAN, writeBlock(how, writes)
    PROVE  BlocksInv'
<1> DEFINE h == Head(pipe.queue)
<1>1. /\ WriterLeaves /\ wr.pc \in {"loop", "final"} /\ pipe.queue # <<>>
      /\ wr' \in WrType /\ wr'.pc = wr.pc /\ wr'.dir = wr.dir
      /\ wr.failed => wr'.failed
      /\ wr'.seg \in {wr.seg, wr.seg + 1}
      /\ pipe' = [pipe EXCEPT !.queue = Tail(@)]
      /\ \E d \in Seq(Seq(Blocks)) : WriteOutcome(d, h)
  BY WriteEffect
<1>2. /\ pipe \in PipeType /\ pipe.queue \in Seq(Blocks) /\ seen \in SeenType /\ wr.seg \in Nat
      /\ wr.dir \in Folders /\ seen.lost \in SUBSET Blocks
  BY DEF SessionIInv, LogShape, PipeType, WrType, SeenType
<1>3. h \in Blocks
  BY <1>1, <1>2, HeadTailProperties
<1>4. /\ Held(pipe.queue) = Held(Tail(pipe.queue)) \cup {h}
  BY <1>1, <1>2, TailDrops
<1>5. pipe'.queue = Tail(pipe.queue) /\ pipe'.dropped = pipe.dropped
  BY <1>1, <1>2 DEF PipeType
<1>6. Queued = Queued' \cup {h}
  BY <1>4, <1>5, Zenon DEF Queued
<1> HIDE DEF h
<1>7. PICK d \in Seq(Seq(Blocks)) : WriteOutcome(d, h)
  BY <1>1
<1>8. WrittenFiles(h)
  BY <1>1, <1>3, <1>7, WriteFiles
<1>9. /\ seen'.sessions = seen.sessions /\ seen'.refused = seen.refused
      /\ wr'.ok => seen'.lost = seen.lost
      /\ ~wr'.ok => seen'.lost = seen.lost \cup {h} /\ wr'.failed
  <2>1. CASE wr'.ok
    BY <1>7, <2>1 DEF WriteOutcome
  <2>2. CASE ~wr'.ok
    <3>1. seen' = [seen EXCEPT !.lost = seen.lost \cup {h}] /\ wr'.failed
      BY <1>7, <2>2 DEF WriteOutcome
    <3> QED BY <1>2, <2>2, <3>1 DEF SeenType
  <2> QED BY <2>1, <2>2
<1>10. /\ Folders' = Folders /\ Logs' = Logs /\ Logs > 0 /\ wr.dir = seen.sessions[Logs].dir
  BY <1>1, <1>9, TypesStay DEF WriterLeaves, Logs, SessionIInv, WriterLives
<1>11. Logs \in Nat
  BY <1>2 DEF Logs, SeenType
<1>12. Closed(Logs) = Logged(Logs) \cup Queued \cup Refused(Logs) \cup Lost(Logs)
  BY <1>10 DEF BlocksInv, BlocksAccounted
<1>13. h[1] = Logs
  BY <1>6, <1>12 DEF Closed
<1>14. OldLogsKept'
  <2>1. seen.lost \subseteq seen'.lost
    BY <1>9
  <2> QED BY <1>1, <1>8, <1>9, <2>1, OldLogsUntouched DEF WrittenFiles, WriterLeaves
<1>15. ASSUME NEW f \in Folders, NEW k \in DOMAIN disk'[f], NEW b \in InSegment(disk'[f], k)
       PROVE  \/ k \in DOMAIN disk[f] /\ b \in InSegment(disk[f], k)
              \/ f = wr.dir /\ b = h /\ k = wr'.seg + 1 /\ wr'.ok
  BY <1>8, <1>15 DEF WrittenFiles
<1>16. FilesAreOwn'
  <2>1. ASSUME NEW f \in Folders, NEW k \in DOMAIN disk'[f], NEW b \in InSegment(disk'[f], k)
        PROVE  /\ b[1] \in 1..Logs /\ f = seen.sessions[b[1]].dir
               /\ b[1] = Logs => k <= wr'.seg + 1
    <3>1. CASE k \in DOMAIN disk[f] /\ b \in InSegment(disk[f], k)
      <4>1. /\ b[1] \in 1..Logs /\ f = seen.sessions[b[1]].dir
            /\ b[1] = Logs => k <= wr.seg + 1
        BY <3>1 DEF BlocksInv, FilesAreOwn
      <4>2. k \in Nat
        <5>1. disk[f] \in Seq(Seq(Blocks))
          BY DEF SessionIInv, LogShape, DiskType
        <5> QED BY <3>1, <5>1
      <4>3. k <= wr.seg + 1 => k <= wr'.seg + 1
        BY <1>1, <1>2, <4>2
      <4> QED BY <4>1, <4>3
    <3>2. CASE f = wr.dir /\ b = h /\ k = wr'.seg + 1
      <4>1. wr'.seg + 1 \in Nat
        BY <1>1, <1>2
      <4> QED BY <1>10, <1>11, <1>13, <3>2, <4>1
    <3> QED BY <1>15, <2>1, <3>1, <3>2
  <2>2. wr'.ok => wr'.seg + 1 \in DOMAIN disk'[wr.dir]
    BY <1>8 DEF WrittenFiles
  <2> QED BY <1>1, <1>9, <1>10, <2>1, <2>2 DEF FilesAreOwn, InSegment
<1>17. Logged(Logs)' = Logged(Logs) \cup (IF wr'.ok THEN {h} ELSE {})
  <2>1. ASSUME NEW b \in Logged(Logs)' PROVE b \in Logged(Logs) \cup (IF wr'.ok THEN {h} ELSE {})
    <3>1. b[1] = Logs' /\ \E f \in Folders' : \E k \in DOMAIN disk'[f] : b \in InSegment(disk'[f], k)
      BY <2>1 DEF Logged, Range2, InSegment, Held
    <3>2. PICK f \in Folders : \E k \in DOMAIN disk'[f] : b \in InSegment(disk'[f], k)
      BY <1>10, <3>1
    <3>3. PICK k \in DOMAIN disk'[f] : b \in InSegment(disk'[f], k)
      BY <3>2
    <3>4. CASE k \in DOMAIN disk[f] /\ b \in InSegment(disk[f], k)
      BY <1>10, <3>1, <3>4, WhatIsLogged
    <3> QED BY <1>15, <3>3, <3>4
  <2>2. ASSUME NEW b, b[1] = Logs, NEW k \in DOMAIN disk'[wr.dir], b \in InSegment(disk'[wr.dir], k)
        PROVE  b \in Logged(Logs)'
    <3>1. b \in Range2(disk'[wr.dir])
      BY <2>2 DEF Range2, InSegment, Held
    <3> QED BY <1>2, <1>10, <2>2, <3>1 DEF Logged, Range2
  <2>3. ASSUME NEW b \in Logged(Logs) PROVE b \in Logged(Logs)'
    <3>1. b[1] = Logs /\ \E f \in Folders : \E k \in DOMAIN disk[f] : b \in InSegment(disk[f], k)
      BY <2>3, WhatIsLogged
    <3>2. PICK f \in Folders : \E k \in DOMAIN disk[f] : b \in InSegment(disk[f], k)
      BY <3>1
    <3>3. PICK k \in DOMAIN disk[f] : b \in InSegment(disk[f], k)
      BY <3>2
    <3>4. f = wr.dir /\ k <= wr.seg + 1
      BY <1>10, <3>1, <3>3 DEF BlocksInv, FilesAreOwn
    <3>5. k \in DOMAIN disk'[wr.dir] /\ b \in InSegment(disk'[wr.dir], k)
      BY <1>8, <3>3, <3>4 DEF WrittenFiles
    <3> QED BY <2>2, <3>1, <3>5
  <2>4. wr'.ok => h \in Logged(Logs)'
    BY <1>8, <1>13, <2>2 DEF WrittenFiles
  <2> QED BY <2>1, <2>3, <2>4
<1>18. Closed(Logs)' = Closed(Logs) /\ Refused(Logs)' = Refused(Logs)
  BY <1>9, <1>10 DEF Closed, Refused
<1>19. Lost(Logs)' = Lost(Logs) \cup (IF wr'.ok THEN {} ELSE {h})
  BY <1>9, <1>10, <1>13 DEF Lost
<1>20. Closed(Logs)' = Logged(Logs)' \cup Queued' \cup Refused(Logs)' \cup Lost(Logs)'
  BY <1>6, <1>12, <1>17, <1>18, <1>19
<1>21. \A b \in seen'.refused \cup seen'.lost : b[1] \in 1..Logs
  <2>1. \A b \in seen.refused \cup seen.lost : b[1] \in 1..Logs
    BY DEF BlocksInv, BlocksAccounted
  <2>2. seen'.lost \subseteq seen.lost \cup {h}
    BY <1>9
  <2> QED BY <1>9, <1>10, <1>11, <1>13, <2>1, <2>2
<1>22. Lost(Logs)' # {} => wr'.failed
  <2>1. Lost(Logs) # {} => wr.failed
    BY DEF BlocksInv, BlocksAccounted
  <2> QED BY <1>1, <1>9, <1>19, <2>1
<1>23. IsFiniteSet(Refused(Logs))' /\ Cardinality(Refused(Logs))' = pipe'.dropped
  BY <1>5, <1>18 DEF BlocksInv, BlocksAccounted
<1>24. wr'.pc \notin {"setup", "none"} /\ ~(Logs' = 0)
  BY <1>1, <1>10, <1>11
<1>25. BlocksAccounted'
  BY <1>10, <1>20, <1>21, <1>22, <1>23, <1>24 DEF BlocksAccounted
<1> QED BY <1>14, <1>16, <1>25 DEF BlocksInv

LEMMA WriterBlocks ==
    ASSUME SessionIInv, BlocksInv, Writer
    PROVE  BlocksInv'
<1>1. /\ wr \in WrType /\ pipe \in PipeType /\ wr.failed \in BOOLEAN /\ pipe.failed \in BOOLEAN
  BY DEF SessionIInv, LogShape, WrType, PipeType
<1>2. CASE drainOnce
  <2>1. /\ UNCHANGED <<bound, disk, seen>> /\ wr.pc = "loop"
        /\ wr' = [wr EXCEPT !.pc = "check"] /\ pipe' = [pipe EXCEPT !.failed = @ \/ wr.failed]
    BY <1>2 DEF drainOnce
  <2>2. WriterGoesOn
    BY <1>1, <2>1 DEF WrType, WriterGoesOn
  <2>3. pipe'.queue = pipe.queue /\ pipe'.dropped = pipe.dropped
    BY <1>1, <2>1 DEF PipeType
  <2> QED BY <2>1, <2>2, <2>3, BlocksUntouched
<1>3. CASE writerLoop
  <2>1. /\ UNCHANGED <<bound, disk, seen, pipe>> /\ wr.pc = "check"
        /\ wr' = [wr EXCEPT !.pc = IF pipe.running THEN "loop" ELSE "final"]
    BY <1>3 DEF writerLoop
  <2>2. WriterGoesOn
    BY <1>1, <2>1 DEF WrType, WriterGoesOn
  <2> QED BY <2>1, <2>2, BlocksUntouched
<1>4. CASE writerLoopEnd
  <2>1. /\ UNCHANGED <<bound, disk, seen>> /\ wr.pc = "final" /\ wr' = [wr EXCEPT !.pc = "none"]
        /\ pipe' = [pipe EXCEPT !.sink = FALSE, !.lastDropped = pipe.dropped,
                                !.failed = @ \/ wr.failed, !.lastFailed = pipe.failed \/ wr.failed]
    BY <1>4 DEF writerLoopEnd
  <2>2. pipe' = [running |-> pipe.running, sink |-> FALSE, queue |-> pipe.queue, dropped |-> pipe.dropped,
                 failed |-> pipe.failed \/ wr.failed, lastDropped |-> pipe.dropped,
                 lastFailed |-> pipe.failed \/ wr.failed]
    BY <1>1, <2>1, Zenon DEF PipeType
  <2>3. pipe'.queue = pipe.queue /\ pipe'.dropped = pipe.dropped /\ (wr.failed => pipe'.lastFailed)
    BY <2>2
  <2>4. WriterGoesOn
    BY <1>1, <2>1, <2>3 DEF WrType, WriterGoesOn
  <2> QED BY <2>1, <2>3, <2>4, BlocksUntouched
<1> QED BY <1>2, <1>3, <1>4, SetupBlocks, WriteBlocks DEF Writer

\* No step of the other threads moves a block, but for the start of a log and a hop that is fed.
LEMMA BlocksStep ==
    ASSUME SessionIInv, BlocksInv, [LogNext]_logVars
    PROVE  BlocksInv'
<1>1. seen \in SeenType /\ pipe \in PipeType
  BY DEF SessionIInv, LogShape
<1>2. CASE Device
  <2>1. UNCHANGED <<bound, disk, wr, pipe, seen>>
    BY <1>2 DEF Device, DevOpenRate, DevOpenGate, DevOpenEpoch, DevClose, DevCallback, ClockTick
  <2> QED BY <2>1, BlocksUntouched
<1>3. CASE Calibrate
  <2>1. /\ UNCHANGED <<bound, disk, wr, pipe>>
        /\ seen' = seen \/ \E r : seen' = [seen EXCEPT !.record = r]
    BY <1>3 DEF Calibrate, restartSplLoggingForCalibration, writeCalibrationRecordAndUpdateInvalidFlag
  <2>2. seen'.sessions = seen.sessions /\ seen'.refused = seen.refused /\ seen'.lost = seen.lost
    BY <1>1, <2>1 DEF SeenType
  <2> QED BY <2>1, <2>2, BlocksUntouched
<1>4. CASE MessageThread
  <2>1. UNCHANGED <<bound, disk, wr, pipe, seen>>
    BY <1>4 DEF MessageThread, pollSplLogging, UiPostRequest
  <2> QED BY <2>1, BlocksUntouched
<1>5. CASE Analysis
  <2>1. ASSUME NEW lowered \in BOOLEAN, AnTick(lowered) PROVE BlocksInv'
    <3>1. UNCHANGED <<bound, disk, wr, pipe, seen>>
      BY <2>1 DEF AnTick
    <3> QED BY <3>1, BlocksUntouched
  <2>2. CASE AnTakeRequest
    <3>1. UNCHANGED <<bound, disk, wr, pipe, seen>>
      BY <2>2 DEF AnTakeRequest
    <3> QED BY <3>1, BlocksUntouched
  <2>3. CASE AnApply
    <3>1. /\ UNCHANGED <<bound, disk, wr>> /\ pipe' = [pipe EXCEPT !.running = FALSE]
          /\ \E r : seen' = [seen EXCEPT !.raced = r]
      BY <2>3 DEF AnApply
    <3>2. seen'.sessions = seen.sessions /\ seen'.refused = seen.refused /\ seen'.lost = seen.lost
      BY <1>1, <3>1 DEF SeenType
    <3>3. pipe'.queue = pipe.queue /\ pipe'.dropped = pipe.dropped /\ pipe'.lastFailed = pipe.lastFailed
      BY <1>1, <3>1 DEF PipeType
    <3> QED BY <3>1, <3>2, <3>3, BlocksUntouched
  <2>4. ASSUME NEW closes \in BOOLEAN, AnFeed(closes) PROVE BlocksInv'
    <3>1. CASE hop = 0 \/ splFrozen
      <4>1. UNCHANGED <<bound, disk, wr, pipe, seen>>
        BY <2>4, <3>1 DEF AnFeed
      <4> QED BY <4>1, BlocksUntouched
    <3> QED BY <2>4, <3>1, FeedBlocks
  <2> QED BY <1>5, <2>1, <2>2, <2>3, <2>4, StartBlocks DEF Analysis
<1>6. CASE Writer
  BY <1>6, WriterBlocks
<1>7. CASE UNCHANGED logVars
  BY <1>7, BlocksUntouched DEF logVars
<1> QED BY <1>2, <1>3, <1>4, <1>5, <1>6, <1>7 DEF LogNext

-------------------------------------------------------------------------------
(* The log keeps its blocks.                                               *)

LEMMA TypesAreKept == SessionIInv => LogTypeOK
<1> SUFFICES ASSUME SessionIInv PROVE LogTypeOK
  OBVIOUS
<1>1. /\ MaxBlocks \in Nat /\ MaxChecks \in Nat /\ MaxEpoch \in Nat /\ MaxSecond \in Nat
      /\ MaxSessions \in Nat /\ SegmentBlocks \in Nat
  BY LogAssumption, BoundsAreNumbers DEF SessionIInv, LogShape
<1>2. dev \in [rate : LogRates, epoch : 1..MaxEpoch, gate : BOOLEAN, up : BOOLEAN, pc : {"on", "gate", "epoch"}]
  <2>1. dev \in DevType /\ dev.epoch \in 1..MaxEpoch
    BY <1>1 DEF SessionIInv, LogShape, Counted, DevType
  <2> QED BY <2>1 DEF DevType
<1>3. cal \in [start : BOOLEAN, startCh : Channels, checks : 0..MaxChecks]
  <2>1. cal \in CalType /\ cal.checks \in 0..MaxChecks
    BY <1>1 DEF SessionIInv, LogShape, Counted, CalType
  <2> QED BY <2>1 DEF CalType
<1>4. an \in [pc : {"top", "request", "apply", "start", "feed"}, lastEpoch : 1..MaxEpoch]
  <2>1. an \in AnType /\ an.lastEpoch \in 1..MaxEpoch
    BY <1>1, <1>2 DEF SessionIInv, LogShape, Counted, AnType
  <2> QED BY <2>1 DEF AnType
<1>5. /\ hop \in LogRates \cup {0} /\ second \in 1..MaxSecond
      /\ request \in Requests /\ pending \in BOOLEAN
  BY <1>1 DEF SessionIInv, LogShape, Counted
<1>6. ui.active \in BOOLEAN /\ ui.lastEpoch \in 0..MaxEpoch /\ ui.dir \in Folders
  BY <1>1, <1>2 DEF SessionIInv, LogShape, Counted, UiType
<1>7. ses.id \in 0..MaxSessions /\ ses.blocks \in 0..MaxBlocks
  BY <1>1 DEF SessionIInv, LogShape, Counted, SesType
<1>8. /\ Len(pipe.queue) <= QueueBlocks /\ pipe.dropped \in 0..MaxBlocks
  BY <1>1 DEF SessionIInv, LogShape, Counted, PipeType
<1>9. wr.inSeg \in 0..SegmentBlocks /\ mirror.invalid \subseteq Channels
  BY <1>1 DEF SessionIInv, LogShape, Counted, WrType, MirrorType
<1> QED BY <1>2, <1>3, <1>4, <1>5, <1>6, <1>7, <1>8, <1>9 DEF LogTypeOK

LEMMA BlocksAreKept ==
    ASSUME SessionIInv, BlocksInv
    PROVE  NoBlockLostInSilence /\ EndedLogIsWhole
<1>1. Logs \in Nat /\ DOMAIN seen.sessions = 1..Logs
  BY DEF SessionIInv, LogShape, SeenType, Logs
<1>2. NoBlockLostInSilence
  <2> SUFFICES ASSUME ses.on, Logs = ses.id, pipe.sink
               PROVE  /\ Closed(Logs) = Logged(Logs) \cup Queued \cup {b \in seen.refused \cup seen.lost : b[1] = Logs}
                      /\ Cardinality(Refused(Logs)) = pipe.dropped
                      /\ (\E b \in seen.lost : b[1] = Logs) => wr.failed
    BY DEF NoBlockLostInSilence, Logs, Queued, Held, Refused
  <2>1. Logs > 0
    BY DEF SessionIInv, WriterLives
  <2>2. Closed(Logs) = Logged(Logs) \cup Queued \cup Refused(Logs) \cup Lost(Logs)
    BY <2>1 DEF BlocksInv, BlocksAccounted
  <2>3. {b \in seen.refused \cup seen.lost : b[1] = Logs} = Refused(Logs) \cup Lost(Logs)
    BY DEF Refused, Lost
  <2>4. Cardinality(Refused(Logs)) = pipe.dropped /\ (Lost(Logs) # {} => wr.failed)
    BY DEF BlocksInv, BlocksAccounted
  <2> QED BY <2>2, <2>3, <2>4 DEF Lost
<1>3. EndedLogIsWhole
  <2> SUFFICES ASSUME NEW id \in 1..Logs, Ended(id)
               PROVE  /\ ~Reused(id) => Closed(id) \subseteq Logged(id) \cup seen.refused \cup seen.lost
                      /\ (id = Logs /\ Closed(id) \cap seen.lost # {}) => pipe.lastFailed
    BY <1>1 DEF EndedLogIsWhole, Logs
  <2>1. CASE id # Logs
    <3>1. id \in 1 .. Logs - 1
      BY <1>1, <2>1
    <3> QED BY <2>1, <3>1 DEF BlocksInv, OldLogsKept
  <2>2. CASE id = Logs
    <3>1. wr.pc = "none" /\ pipe.queue = <<>>
      <4>1. ~pipe.sink
        BY <1>1, <2>2 DEF Ended, Logs
      <4> QED BY <4>1 DEF SessionIInv, WriterLives
    <3>2. Queued = {} /\ Logs > 0
      BY <1>1, <3>1 DEF Queued, Held
    <3>3. Closed(Logs) = Logged(Logs) \cup Queued \cup Refused(Logs) \cup Lost(Logs)
      BY <3>2 DEF BlocksInv, BlocksAccounted
    <3>4. Closed(Logs) \subseteq Logged(Logs) \cup seen.refused \cup seen.lost
      BY <3>2, <3>3 DEF Refused, Lost
    <3>5. Closed(Logs) \cap seen.lost # {} => Lost(Logs) # {}
      BY DEF Closed, Lost
    <3>6. Lost(Logs) # {} => pipe.lastFailed
      BY <3>1 DEF BlocksInv, BlocksAccounted
    <3> QED BY <2>2, <3>4, <3>5, <3>6
  <2> QED BY <2>1, <2>2
<1> QED BY <1>2, <1>3

\* Every block the running session closed is in its files, queued, counted as dropped or lost by
\* a write that raised the failure flag; a session that ended, in a folder of its own, has on disk
\* all it closed but for those (SplLogPipeline.cpp: pushBlock, writerLoop, drainOnce).
THEOREM LogKeepsItsBlocks == LogSpec => []LogInv
<1>1. LogInit => LogIInv
  BY SessionBegins, BlocksBegin DEF LogIInv
<1>2. LogIInv /\ [LogNext]_logVars => LogIInv'
  BY SessionStep, BlocksStep DEF LogIInv
<1>3. LogIInv => LogInv
  BY TypesAreKept, BlocksAreKept DEF LogInv, LogIInv
<1> QED BY <1>1, <1>2, <1>3, PTL DEF LogSpec
===============================================================================
