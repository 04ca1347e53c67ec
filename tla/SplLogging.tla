------------------------------ MODULE SplLogging ------------------------------
(***************************************************************************)
(* The SPL log of one measurement channel, from the operator's poll to the *)
(* file.  Four actors: the device (CaptureBus::prepare), the message       *)
(* thread (pollSplLogging and the calibration pipeline post requests), the *)
(* analysis thread (applyPendingSplRequest, feedSpl) and the writer thread *)
(* of SplLogPipeline.  Samples are the rate they were captured at; a block *)
(* is the session that closed it and a number; a folder is the pair of the *)
(* second and the epoch sessionFolderName puts in its name.                *)
(***************************************************************************)
EXTENDS Integers, Sequences, FiniteSets

CONSTANTS LogRates,        \* sample rates a device may be opened with
          QueueBlocks,     \* SplLogEnableParams::queueCapacityBlocks
          SegmentBlocks,   \* SplConfig::segmentBlocks
          MaxSessions,     \* bound: requests applied that start a session
          LogBounds,       \* bounds, one record for a behaviour: blocks closed per session,
                           \* calibration checks, device openings, seconds of wall clock
          CalChannels      \* measurement channels a calibration may resolve to

ASSUME LogAssumption == /\ QueueBlocks \in Nat \ {0} /\ SegmentBlocks \in Nat \ {0}
                        /\ MaxSessions \in Nat /\ LogRates \subseteq Nat \ {0} /\ LogRates # {}
                        /\ LogBounds \subseteq [blocks : Nat, checks : Nat,
                                               epochs : Nat \ {0}, seconds : Nat \ {0}]

NoFolder == <<0, 0>>
NoChannel == "none"
NoRecord == [dir |-> NoFolder, bad |-> {}, raced |-> FALSE]

VARIABLES dev,      \* device and bus: rate, epoch, gate, running, step of prepare
          hop,      \* the rate of the hop waiting in the ring, 0: none
          second,   \* wall clock
          ui,       \* message thread: splLoggingActive_, lastSplEpoch_, current folder, steps to do
          request,  \* AnalysisThreadSplState request fields, guarded by requestLock
          pending,  \* requestPending
          cal,      \* CalibrationSession and MainComponent's calibration fields
          an,       \* analysis thread: step of the tick, lastEpoch_
          ses,      \* SplSession and sessionEpoch
          pipe,     \* SplLogPipeline: running_, the sink's queue, its counters and snapshots
          wr,       \* writer thread: its step, its SplLogWriter
          mirror,   \* the atomics the message thread and publishing read
          disk,     \* folder |-> sequence of segments, each a sequence of blocks
          bound,    \* the member of LogBounds this behaviour keeps to
          seen      \* what the properties remember of every session

logVars == <<dev, hop, second, ui, request, pending, cal, an, ses, pipe, wr, mirror, disk, bound, seen>>

MaxBlocks == bound.blocks
MaxChecks == bound.checks
MaxEpoch == bound.epochs
MaxSecond == bound.seconds

Folders == (0..MaxSecond) \X (0..MaxEpoch)
Channels == CalChannels \cup {NoChannel}
Requests == [enable : BOOLEAN, dir : Folders, cal : BOOLEAN]
NoRequest == [enable |-> FALSE, dir |-> NoFolder, cal |-> FALSE]

LogInit ==
    /\ dev = [rate |-> CHOOSE r \in LogRates : TRUE, epoch |-> 1, gate |-> FALSE, up |-> TRUE, pc |-> "on"]
    /\ bound \in LogBounds /\ hop = 0 /\ second = 1
    /\ ui = [active |-> FALSE, lastEpoch |-> 0, dir |-> NoFolder, cal |-> FALSE, todo |-> <<>>]
    /\ request = NoRequest /\ pending = FALSE
    /\ cal = [start |-> FALSE, startCh |-> NoChannel, checks |-> 0]
    /\ an = [pc |-> "top", lastEpoch |-> 1]
    /\ ses = [on |-> FALSE, epoch |-> 0, rate |-> 0, dir |-> NoFolder, id |-> 0, blocks |-> 0]
    /\ pipe = [running |-> FALSE, sink |-> FALSE, queue |-> <<>>, dropped |-> 0, failed |-> FALSE,
               lastDropped |-> 0, lastFailed |-> FALSE]
    /\ wr = [pc |-> "none", ok |-> FALSE, failed |-> FALSE, seg |-> 0, inSeg |-> 0, dir |-> NoFolder]
    /\ mirror = [dropped |-> 0, failed |-> FALSE, blocks |-> 0, invalid |-> {}]
    /\ disk = [f \in Folders |-> <<>>]
    /\ seen = [mixed |-> FALSE, raced |-> FALSE, lost |-> {}, refused |-> {}, sessions |-> <<>>,
               record |-> NoRecord]

-----------------------------------------------------------------------------
(* The device.  prepare() stores the rate, then raises the gate, then counts the epoch. *)

DevOpenRate(r) ==
    /\ dev.pc = "on" /\ dev.epoch < MaxEpoch
    /\ dev' = [dev EXCEPT !.rate = r, !.pc = "gate"]
    /\ UNCHANGED <<bound, hop, second, ui, request, pending, cal, an, ses, pipe, wr, mirror, disk, seen>>

DevOpenGate ==
    /\ dev.pc = "gate"
    /\ dev' = [dev EXCEPT !.gate = TRUE, !.pc = "epoch"]
    /\ UNCHANGED <<bound, hop, second, ui, request, pending, cal, an, ses, pipe, wr, mirror, disk, seen>>

DevOpenEpoch ==
    /\ dev.pc = "epoch"
    /\ dev' = [dev EXCEPT !.epoch = @ + 1, !.up = TRUE, !.pc = "on"]
    /\ UNCHANGED <<bound, hop, second, ui, request, pending, cal, an, ses, pipe, wr, mirror, disk, seen>>

DevClose ==
    /\ dev.pc = "on" /\ dev.up
    /\ dev' = [dev EXCEPT !.up = FALSE]
    /\ UNCHANGED <<bound, hop, second, ui, request, pending, cal, an, ses, pipe, wr, mirror, disk, seen>>

DevCallback ==
    /\ dev.pc = "on" /\ dev.up /\ ~dev.gate /\ hop = 0
    /\ hop' = dev.rate
    /\ UNCHANGED <<bound, dev, second, ui, request, pending, cal, an, ses, pipe, wr, mirror, disk, seen>>

ClockTick ==
    /\ second < MaxSecond
    /\ second' = second + 1
    /\ UNCHANGED <<bound, dev, hop, ui, request, pending, cal, an, ses, pipe, wr, mirror, disk, seen>>

-----------------------------------------------------------------------------
(* The message thread. *)

decideSplLoggingAction(was, is, last, current) ==
    CASE ~was /\ ~is -> "NoOp"
      [] was /\ ~is -> "Disable"
      [] ~was /\ is -> "EnableFresh"
      [] was /\ is -> IF last = current THEN "NoOp" ELSE "EnableFresh"

sessionFolderName(now, epoch) == <<now, epoch>>

\* The two halves of a request: its fields under the lock, then the flag.  (A disable is
\* taken whole: a request applied between its halves reads what the flag would announce.)
disableSplLogging == << [op |-> "both", req |-> NoRequest] >>
enableSplLogging(dir, c) ==
    LET r == [enable |-> TRUE, dir |-> dir, cal |-> c]
    IN  << [op |-> "write", req |-> r], [op |-> "flag", req |-> r] >>

startFreshSplLogWithConfig(u, c, epoch, before) ==
    LET dir == sessionFolderName(second, epoch)
    IN  [u EXCEPT !.dir = dir, !.cal = c, !.todo = before \o enableSplLogging(dir, c)]

pollSplLogging ==
    LET action == decideSplLoggingAction(ui.active, dev.up, ui.lastEpoch, dev.epoch)
        u == [ui EXCEPT !.active = dev.up, !.lastEpoch = dev.epoch]
    IN  /\ ui.todo = <<>>
        /\ action # "NoOp"
        /\ ui' = IF action = "Disable" THEN [u EXCEPT !.todo = disableSplLogging]
                 ELSE startFreshSplLogWithConfig(u, FALSE, dev.epoch,
                                                 IF ui.active THEN disableSplLogging ELSE <<>>)
        /\ UNCHANGED <<bound, dev, hop, second, request, pending, cal, an, ses, pipe, wr, mirror, disk, seen>>

UiPostRequest ==
    /\ ui.todo # <<>>
    /\ ui' = [ui EXCEPT !.todo = Tail(@)]
    /\ request' = IF Head(ui.todo).op = "flag" THEN request ELSE Head(ui.todo).req
    /\ pending' = (pending \/ Head(ui.todo).op # "write")
    /\ UNCHANGED <<bound, dev, hop, second, cal, an, ses, pipe, wr, mirror, disk, seen>>

recordStartCheck(c, ch) == [start |-> TRUE, startCh |-> ch, checks |-> c.checks + 1]

setCalibrationInvalid(m, ch, invalid) ==
    [m EXCEPT !.invalid = IF invalid THEN @ \cup {ch} ELSE @ \ {ch}]

\* The start check: recorded, and a running log restarted with the offset it gives.
restartSplLoggingForCalibration(ch) ==
    /\ ui.todo = <<>> /\ cal.checks < MaxChecks
    /\ cal' = recordStartCheck(cal, ch)
    /\ IF ui.active
       THEN /\ ui' = startFreshSplLogWithConfig(ui, TRUE, dev.epoch, disableSplLogging)
            /\ mirror' = setCalibrationInvalid(mirror, ch, FALSE)
            /\ seen' = [seen EXCEPT !.record = NoRecord]
       ELSE UNCHANGED <<ui, mirror, seen>>
    /\ UNCHANGED <<bound, dev, hop, second, request, pending, an, ses, pipe, wr, disk>>

decideCalibrationRecordChannel(start, end) ==
    CASE start = NoChannel \/ end = NoChannel -> "RefuseNoMeasurementChannel"
      [] start # NoChannel /\ end # NoChannel /\ start # end -> "RefuseChannelMismatch"
      [] start # NoChannel /\ start = end -> "Write"

\* The end check: calibration.txt in the current folder, and the flag of a failed verdict.
writeCalibrationRecordAndUpdateInvalidFlag(ch, verdict) ==
    LET writes == decideCalibrationRecordChannel(cal.startCh, ch) = "Write"
    IN  /\ ui.todo = <<>> /\ cal.start /\ cal.checks < MaxChecks
        /\ cal' = [cal EXCEPT !.checks = @ + 1]
        /\ IF ui.dir = NoFolder
           THEN UNCHANGED <<mirror, seen>>
           ELSE /\ mirror' = IF writes THEN setCalibrationInvalid(mirror, ch, verdict = "fail")
                             ELSE mirror
                /\ seen' = [seen EXCEPT !.record = [dir |-> ui.dir,
                                bad |-> IF writes /\ verdict = "fail" THEN {ch} ELSE {},
                                raced |-> pending \/ an.pc \in {"apply", "start"}]]
        /\ UNCHANGED <<bound, dev, hop, second, ui, request, pending, an, ses, pipe, wr, disk>>

-----------------------------------------------------------------------------
(* The analysis thread: one tick is top -> request -> apply -> start -> feed. *)

\* serviceResync and rebuildAnalysersIfEpochChanged; a gate still up skips the drain.
AnTick(lowered) ==
    /\ an.pc = "top" /\ (lowered => dev.gate)
    /\ an' = [pc |-> IF dev.gate /\ ~lowered THEN "top" ELSE "request", lastEpoch |-> dev.epoch]
    /\ dev' = [dev EXCEPT !.gate = @ /\ ~lowered]
    /\ hop' = IF lowered THEN 0 ELSE hop
    /\ UNCHANGED <<bound, second, ui, request, pending, cal, ses, pipe, wr, mirror, disk, seen>>

AnTakeRequest ==
    /\ an.pc = "request"
    /\ an' = [an EXCEPT !.pc = IF pending THEN "apply" ELSE "feed"]
    /\ pending' = FALSE
    /\ ses' = IF pending THEN [ses EXCEPT !.epoch = an.lastEpoch] ELSE ses
    /\ UNCHANGED <<bound, dev, hop, second, ui, request, cal, pipe, wr, mirror, disk, seen>>

\* The request's fields, SplSession::start or stop at the live rate, and the pipeline's
\* running_ flag taken down: the thread now waits for the writer.
AnApply ==
    /\ an.pc = "apply"
    /\ (request.enable => ses.id < MaxSessions)
    /\ an' = [an EXCEPT !.pc = "start"]
    /\ ses' = IF request.enable
              THEN [ses EXCEPT !.on = TRUE, !.rate = dev.rate, !.dir = request.dir, !.id = @ + 1, !.blocks = 0]
              ELSE [ses EXCEPT !.on = FALSE, !.blocks = 0]
    /\ pipe' = [pipe EXCEPT !.running = FALSE]
    /\ seen' = [seen EXCEPT !.raced = request.enable /\ (dev.pc # "on" \/ dev.epoch # an.lastEpoch)]
    /\ UNCHANGED <<bound, dev, hop, second, ui, request, pending, cal, wr, mirror, disk>>

freshPipe == [running |-> TRUE, sink |-> TRUE, queue |-> <<>>, dropped |-> 0, failed |-> FALSE,
              lastDropped |-> 0, lastFailed |-> FALSE]

freshMirror == [dropped |-> 0, failed |-> FALSE, blocks |-> 0, invalid |-> {}]

\* SplLogPipeline::enable after the join, and every mirror back to zero.
AnStart ==
    /\ an.pc = "start" /\ wr.pc = "none"
    /\ an' = [an EXCEPT !.pc = "feed"]
    /\ IF ses.on
       THEN /\ pipe' = freshPipe
            /\ wr' = [wr EXCEPT !.pc = "setup", !.dir = ses.dir]
            /\ seen' = [seen EXCEPT !.sessions = Append(@, [dir |-> ses.dir, closed |-> 0])]
       ELSE UNCHANGED <<pipe, wr, seen>>
    /\ mirror' = freshMirror
    /\ UNCHANGED <<bound, dev, hop, second, ui, request, pending, cal, ses, disk>>

pushBlockUncounted(p, b) ==
    IF Len(p.queue) < QueueBlocks THEN [p EXCEPT !.queue = Append(@, b)] ELSE p

pushBlock(p, b) ==
    IF Len(p.queue) < QueueBlocks THEN [p EXCEPT !.queue = Append(@, b)]
    ELSE [p EXCEPT !.dropped = @ + 1]

splNeverFrozen == ~ses.on
splFrozen == ses.epoch # an.lastEpoch \/ ~ses.on

\* feedSpl: the hop of this tick reaches the session, which may close a block with it.
AnFeed(closes) ==
    LET b == <<ses.id, ses.blocks + 1>>
        p == IF closes THEN pushBlock(pipe, b) ELSE pipe
    IN  /\ an.pc = "feed"
        /\ an' = [an EXCEPT !.pc = "top"]
        /\ hop' = 0
        /\ IF hop = 0 \/ splFrozen
           THEN /\ ~closes /\ UNCHANGED <<ses, pipe, mirror, seen>>
           ELSE /\ closes => ses.blocks < MaxBlocks
                /\ ses' = IF closes THEN [ses EXCEPT !.blocks = @ + 1] ELSE ses
                /\ pipe' = p
                /\ mirror' = [mirror EXCEPT !.dropped = p.dropped, !.failed = p.failed,
                                            !.blocks = ses'.blocks]
                /\ seen' = [seen EXCEPT !.mixed = @ \/ (/\ hop # ses.rate /\ ~seen.raced
                                                  /\ dev.epoch = an.lastEpoch),
                                !.refused = IF closes /\ p.queue = pipe.queue THEN @ \cup {b} ELSE @,
                                !.sessions = [@ EXCEPT ![ses.id].closed = ses'.blocks]]
        /\ UNCHANGED <<bound, dev, second, ui, request, pending, cal, wr, disk>>

-----------------------------------------------------------------------------
(* The writer thread.  Opening and writing may fail; a failed stream stays failed until *)
(* the next segment opens.                                                              *)

\* A file that does not open is a failure at once; one whose header fails part way shows it only at
\* its first block.
Openings == {"opened", "headerless", "unopened"}
openSegment(w, how, seg) ==
    [w EXCEPT !.ok = how = "opened", !.failed = @ \/ how = "unopened", !.seg = seg, !.inSeg = 0]

\* The segments of a folder once segment `seg` was opened for writing, truncated.
withSegment(segs, seg) ==
    [k \in 1..(IF Len(segs) > seg THEN Len(segs) ELSE seg + 1) |->
        IF k = seg + 1 THEN <<>> ELSE IF k <= Len(segs) THEN segs[k] ELSE <<>>]

setupWriters(how) ==
    /\ wr.pc = "setup"
    /\ wr' = [openSegment([wr EXCEPT !.failed = FALSE], how, 0) EXCEPT !.pc = "loop"]
    /\ pipe' = [pipe EXCEPT !.failed = @ \/ how = "unopened"]
    /\ disk' = IF how # "unopened" THEN [disk EXCEPT ![wr.dir] = withSegment(@, 0)] ELSE disk
    /\ UNCHANGED <<bound, dev, hop, second, ui, request, pending, cal, an, ses, mirror, seen>>

\* SplLogWriter::write of the oldest queued block, rotating first when the segment is full.
writeBlock(how, writes) ==
    LET rotate == wr.inSeg >= SegmentBlocks
        w == IF rotate THEN openSegment(wr, how, wr.seg + 1) ELSE wr
        d == IF rotate /\ how # "unopened" THEN withSegment(disk[wr.dir], w.seg) ELSE disk[wr.dir]
        lands == w.ok /\ writes
    IN  /\ wr.pc \in {"loop", "final"} /\ pipe.queue # <<>>
        /\ (~rotate => how = "opened")
        /\ (~w.ok => ~writes)
        /\ wr' = [w EXCEPT !.ok = lands, !.failed = @ \/ ~lands, !.inSeg = @ + 1]
        /\ pipe' = [pipe EXCEPT !.queue = Tail(@)]
        /\ disk' = [disk EXCEPT ![wr.dir] =
                        IF lands THEN [d EXCEPT ![w.seg + 1] = Append(@, Head(pipe.queue))] ELSE d]
        /\ seen' = IF lands THEN seen ELSE [seen EXCEPT !.lost = @ \cup {Head(pipe.queue)}]
        /\ UNCHANGED <<bound, dev, hop, second, ui, request, pending, cal, an, ses, mirror>>

\* drainOnce found the queue empty: the flag is mirrored.
drainOnce ==
    /\ wr.pc = "loop" /\ pipe.queue = <<>>
    /\ wr' = [wr EXCEPT !.pc = "check"]
    /\ pipe' = [pipe EXCEPT !.failed = @ \/ wr.failed]
    /\ UNCHANGED <<bound, dev, hop, second, ui, request, pending, cal, an, ses, mirror, disk, seen>>

\* writerLoop looks at running_: what was pushed since the drain is left to the last one.
writerLoop ==
    /\ wr.pc = "check"
    /\ wr' = [wr EXCEPT !.pc = IF pipe.running THEN "loop" ELSE "final"]
    /\ UNCHANGED <<bound, dev, hop, second, ui, request, pending, cal, an, ses, pipe, mirror, disk, seen>>

writerLoopEnd ==
    /\ wr.pc = "final" /\ pipe.queue = <<>>
    /\ wr' = [wr EXCEPT !.pc = "none"]
    /\ pipe' = [pipe EXCEPT !.sink = FALSE, !.lastDropped = pipe.dropped,
                            !.failed = @ \/ wr.failed, !.lastFailed = pipe.failed \/ wr.failed]
    /\ UNCHANGED <<bound, dev, hop, second, ui, request, pending, cal, an, ses, mirror, disk, seen>>

-----------------------------------------------------------------------------
Device == \/ \E r \in LogRates : DevOpenRate(r)
          \/ DevOpenGate \/ DevOpenEpoch \/ DevClose \/ DevCallback \/ ClockTick

Calibrate == \/ \E ch \in Channels : restartSplLoggingForCalibration(ch)
             \/ \E ch \in Channels, v \in {"pass", "fail"} :
                    writeCalibrationRecordAndUpdateInvalidFlag(ch, v)

MessageThread == pollSplLogging \/ UiPostRequest
Analysis == \/ \E lowered \in BOOLEAN : AnTick(lowered)
            \/ AnTakeRequest \/ AnApply \/ AnStart \/ \E closes \in BOOLEAN : AnFeed(closes)
Writer == \/ \E how \in Openings : setupWriters(how)
          \/ \E how \in Openings, writes \in BOOLEAN : writeBlock(how, writes)
          \/ drainOnce \/ writerLoop \/ writerLoopEnd

LogNext == Device \/ Calibrate \/ MessageThread \/ Analysis \/ Writer

\* The three threads of the program keep running; the device, the operator and the
\* outcome of a file operation owe nothing.
LogFairness == /\ WF_logVars(MessageThread) /\ WF_logVars(Writer)
               /\ WF_logVars(\E lowered \in BOOLEAN : dev.gate = lowered /\ AnTick(lowered))
               /\ WF_logVars(AnTakeRequest \/ AnApply \/ AnStart)
               /\ WF_logVars(\E closes \in BOOLEAN : AnFeed(closes))

LogSpec == LogInit /\ [][LogNext]_logVars /\ LogFairness

-----------------------------------------------------------------------------
\* Every variable holds what the code's fields can: at most QueueBlocks queued, at most
\* SegmentBlocks in a segment, one session more than the snapshot at most.
LogTypeOK ==
    /\ dev \in [rate : LogRates, epoch : 1..MaxEpoch, gate : BOOLEAN, up : BOOLEAN,
                pc : {"on", "gate", "epoch"}]
    /\ hop \in LogRates \cup {0} /\ second \in 1..MaxSecond
    /\ ui.active \in BOOLEAN /\ ui.lastEpoch \in 0..MaxEpoch /\ ui.dir \in Folders
    /\ request \in Requests /\ pending \in BOOLEAN
    /\ cal \in [start : BOOLEAN, startCh : Channels, checks : 0..MaxChecks]
    /\ an \in [pc : {"top", "request", "apply", "start", "feed"}, lastEpoch : 1..MaxEpoch]
    /\ ses.id \in 0..MaxSessions /\ ses.blocks \in 0..MaxBlocks
    /\ Len(pipe.queue) <= QueueBlocks /\ pipe.dropped \in 0..MaxBlocks
    /\ wr.inSeg \in 0..SegmentBlocks
    /\ mirror.invalid \subseteq Channels

Range2(segs) == UNION {{segs[k][i] : i \in DOMAIN segs[k]} : k \in DOMAIN segs}
Logged(id) == {b \in UNION {Range2(disk[f]) : f \in Folders} : b[1] = id}
Closed(id) == {<<id, n>> : n \in 1..seen.sessions[id].closed}
Reused(id) == \E k \in DOMAIN seen.sessions : k # id /\ seen.sessions[k].dir = seen.sessions[id].dir
Ended(id) == id < Len(seen.sessions) \/ ~pipe.sink

\* Every block the running session closed is in its files, in the queue, counted as
\* dropped (SplLogPipeline.cpp:165) or was lost by a write that set the failure flag: none
\* is dropped in silence, not by the last drain of a stopping writer either.
NoBlockLostInSilence ==
    LET id == ses.id IN
    (ses.on /\ Len(seen.sessions) = id /\ pipe.sink) =>
        /\ Closed(id) = Logged(id) \cup {pipe.queue[i] : i \in DOMAIN pipe.queue}
                        \cup {b \in seen.refused \cup seen.lost : b[1] = id}
        /\ Cardinality({b \in seen.refused : b[1] = id}) = pipe.dropped
        /\ (\E b \in seen.lost : b[1] = id) => wr.failed

\* A session that has ended, in a folder no other session used, has on disk all it closed
\* but for what was refused or lost; the snapshot the writer leaves says that it lost some
\* (SplLogPipeline.cpp:144-157: the last drain runs after the flag went down).
EndedLogIsWhole ==
    \A id \in DOMAIN seen.sessions :
        Ended(id) =>
            /\ ~Reused(id) => Closed(id) \subseteq Logged(id) \cup seen.refused \cup seen.lost
            /\ (id = Len(seen.sessions) /\ Closed(id) \cap seen.lost # {}) => pipe.lastFailed

\* What the snapshot shows is of the session in force: a failure or a drop it shows
\* happened in this session (the mirrors are reset LAST, AnalysisThreadSpl.cpp:144).
MirrorIsOwn ==
    an.pc \notin {"apply", "start"} =>
        /\ mirror.failed => (ses.on /\ wr.failed)
        /\ mirror.dropped <= pipe.dropped
        /\ mirror.blocks = (IF ses.on THEN ses.blocks ELSE 0)

\* "Freezing here ... is what stops a mixed-rate block from ever closing"
\* (AnalysisThreadSpl.cpp:176): a session takes only hops of the rate it was built for,
\* unless the bus was reopened after this tick looked at its epoch and before the session
\* was built or the hop fed.
HopsOfOneRate == ~seen.mixed

\* The log follows the device: a device that stays open is logged by a session stamped with
\* its epoch.  AnalysisThreadSpl.cpp:48-53 says that the stamp "is never stale".
LogFollowsDevice ==
    []((dev.up /\ dev.pc = "on" /\ dev.epoch = MaxEpoch) ~>
       (~dev.up \/ ses.id = MaxSessions \/ (ses.on /\ ses.epoch = dev.epoch)))

\* calibration.txt and the snapshot agree (MainComponentCalibration.cpp:340-348): while the
\* only session of the folder runs, a channel whose end check failed there is flagged, unless a
\* request was already on its way to the analysis thread when the flag was set.
RecordIsFlagged ==
    (/\ ses.on /\ ses.dir = ui.dir /\ seen.record.dir = ui.dir
     /\ \A k \in 1..(Len(seen.sessions) - 1) : seen.sessions[k].dir # ui.dir
     /\ ~seen.record.raced /\ an.pc \notin {"apply", "start"} /\ ui.todo = <<>> /\ ~pending)
        => seen.record.bad \subseteq mirror.invalid

\* The log of a session: every block that closed is in a file or is counted as missing, and a
\* session that ended in order is complete on disk.
LogInv == LogTypeOK /\ NoBlockLostInSilence /\ EndedLogIsWhole

\* What a session says belongs to it: the mirror the message thread shows, the rate its hops were
\* measured at, and the flag on blocks whose record was refused.
LogSessionInv == MirrorIsOwn /\ HopsOfOneRate /\ RecordIsFlagged
=============================================================================
