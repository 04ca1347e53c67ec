---------------------------- MODULE OutputClients -----------------------------
(***************************************************************************)
(* The six features that play through the one OutputEngine and measure      *)
(* what comes back: LOCATE, CAL, SWEEP, GEN, VERIFY and ALIGN.  All of them  *)
(* live on the message thread: an operator's press, or one poll of the 2 Hz  *)
(* timer, is one step.  The audio callback, the device, the analysis thread  *)
(* and the sweep worker run between any two of those steps.                  *)
(*                                                                         *)
(* DATA.  The engine's counter of rendered samples is cut to what a client   *)
(* compares it with: 0 nothing yet, 1 the settling time, 2 the dwell that    *)
(* turns the analyser's transfer FIFO over.  Time is counted in timer ticks  *)
(* since the running wait began.  A ramp takes one block.  Settings, levels, *)
(* output lists and texts are left out.                                      *)
(***************************************************************************)
EXTENDS Integers, FiniteSets

CONSTANTS
  Timeout,     \* ticks a client waits before it gives up
  MaxEpochs    \* bound: prepare() calls

ASSUME OutputClientsAssumption == Timeout \in Nat \ {0, 1} /\ MaxEpochs \in Nat

VARIABLES
  eng,      \* OutputEngine, as its message-thread contract shows it
  dev,      \* AudioIo::running_, "callbacks arrive", isSyntheticMode()
  cap,      \* the analysis thread: capture, resync, latest transfer snapshot
  cl,       \* state of each client
  from,     \* what a client noted when it was pressed: output epoch, input mode
  age,      \* ticks since the running wait began
  worker,   \* SweepIrWorker
  timer     \* timerCallback: the poll that comes next, or "idle"

vars == <<eng, dev, cap, cl, from, age, worker, timer>>

Clients == {"LOCATE", "CAL", "SWEEP", "GEN", "VERIFY", "ALIGN"}
Busy == [LOCATE |-> {"Settling", "Capturing"},
         CAL    |-> {"Armed"},
         SWEEP  |-> {"PreRoll", "Playing", "Analysing"},
         GEN    |-> {"Playing", "Swapping", "Stopping"},
         VERIFY |-> {"Waiting", "Measuring", "Settling"},
         ALIGN  |-> {"MeasuringHigh", "MeasuringLow", "MeasuringSum"}]
Rest == [LOCATE |-> {"Idle"}, CAL |-> {"Idle"}, SWEEP |-> {"Idle"}, GEN |-> {"Idle"},
         VERIFY |-> {"Idle", "Done"},
         ALIGN  |-> {"Idle", "AskingCycle", "Computed", "Done"}]
\* The states in which a client's own source may be armed.
Plays == [LOCATE |-> Busy["LOCATE"], CAL |-> {}, SWEEP |-> {"Playing"}, GEN |-> {"Playing"},
          VERIFY |-> {"Waiting", "Measuring"}, ALIGN |-> Busy["ALIGN"]]

Active(c) == cl[c] \in Busy[c]
captureBusy == \E c \in {"LOCATE", "CAL", "SWEEP", "ALIGN"} : Active(c)

\* Mutation of outputBusy: the generator does not count.
outputBusyWithoutGen == captureBusy \/ Active("VERIFY")
outputBusy == captureBusy \/ Active("VERIFY") \/ Active("GEN")
\* outputHolderName() # "": who else has the output, for GEN's own start.
heldByOther == captureBusy \/ Active("VERIFY")
sourceIsQuiescent == eng.idle /\ ~eng.armed
mayPlay == dev.synthetic \/ dev.running
TimedOut == age >= Timeout
\* The latest snapshot has a transfer, from the first frame on; it has a coherence only
\* once the gate of effective averages is open.
HasTransfer == cap.snap # "none"
HasCoherence == cap.snap \in {"other", "current"}
NotNoted == [epoch |-> 0, synthetic |-> FALSE]
Noted == [epoch |-> eng.epoch, synthetic |-> dev.synthetic]

Init ==
  /\ eng = [armed |-> FALSE, idle |-> TRUE, epoch |-> 0, owner |-> "none", slotEpoch |-> 0,
            routedBy |-> "none", played |-> 0]
  /\ dev = [running |-> FALSE, rendering |-> FALSE, synthetic |-> FALSE]
  /\ cap = [accum |-> "none", lost |-> FALSE, pending |-> FALSE, snap |-> "none",
            rebuilding |-> FALSE]
  /\ cl = [c \in Clients |-> "Idle"]
  /\ from = [c \in Clients |-> NotNoted]
  /\ age = 0 /\ worker = "none" /\ timer = "idle"

-------------------------------------------------------------------------------
(* What a handler does to the engine, the capture and its own client.      *)

Prepared(e) == [e EXCEPT !.epoch = @ + 1, !.armed = FALSE, !.idle = TRUE]
Disarmed(e) == [e EXCEPT !.armed = FALSE]
\* setSource, then the outputs, by client c; armSource restarts the sample count.
Sourced(e, c) == [e EXCEPT !.owner = c, !.slotEpoch = e.epoch, !.routedBy = c]
Armed(e) == [e EXCEPT !.armed = TRUE, !.played = 0]
\* A new wait on the excitation: the last snapshot belongs to an earlier one.
Aged(k) == [k EXCEPT !.snap = IF @ = "current" THEN "other" ELSE @]
\* armLocateCapture: the old result is cleared; the client notes resync and drops.
CaptureArmed(k) == [k EXCEPT !.accum = "armed", !.lost = FALSE]
\* CaptureBus::prepare: the resync gate goes up and every analyser is stale.
BusPrepared(k) == [k EXCEPT !.pending = TRUE, !.lost = TRUE, !.rebuilding = TRUE]

\* Client c goes to state s; what it noted is dead once it rests.
Goes(c, s) ==
  /\ cl' = [cl EXCEPT ![c] = s]
  /\ from' = [from EXCEPT ![c] = IF s \in Rest[c] THEN NotNoted ELSE @]

\* Client c starts in state s and notes the session it belongs to.
Starts(c, s) ==
  /\ cl' = [cl EXCEPT ![c] = s]
  /\ from' = [from EXCEPT ![c] = Noted]
  /\ age' = 0

\* Client c disarms its source and rests in state s.
Quits(c, s) ==
  /\ eng' = Disarmed(eng)
  /\ Goes(c, s)

-------------------------------------------------------------------------------
(* The operator's presses, while the timer is not being served.            *)

\* Mutation of LocateClicked: setSource's refusal is ignored.
LocateClickedIgnoringRefusal ==
  /\ timer = "idle" /\ ~outputBusy
  /\ eng' = IF sourceIsQuiescent THEN Armed(Sourced(eng, "LOCATE"))
                                 ELSE Armed([eng EXCEPT !.routedBy = "LOCATE"])
  /\ cap' = Aged(cap)
  /\ Starts("LOCATE", "Settling")
  /\ UNCHANGED <<dev, worker, timer>>
LocateClicked ==
  /\ timer = "idle" /\ ~outputBusy /\ sourceIsQuiescent
  /\ eng' = Armed(Sourced(eng, "LOCATE"))
  /\ cap' = Aged(cap)
  /\ Starts("LOCATE", "Settling")
  /\ UNCHANGED <<dev, worker, timer>>

\* CAL START or CAL END: the capture only, nothing is played.
CalClicked ==
  /\ timer = "idle" /\ ~outputBusy
  /\ cap' = CaptureArmed(cap)
  /\ Starts("CAL", "Armed")
  /\ UNCHANGED <<eng, dev, worker, timer>>

\* The source is installed and routed; it is armed by a later poll.
SweepStartOn ==
  /\ timer = "idle" /\ ~outputBusy /\ sourceIsQuiescent
  /\ eng.epoch > 0 /\ ~cap.pending
  /\ eng' = Sourced(eng, "SWEEP")
  /\ cap' = CaptureArmed(cap)
  /\ Starts("SWEEP", "PreRoll")
  /\ UNCHANGED <<dev, worker, timer>>

GenStart ==
  /\ timer = "idle" /\ ~Active("GEN") /\ ~heldByOther /\ mayPlay /\ sourceIsQuiescent
  /\ eng' = Armed(Sourced(eng, "GEN"))
  /\ cap' = Aged(cap)
  /\ Starts("GEN", "Playing")
  /\ UNCHANGED <<dev, worker, timer>>

GenStop ==
  /\ timer = "idle" /\ cl["GEN"] \in {"Playing", "Swapping"}
  /\ Quits("GEN", "Stopping")
  /\ age' = 0
  /\ UNCHANGED <<dev, cap, worker, timer>>

\* apply(): a changed source waits for the fall of the old one; changed outputs
\* are routed at once.
GenApply ==
  /\ timer = "idle" /\ cl["GEN"] \in {"Playing", "Swapping"}
  /\ \/ /\ cl["GEN"] = "Playing"
        /\ Quits("GEN", "Swapping")
        /\ age' = 0
     \/ /\ eng' = [eng EXCEPT !.routedBy = "GEN"]
        /\ UNCHANGED <<cl, from, age>>
  /\ UNCHANGED <<dev, cap, worker, timer>>

VerifyPress ==
  /\ timer = "idle" /\ ~Active("VERIFY")
  /\ ~dev.synthetic /\ dev.running /\ ~Active("GEN") /\ ~captureBusy
  /\ HasTransfer /\ sourceIsQuiescent
  /\ eng' = Armed(Sourced(eng, "VERIFY"))
  /\ cap' = Aged(cap)
  /\ Starts("VERIFY", "Waiting")
  /\ UNCHANGED <<dev, worker, timer>>

VerifyAdopt ==
  /\ timer = "idle" /\ cl["VERIFY"] = "Done"
  /\ Goes("VERIFY", "Idle")
  /\ UNCHANGED <<eng, dev, cap, age, worker, timer>>

AlignPress ==
  /\ timer = "idle" /\ ~Active("ALIGN") /\ mayPlay /\ ~outputBusy
  /\ HasTransfer /\ sourceIsQuiescent
  /\ eng' = Armed(Sourced(eng, "ALIGN"))
  /\ cap' = Aged(cap)
  /\ Starts("ALIGN", "MeasuringHigh")
  /\ UNCHANGED <<dev, worker, timer>>

AlignAnswerCycle ==
  /\ timer = "idle" /\ cl["ALIGN"] = "AskingCycle"
  /\ Goes("ALIGN", "Computed")
  /\ UNCHANGED <<eng, dev, cap, age, worker, timer>>

AlignPressSum ==
  /\ timer = "idle" /\ cl["ALIGN"] = "Computed" /\ mayPlay /\ ~outputBusy
  /\ sourceIsQuiescent
  /\ eng' = Armed(Sourced(eng, "ALIGN"))
  /\ cap' = Aged(cap)
  /\ Starts("ALIGN", "MeasuringSum")
  /\ UNCHANGED <<dev, worker, timer>>

\* setSyntheticMode: LOCATE and GEN are cancelled, the other clients find out at
\* their next poll.  Entering stops the device and prepares bus and engine for the
\* synthetic thread; leaving prepares nothing.
SetSyntheticMode ==
  /\ timer = "idle"
  /\ dev.synthetic \/ eng.epoch < MaxEpochs
  /\ LET ended == {c \in {"LOCATE", "GEN"} : Active(c)}
         quiet == IF ended = {} THEN eng ELSE Disarmed(eng)
     IN /\ cl' = [c \in Clients |-> IF c \in ended THEN "Idle" ELSE cl[c]]
        /\ from' = [c \in Clients |-> IF c \in ended THEN NotNoted ELSE from[c]]
        /\ eng' = IF dev.synthetic THEN quiet ELSE Prepared(quiet)
  /\ cap' = IF dev.synthetic THEN cap ELSE BusPrepared(cap)
  /\ dev' = [running |-> FALSE, rendering |-> ~dev.synthetic, synthetic |-> ~dev.synthetic]
  /\ UNCHANGED <<age, worker, timer>>

-------------------------------------------------------------------------------
(* timerCallback: six polls in a row, in this order.                       *)

TimerStart ==
  /\ timer = "idle"
  /\ timer' = "LOCATE"
  /\ age' = IF age < Timeout THEN age + 1 ELSE age
  /\ UNCHANGED <<eng, dev, cap, cl, from, worker>>

Settled == cl["LOCATE"] = "Settling" /\ eng.played >= 1 /\ ~cap.pending
LocateOver == cl["LOCATE"] = "Capturing" /\ (cap.lost \/ cap.accum = "published")

\* Settling to capturing once enough is rendered and no resync is pending; out on
\* a resync, on dropped frames, or with the capture.  No timeout.
PollLocate ==
  /\ timer = "LOCATE" /\ timer' = "CAL"
  /\ \/ Settled /\ cap' = CaptureArmed(cap) /\ Goes("LOCATE", "Capturing") /\ UNCHANGED eng
     \/ LocateOver /\ Quits("LOCATE", "Idle") /\ UNCHANGED cap
     \/ ~Settled /\ ~LocateOver /\ UNCHANGED <<eng, cap, cl, from>>
  /\ UNCHANGED <<dev, age, worker>>

CalOver == Active("CAL") /\ (cap.accum = "published" \/ TimedOut)

\* Mutation of PollCal: no timeout.
PollCalForever ==
  /\ timer = "CAL" /\ timer' = "SWEEP"
  /\ IF Active("CAL") /\ cap.accum = "published" THEN Goes("CAL", "Idle")
                                                 ELSE UNCHANGED <<cl, from>>
  /\ UNCHANGED <<eng, dev, cap, age, worker>>
PollCal ==
  /\ timer = "CAL" /\ timer' = "SWEEP"
  /\ IF CalOver THEN Goes("CAL", "Idle") ELSE UNCHANGED <<cl, from>>
  /\ UNCHANGED <<eng, dev, cap, age, worker>>

SweepLive == cl["SWEEP"] \in {"PreRoll", "Playing"}
SweepAborts ==
  SweepLive /\ \/ from["SWEEP"] # Noted
               \/ cap.lost
               \/ TimedOut /\ ~(cl["SWEEP"] = "Playing" /\ cap.accum = "published")

\* PreRoll arms the source once the settling time is over (at the second tick at
\* the latest); Playing hands a capture to the worker; Analysing takes its answer.
PollSweep ==
  /\ timer = "SWEEP" /\ timer' = "GEN"
  /\ \/ SweepAborts /\ Quits("SWEEP", "Idle") /\ UNCHANGED worker
     \/ /\ cl["SWEEP"] = "PreRoll" /\ ~SweepAborts
        /\ \/ eng' = Armed(eng) /\ Goes("SWEEP", "Playing")
           \/ age = 1 /\ UNCHANGED <<eng, cl, from>>
        /\ UNCHANGED worker
     \/ /\ cl["SWEEP"] = "Playing" /\ ~SweepAborts
        /\ IF cap.accum = "published"
             THEN Quits("SWEEP", "Analysing") /\ worker' = "running"
             ELSE UNCHANGED <<eng, cl, from, worker>>
     \/ /\ cl["SWEEP"] = "Analysing"
        /\ IF worker = "done" THEN Goes("SWEEP", "Idle") /\ worker' = "none"
                              ELSE UNCHANGED <<cl, from, worker>>
        /\ UNCHANGED eng
     \/ cl["SWEEP"] = "Idle" /\ UNCHANGED <<eng, cl, from, worker>>
  /\ UNCHANGED <<dev, cap, age>>

\* Mutation of GenLost: the output epoch is not compared.
GenLostUnchecked == ~mayPlay /\ cl["GEN"] \in {"Playing", "Swapping"}
GenLost ==
  \/ Active("GEN") /\ eng.epoch # from["GEN"].epoch
  \/ ~mayPlay /\ cl["GEN"] \in {"Playing", "Swapping"}

\* GeneratorRunner::poll.
GenPolled ==
  \/ GenLost /\ Quits("GEN", "Idle") /\ UNCHANGED cap
  \/ /\ cl["GEN"] = "Swapping" /\ ~GenLost
     /\ \/ /\ sourceIsQuiescent
           /\ eng' = Armed([eng EXCEPT !.owner = "GEN", !.slotEpoch = eng.epoch])
           /\ cap' = Aged(cap)
           /\ Goes("GEN", "Playing")
        \/ ~sourceIsQuiescent /\ TimedOut /\ Quits("GEN", "Idle") /\ UNCHANGED cap
        \/ ~sourceIsQuiescent /\ ~TimedOut /\ UNCHANGED <<eng, cap, cl, from>>
  \/ /\ cl["GEN"] = "Stopping" /\ ~GenLost
     /\ IF sourceIsQuiescent \/ TimedOut THEN Goes("GEN", "Idle") ELSE UNCHANGED <<cl, from>>
     /\ UNCHANGED <<eng, cap>>
  \/ cl["GEN"] \in {"Idle", "Playing"} /\ ~GenLost /\ UNCHANGED <<eng, cap, cl, from>>

PollGen ==
  /\ timer = "GEN" /\ timer' = "VERIFY"
  /\ GenPolled
  /\ UNCHANGED <<dev, age, worker>>

\* The generator strip polls by itself while a swap or a stop is under way.
GenFastPoll ==
  /\ timer = "idle" /\ cl["GEN"] \in {"Swapping", "Stopping"}
  /\ GenPolled
  /\ UNCHANGED <<dev, age, worker, timer>>

\* The dwell is over and the latest snapshot has a coherence.
SnapshotUsable == eng.played = 2 /\ HasCoherence
VerifyAborts ==
  \/ Active("VERIFY") /\ ~dev.running
  \/ cl["VERIFY"] = "Waiting" /\ eng.played = 0 /\ TimedOut
  \/ cl["VERIFY"] = "Measuring" /\ ~SnapshotUsable /\ TimedOut

\* Waiting for the settling time, Measuring until a snapshot is usable (or a
\* setting changed under it), Settling until the engine is quiescent.
PollVerify ==
  /\ timer = "VERIFY" /\ timer' = "ALIGN"
  /\ \/ VerifyAborts /\ Quits("VERIFY", "Idle") /\ UNCHANGED age
     \/ /\ cl["VERIFY"] = "Waiting" /\ ~VerifyAborts
        /\ IF eng.played >= 1
             THEN /\ eng' = [eng EXCEPT !.played = 1]
                  /\ age' = 0
                  /\ Goes("VERIFY", "Measuring")
             ELSE UNCHANGED <<eng, age, cl, from>>
     \/ /\ cl["VERIFY"] = "Measuring" /\ ~VerifyAborts
        /\ IF SnapshotUsable THEN \E s \in {"Settling", "Idle"} : Quits("VERIFY", s)
                             ELSE UNCHANGED <<eng, cl, from>>
        /\ UNCHANGED age
     \/ /\ cl["VERIFY"] = "Settling" /\ ~VerifyAborts
        /\ IF sourceIsQuiescent THEN Goes("VERIFY", "Done") ELSE UNCHANGED <<cl, from>>
        /\ UNCHANGED <<eng, age>>
     \/ ~Active("VERIFY") /\ UNCHANGED <<eng, age, cl, from>>
  /\ UNCHANGED <<dev, cap, worker>>

\* Mutation of AlignMoved: the output epoch is not compared.
AlignMovedUnchecked == dev.synthetic # from["ALIGN"].synthetic \/ ~mayPlay
AlignMoved == from["ALIGN"] # Noted \/ ~mayPlay

\* One measuring step: out if the session moved, if nothing usable comes in time, or
\* if a setting changed; otherwise the snapshot is taken and the next step begins.
PollAlign ==
  /\ timer = "ALIGN" /\ timer' = "idle"
  /\ \/ /\ Active("ALIGN")
        /\ AlignMoved \/ (~SnapshotUsable /\ TimedOut) \/ SnapshotUsable
        /\ Quits("ALIGN", "Idle")
        /\ UNCHANGED <<cap, age>>
     \/ /\ cl["ALIGN"] = "MeasuringHigh" /\ ~AlignMoved /\ SnapshotUsable
        /\ eng' = [eng EXCEPT !.routedBy = "ALIGN", !.played = 0]
        /\ cap' = Aged(cap)
        /\ age' = 0
        /\ Goes("ALIGN", "MeasuringLow")
     \/ /\ cl["ALIGN"] = "MeasuringLow" /\ ~AlignMoved /\ SnapshotUsable
        /\ \E s \in {"AskingCycle", "Computed"} : Quits("ALIGN", s)
        /\ UNCHANGED <<cap, age>>
     \/ /\ cl["ALIGN"] = "MeasuringSum" /\ ~AlignMoved /\ SnapshotUsable
        /\ Quits("ALIGN", "Done")
        /\ UNCHANGED <<cap, age>>
     \/ /\ Active("ALIGN") => (~AlignMoved /\ ~SnapshotUsable /\ ~TimedOut)
        /\ UNCHANGED <<eng, cap, age, cl, from>>
  /\ UNCHANGED <<dev, worker>>

-------------------------------------------------------------------------------
(* The device: panel presses on the message thread, events on its own.     *)

DeviceStart ==
  /\ timer = "idle" /\ ~dev.synthetic /\ ~dev.running /\ eng.epoch < MaxEpochs
  /\ dev' = [dev EXCEPT !.running = TRUE, !.rendering = TRUE]
  /\ eng' = Prepared(eng)
  /\ cap' = BusPrepared(cap)
  /\ UNCHANGED <<cl, from, age, worker, timer>>

\* stop() by the operator, or audioDeviceError().
DeviceEnds ==
  /\ dev.running
  /\ dev' = [dev EXCEPT !.running = FALSE, !.rendering = FALSE]
  /\ UNCHANGED <<eng, cap, cl, from, age, worker, timer>>

\* audioDeviceStopped(): no more callbacks, but running_ stays as it is.
DeviceFallsSilent ==
  /\ dev.running /\ dev.rendering
  /\ dev' = [dev EXCEPT !.rendering = FALSE]
  /\ UNCHANGED <<eng, cap, cl, from, age, worker, timer>>

\* audioDeviceAboutToStart() again, after a change of rate or buffer size.
DeviceReopens ==
  /\ dev.running /\ ~dev.rendering /\ eng.epoch < MaxEpochs
  /\ dev' = [dev EXCEPT !.rendering = TRUE]
  /\ eng' = Prepared(eng)
  /\ cap' = BusPrepared(cap)
  /\ UNCHANGED <<cl, from, age, worker, timer>>

-------------------------------------------------------------------------------
(* The callback, the analysis thread, the worker.                          *)

Playing == eng.armed /\ eng.slotEpoch = eng.epoch

\* A block of the source.  The dwell is twice what the FIFO needs, so a snapshot of
\* the running source is published by the time it is over, if a coherence is.
RenderPlaying ==
  /\ dev.rendering /\ Playing
  /\ eng' = [eng EXCEPT !.idle = FALSE, !.played = IF @ < 2 THEN @ + 1 ELSE @]
  /\ \/ eng'.played = 2 /\ cap' = [cap EXCEPT !.snap = "current", !.rebuilding = FALSE]
     \/ (eng'.played < 2 \/ ~HasCoherence) /\ UNCHANGED cap
  /\ UNCHANGED <<dev, cl, from, age, worker, timer>>

\* Nothing to play: the master gate falls, then the engine is quiescent.
RenderSilence ==
  /\ dev.rendering /\ ~Playing /\ ~eng.idle
  /\ eng' = [eng EXCEPT !.idle = TRUE]
  /\ UNCHANGED <<dev, cap, cl, from, age, worker, timer>>

\* What the next snapshot may be while the analysers fill: "none" without a frame,
\* "blank" with a transfer whose coherence gate is shut; once it is open, of something
\* else than the running source unless its dwell is over.
Filling == CASE cap.rebuilding \/ cap.snap = "none" -> {"none", "blank"}
             [] ~cap.rebuilding /\ cap.snap = "blank" -> {"blank"}
             [] OTHER -> {}
Filled == IF cap.rebuilding THEN {}
          ELSE {IF Playing /\ eng.played = 2 THEN "current" ELSE "other"}

AnalysisPublish ==
  /\ dev.rendering
  /\ \E s \in Filling \cup Filled : cap' = [cap EXCEPT !.snap = s, !.rebuilding = FALSE]
  /\ UNCHANGED <<eng, dev, cl, from, age, worker, timer>>

\* Enough hops of the armed route: only when both its channels deliver.
CapturePublish ==
  /\ dev.rendering /\ ~cap.pending /\ cap.accum = "armed"
  /\ cap' = [cap EXCEPT !.accum = "published"]
  /\ UNCHANGED <<eng, dev, cl, from, age, worker, timer>>

\* A refused ring write, or a role change that raises the resync gate.
InputDisturbed ==
  /\ dev.rendering
  /\ \E up \in BOOLEAN : cap' = [cap EXCEPT !.lost = TRUE, !.pending = @ \/ up]
  /\ UNCHANGED <<eng, dev, cl, from, age, worker, timer>>

ResyncServed ==
  /\ cap.pending
  /\ cap' = [cap EXCEPT !.lost = TRUE, !.pending = FALSE]
  /\ UNCHANGED <<eng, dev, cl, from, age, worker, timer>>

WorkerDone ==
  /\ worker = "running"
  /\ worker' = "done"
  /\ UNCHANGED <<eng, dev, cap, cl, from, age, timer>>

-------------------------------------------------------------------------------
Press == \/ LocateClicked \/ CalClicked \/ SweepStartOn \/ GenStart \/ GenStop \/ GenApply
         \/ VerifyPress \/ VerifyAdopt \/ AlignPress \/ AlignAnswerCycle \/ AlignPressSum
         \/ SetSyntheticMode
Timer == \/ TimerStart \/ PollLocate \/ PollCal \/ PollSweep \/ PollGen \/ PollVerify
         \/ PollAlign
Device == DeviceStart \/ DeviceEnds \/ DeviceFallsSilent \/ DeviceReopens
Others == \/ RenderPlaying \/ RenderSilence \/ AnalysisPublish \/ CapturePublish
          \/ InputDisturbed \/ ResyncServed \/ WorkerDone

Next == Press \/ Timer \/ GenFastPoll \/ Device \/ Others

Spec == Init /\ [][Next]_vars

\* The timer fires for ever and a worker that was started finishes.  Nothing makes
\* the operator act, a device deliver, or a capture fill.
FairSpec ==
  /\ Spec
  /\ WF_vars(Timer)
  /\ WF_vars(WorkerDone)

\* Besides, a device that calls back at all renders, publishes and fills a capture for
\* ever: what still fails here fails because the device has stopped calling.
DeliverySpec ==
  /\ FairSpec
  /\ WF_vars(RenderPlaying)
  /\ WF_vars(RenderSilence)
  /\ WF_vars(ResyncServed)
  /\ WF_vars(CapturePublish)

-------------------------------------------------------------------------------
\* Every field keeps its type.
TypeOK ==
  /\ eng \in [armed : BOOLEAN, idle : BOOLEAN, epoch : 0..MaxEpochs,
              owner : Clients \cup {"none"}, slotEpoch : 0..MaxEpochs,
              routedBy : Clients \cup {"none"}, played : 0..2]
  /\ dev \in [running : BOOLEAN, rendering : BOOLEAN, synthetic : BOOLEAN]
  /\ cap \in [accum : {"none", "armed", "published"}, lost : BOOLEAN, pending : BOOLEAN,
              snap : {"none", "blank", "other", "current"}, rebuilding : BOOLEAN]
  /\ DOMAIN cl = Clients /\ \A c \in Clients : cl[c] \in Busy[c] \cup Rest[c]
  /\ from \in [Clients -> [epoch : 0..MaxEpochs, synthetic : BOOLEAN]]
  /\ age \in 0..Timeout
  /\ worker \in {"none", "running", "done"}
  /\ timer \in Clients \cup {"idle"}

\* At most one client holds the output and the shared capture (MainComponent.h, "ONE
\* answer to may a new LOCATE / CAL / SWEEP / VERIFY / ALIGN take the output").
OneHolder == \A c, d \in Clients : Active(c) /\ Active(d) => c = d

\* An armed source is the one its client installed, plays on the outputs that client
\* chose, is of the current device session, and its client is in a state that will
\* disarm it: nothing plays that nobody will stop.
ArmedIsOwned ==
  eng.armed =>
    /\ eng.owner \in Clients
    /\ cl[eng.owner] \in Plays[eng.owner]
    /\ eng.routedBy = eng.owner
    /\ eng.slotEpoch = eng.epoch

\* The operator's generator plays only in the device session and input mode it was
\* started in: a restart or a mode change silences it and only a press brings it back.
GenStaysInSession == eng.armed /\ eng.owner = "GEN" => from["GEN"] = Noted

\* ALIGN stores a snapshot under an output's name only if its FIFO holds that output's
\* excitation and nothing else.
AlignHearsItsStep ==
  [][Active("ALIGN") /\ cl'["ALIGN"] \notin {cl["ALIGN"], "Idle"} => cap.snap = "current"]_vars

\* CAL, SWEEP and ALIGN let go of the output whatever the device does, and a stop or a
\* swap of the generator comes to an end.
ClientsLetGo ==
  /\ \A c \in {"CAL", "SWEEP", "ALIGN"} : Active(c) ~> ~Active(c)
  /\ cl["GEN"] \in {"Swapping", "Stopping"} ~> cl["GEN"] \in {"Idle", "Playing"}

-------------------------------------------------------------------------------
(* What comments of the code say of it, and it does not do.                *)

\* "A snapshot published before the FIFO has turned over still carries the room WITHOUT
\* the excitation; submitting it would report the unchanged room as a failed correction":
\* EqVerifyRunner.cpp.  VERIFY takes a snapshot of its own excitation only.
VerifyHearsExcitation ==
  [][cl["VERIFY"] = "Measuring" /\ cl'["VERIFY"] = "Settling" => cap.snap = "current"]_vars

\* The output has one client at a time (outputBusy, MainComponent.h) and every client is
\* in a state its runner has.
ClientsInv == TypeOK /\ OneHolder
===============================================================================
