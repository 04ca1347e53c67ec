----------------------------- MODULE OutputEngine -----------------------------
(***************************************************************************)
(* rta::platform::OutputEngine: one generator source in a slot, rendered   *)
(* by the audio callback through a master gate and one gate per output,    *)
(* and replaced by the message thread only while the engine is quiescent.  *)
(*                                                                         *)
(* Three threads, one step per atomic access another thread can see:       *)
(*   audio    render                                                       *)
(*   device   prepare, with the callback quiesced                          *)
(*   message  setSource, armSource, disarmSource, routeOutput, in any order*)
(*                                                                         *)
(* DATA.  A source is the device session whose rate it was built for.  A   *)
(* chunk moves each gate by one step of its ramp.  renderedSamples and the *)
(* prepared channel count are telemetry and left out; render never reads a *)
(* role, only the gate target that routeOutput sets with it.               *)
(***************************************************************************)
EXTENDS Integers, FiniteSets

CONSTANTS
  Outputs,      \* output channels
  RampLen,      \* rampLenSamples_, in chunks
  MaxChunks,    \* chunks a block may hold
  MaxPrepares,  \* bound: device (re)configurations
  MaxArms       \* bound: armSource calls

ASSUME OutputEngineAssumption ==
  /\ RampLen \in Nat \ {0}
  /\ MaxChunks \in Nat \ {0}
  /\ MaxPrepares \in Nat
  /\ MaxArms \in Nat

VARIABLES
  armed, publishedIdle, outputEpoch, slotEpoch, sampleRate,
  slot,                       \* slot_: the session the source was built for
  master,                     \* master_: a gate
  gates,                      \* outputGates_: a gate per output
  audPc, armedNow, wantsPlaying, chunksLeft,   \* render's locals
  devPc,                      \* device thread
  msgPc, msgSource, msgEpoch, msgResult,       \* message thread: setSource's locals
  arms,                       \* armSource calls so far (bound)
  swapRaced,                  \* history: setSource's check read a flag a block was about to replace
  overlapped,                 \* history: a prepare() overlapped the current setSource
  slotOverlapped              \* history: ... the setSource that filled the slot

engVars == <<armed, publishedIdle, outputEpoch, slotEpoch, sampleRate, slot>>
gateVars == <<master, gates>>
audVars == <<audPc, armedNow, wantsPlaying, chunksLeft>>
msgVars == <<msgPc, msgSource, msgEpoch, msgResult, arms>>
histVars == <<swapRaced, overlapped, slotOverlapped>>
vars == <<engVars, gateVars, audVars, devPc, msgVars, histVars>>

GateStates == {"Idle", "Rising", "Running", "Falling"}
Gates == [target : BOOLEAN, pos : 0..RampLen, state : GateStates]
Preparing == {"bumped", "disarmed", "rated"}
Setting == {"built", "idleSeen", "writing", "written", "epochLoaded"}

-------------------------------------------------------------------------------
(* rta::gen::RampedGain.                                                   *)

ClosedGate == [target |-> FALSE, pos |-> 0, state |-> "Idle"]

\* nextGain: the target turns the direction, and only then the position moves.
Turned(g) ==
  IF g.target /\ g.state \in {"Idle", "Falling"} THEN "Rising"
  ELSE IF ~g.target /\ g.state \in {"Running", "Rising"} THEN "Falling"
  ELSE g.state

MovedTo(g, pos, state) == [target |-> g.target, pos |-> pos, state |-> state]

\* Mutation of Advance: a fall stops one step short of Idle.
AdvanceStuck(g) ==
  CASE Turned(g) = "Rising" /\ g.pos + 1 >= RampLen -> MovedTo(g, RampLen, "Running")
    [] Turned(g) = "Rising" /\ g.pos + 1 < RampLen  -> MovedTo(g, g.pos + 1, "Rising")
    [] Turned(g) = "Falling" /\ g.pos <= 1          -> [g EXCEPT !.state = "Falling"]
    [] Turned(g) = "Falling" /\ g.pos > 1           -> MovedTo(g, g.pos - 1, "Falling")
    [] Turned(g) \in {"Idle", "Running"}            -> g
Advance(g) ==
  CASE Turned(g) = "Rising" /\ g.pos + 1 >= RampLen -> MovedTo(g, RampLen, "Running")
    [] Turned(g) = "Rising" /\ g.pos + 1 < RampLen  -> MovedTo(g, g.pos + 1, "Rising")
    [] Turned(g) = "Falling" /\ g.pos <= 1          -> MovedTo(g, 0, "Idle")
    [] Turned(g) = "Falling" /\ g.pos > 1           -> MovedTo(g, g.pos - 1, "Falling")
    [] Turned(g) \in {"Idle", "Running"}            -> g

\* RampedGain::prepare: silent at once; the target is kept.
Reset(g) == MovedTo(g, 0, "Idle")

Init ==
  /\ armed = FALSE /\ publishedIdle = TRUE
  /\ outputEpoch = 0 /\ slotEpoch = 0 /\ sampleRate = 0 /\ slot = 0
  /\ master = ClosedGate /\ gates = [c \in Outputs |-> ClosedGate]
  /\ audPc = "out" /\ armedNow = FALSE /\ wantsPlaying = FALSE /\ chunksLeft = 0
  /\ devPc = "stopped"
  /\ msgPc = "idle" /\ msgSource = 0 /\ msgEpoch = 0 /\ msgResult = "none" /\ arms = 0
  /\ swapRaced = FALSE /\ overlapped = FALSE /\ slotOverlapped = FALSE

-------------------------------------------------------------------------------
(* The audio callback: render.                                             *)

\* The first read of the block.
RenderBegin ==
  /\ audPc = "out" /\ devPc = "running"
  /\ armedNow' = armed
  /\ audPc' = "epoch"
  /\ UNCHANGED <<wantsPlaying, chunksLeft, engVars, gateVars, devPc, msgVars, histVars>>

EpochOk == slotEpoch = outputEpoch

\* The block plays, or lets the master gate finish its fall, or clears.
RenderDecide ==
  /\ audPc = "epoch"
  /\ wantsPlaying' = (armedNow /\ EpochOk)
  /\ master' = [master EXCEPT !.target = wantsPlaying']
  /\ IF wantsPlaying' \/ master.state # "Idle"
       THEN audPc' = "visit" /\ chunksLeft' \in 1..MaxChunks
       ELSE audPc' = "clear" /\ UNCHANGED chunksLeft
  /\ UNCHANGED <<armedNow, engVars, gates, devPc, msgVars, histVars>>

RenderClear ==
  /\ audPc = "clear"
  /\ publishedIdle' = TRUE
  /\ audPc' = "out"
  /\ UNCHANGED <<armedNow, wantsPlaying, chunksLeft, armed, outputEpoch, slotEpoch,
                 sampleRate, slot, gateVars, devPc, msgVars, histVars>>

\* One chunk: the slot is visited, then every gate advances, routed or not.
RenderChunk ==
  /\ audPc = "visit"
  /\ master' = Advance(master)
  /\ gates' = [c \in Outputs |-> Advance(gates[c])]
  /\ chunksLeft' = chunksLeft - 1
  /\ audPc' = IF chunksLeft = 1 THEN "publish" ELSE "visit"
  /\ UNCHANGED <<armedNow, wantsPlaying, engVars, devPc, msgVars, histVars>>

\* Mutation of RenderPublish: a block that no longer wants to play is quiescent.
RenderPublishEarly ==
  /\ audPc = "publish"
  /\ publishedIdle' = ~wantsPlaying
  /\ audPc' = "out"
  /\ UNCHANGED <<armedNow, wantsPlaying, chunksLeft, armed, outputEpoch, slotEpoch,
                 sampleRate, slot, gateVars, devPc, msgVars, histVars>>
RenderPublish ==
  /\ audPc = "publish"
  /\ publishedIdle' = (master.state = "Idle")
  /\ audPc' = "out"
  /\ UNCHANGED <<armedNow, wantsPlaying, chunksLeft, armed, outputEpoch, slotEpoch,
                 sampleRate, slot, gateVars, devPc, msgVars, histVars>>

-------------------------------------------------------------------------------
(* The device thread: prepare(), then callbacks.                           *)

Overlap == overlapped' = (overlapped \/ msgPc \in Setting)

PrepareEpoch ==
  /\ devPc = "stopped" /\ audPc = "out" /\ outputEpoch < MaxPrepares
  /\ outputEpoch' = outputEpoch + 1
  /\ Overlap
  /\ devPc' = "bumped"
  /\ UNCHANGED <<armed, publishedIdle, slotEpoch, sampleRate, slot, gateVars, audVars,
                 msgVars, swapRaced, slotOverlapped>>

PrepareDisarm ==
  /\ devPc = "bumped"
  /\ armed' = FALSE
  /\ devPc' = "disarmed"
  /\ UNCHANGED <<publishedIdle, outputEpoch, slotEpoch, sampleRate, slot, gateVars,
                 audVars, msgVars, histVars>>

PrepareRate ==
  /\ devPc = "disarmed"
  /\ sampleRate' = outputEpoch
  /\ Overlap
  /\ devPc' = "rated"
  /\ UNCHANGED <<armed, publishedIdle, outputEpoch, slotEpoch, slot, gateVars, audVars,
                 msgVars, swapRaced, slotOverlapped>>

\* The gates are silent; quiescence is published; the callback is inserted.
PrepareGates ==
  /\ devPc = "rated"
  /\ master' = Reset(master)
  /\ gates' = [c \in Outputs |-> Reset(gates[c])]
  /\ publishedIdle' = TRUE
  /\ devPc' = "running"
  /\ UNCHANGED <<armed, outputEpoch, slotEpoch, sampleRate, slot, audVars, msgVars,
                 histVars>>

\* External (JUCE): the device stops between two callbacks.
DeviceStop ==
  /\ devPc = "running" /\ audPc = "out"
  /\ devPc' = "stopped"
  /\ UNCHANGED <<engVars, gateVars, audVars, msgVars, histVars>>

-------------------------------------------------------------------------------
(* The message thread.                                                     *)

\* The caller builds a source for the rate it reads, then calls setSource.
BuildSource ==
  /\ msgPc = "idle"
  /\ msgSource' = sampleRate
  /\ msgResult' = "none"
  /\ overlapped' = (devPc \in Preparing)
  /\ msgPc' = "built"
  /\ UNCHANGED <<msgEpoch, arms, engVars, gateVars, audVars, devPc, swapRaced,
                 slotOverlapped>>

\* sourceIsQuiescent, first half: what the callback published.
SetIdleLoad ==
  /\ msgPc = "built"
  /\ IF publishedIdle THEN msgPc' = "idleSeen" /\ UNCHANGED msgResult
                      ELSE msgPc' = "idle" /\ msgResult' = "refused"
  /\ swapRaced' = (audPc # "out" /\ armedNow)
  /\ UNCHANGED <<msgSource, msgEpoch, arms, engVars, gateVars, audVars, devPc,
                 overlapped, slotOverlapped>>

\* Second half: disarmed.
SetArmedLoad ==
  /\ msgPc = "idleSeen"
  /\ IF ~armed THEN msgPc' = "writing" /\ UNCHANGED msgResult
               ELSE msgPc' = "idle" /\ msgResult' = "refused"
  /\ UNCHANGED <<msgSource, msgEpoch, arms, engVars, gateVars, audVars, devPc, histVars>>

\* The move-assignment of the slot, over once this step is taken.
SetWrite ==
  /\ msgPc = "writing"
  /\ slot' = msgSource
  /\ msgPc' = "written"
  /\ UNCHANGED <<msgSource, msgEpoch, msgResult, arms, armed, publishedIdle, outputEpoch,
                 slotEpoch, sampleRate, gateVars, audVars, devPc, histVars>>

SetEpochLoad ==
  /\ msgPc = "written"
  /\ msgEpoch' = outputEpoch
  /\ msgPc' = "epochLoaded"
  /\ UNCHANGED <<msgSource, msgResult, arms, engVars, gateVars, audVars, devPc, histVars>>

SetEpochStore ==
  /\ msgPc = "epochLoaded"
  /\ slotEpoch' = msgEpoch
  /\ slotOverlapped' = overlapped
  /\ msgPc' = "idle"
  /\ msgResult' = "set"
  /\ UNCHANGED <<msgSource, msgEpoch, arms, armed, publishedIdle, outputEpoch, sampleRate,
                 slot, gateVars, audVars, devPc, swapRaced, overlapped>>

Arm ==
  /\ msgPc = "idle" /\ ~armed /\ arms < MaxArms
  /\ armed' = TRUE
  /\ arms' = arms + 1
  /\ UNCHANGED <<msgPc, msgSource, msgEpoch, msgResult, publishedIdle, outputEpoch,
                 slotEpoch, sampleRate, slot, gateVars, audVars, devPc, histVars>>

Disarm ==
  /\ msgPc = "idle"
  /\ armed' = FALSE
  /\ UNCHANGED <<publishedIdle, outputEpoch, slotEpoch, sampleRate, slot, gateVars,
                 audVars, devPc, msgVars, histVars>>

\* routeOutput: the gate's target (and the role, which nothing here reads).
Route(c, on) ==
  /\ msgPc = "idle"
  /\ gates' = [gates EXCEPT ![c].target = on]
  /\ UNCHANGED <<engVars, master, audVars, devPc, msgVars, histVars>>

-------------------------------------------------------------------------------
Render == RenderBegin \/ RenderDecide \/ RenderClear \/ RenderChunk \/ RenderPublish
Device == PrepareEpoch \/ PrepareDisarm \/ PrepareRate \/ PrepareGates \/ DeviceStop
SetSource == SetIdleLoad \/ SetArmedLoad \/ SetWrite \/ SetEpochLoad \/ SetEpochStore
Message == \/ BuildSource \/ SetSource \/ Arm \/ Disarm
           \/ \E c \in Outputs, on \in BOOLEAN : Route(c, on)

Next == Render \/ Device \/ Message

Spec == Init /\ [][Next]_vars

\* A running device goes on calling back.
FairSpec == Spec /\ WF_vars(Render)

-------------------------------------------------------------------------------
\* Every variable keeps its type; a gate's position stays on its ramp.
TypeOK ==
  /\ armed \in BOOLEAN /\ publishedIdle \in BOOLEAN
  /\ outputEpoch \in Nat /\ slotEpoch \in Nat /\ sampleRate \in Nat /\ slot \in Nat
  /\ master \in Gates /\ gates \in [Outputs -> Gates]
  /\ audPc \in {"out", "epoch", "visit", "clear", "publish"}
  /\ armedNow \in BOOLEAN /\ wantsPlaying \in BOOLEAN /\ chunksLeft \in Nat
  /\ devPc \in {"stopped", "running"} \cup Preparing
  /\ msgPc \in {"idle"} \cup Setting
  /\ msgSource \in Nat /\ msgEpoch \in Nat /\ msgResult \in {"none", "refused", "set"}
  /\ arms \in Nat
  /\ swapRaced \in BOOLEAN /\ overlapped \in BOOLEAN /\ slotOverlapped \in BOOLEAN

\* setSource writes the slot only while the callback does not visit it and the
\* master gate is silent (or prepare() is about to silence it), so a swap is
\* exclusive and click-free (record l7-output-path, section 4), unless its check
\* fell inside a block that had read armed: publishedIdle is replaced at the end
\* of a block only.
SwapExclusive ==
  msgPc = "writing" /\ ~swapRaced =>
    audPc # "visit" /\ (master.pos = 0 \/ devPc \in Preparing)

\* A source plays only at the rate it was built for, when no prepare() overlapped
\* the setSource that installed it.
RateMatches ==
  audPc = "visit" /\ wantsPlaying /\ ~slotOverlapped => slot = sampleRate

\* While the device renders, a disarmed engine becomes quiescent, so a client that
\* waits for sourceIsQuiescent before its next setSource is not waiting for ever.
BecomesQuiescent ==
  (~armed /\ devPc = "running") ~> (publishedIdle \/ armed \/ devPc # "running")

\* The engine: a source is exchanged only under silence the callback has reported, and what plays
\* was made for the rate in force.
EngineInv == TypeOK /\ SwapExclusive /\ RateMatches
===============================================================================
