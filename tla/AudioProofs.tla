----------------------------- MODULE AudioProofs ------------------------------
(***************************************************************************)
(* Proofs about the two sides of the audio callback, for every value of    *)
(* the constants: OutputEngine, the source slot and its gates;             *)
(* SyntheticFeed, the thread that stands in for a device; and DeviceSetup, *)
(* the device, the tables drawn from it and the fault line that tells of   *)
(* its input.  Division and remainder are SampleRingProofs' lemmas.        *)
(***************************************************************************)
EXTENDS OutputEngine, SyntheticFeed, DeviceSetup, SampleRingProofs, FiniteSetTheorems, WellFoundedInduction

-------------------------------------------------------------------------------
(* OutputEngine: the exclusion of a source swap and a render, and the match *)
(* of a playing source with the device's rate.                             *)

\* Callbacks run only between prepare and stop, and a block that is rendered has
\* chunks left; a gate is at the start of its ramp when it is Idle.
CallbackBounds ==
  /\ audPc # "out" => devPc = "running"
  /\ audPc = "visit" => chunksLeft > 0
  /\ master.state = "Idle" => master.pos = 0

\* What the callback published is true of the master gate until a block that
\* plays replaces it: publishedIdle is late only in such a block.
IdleIsCurrent ==
  /\ publishedIdle /\ audPc \in {"out", "epoch", "clear"} => master.state = "Idle"
  /\ audPc = "clear" => master.state = "Idle"
  /\ audPc \in {"visit", "publish"} /\ publishedIdle => wantsPlaying
  /\ audPc \in {"visit", "publish"} /\ wantsPlaying => armedNow

\* No block in progress will visit the slot, and the master gate is silent or
\* prepare() is about to silence it.
Silent ==
  /\ audPc \in {"out", "epoch", "clear"}
  /\ audPc = "epoch" => ~armedNow
  /\ master.state = "Idle" \/ devPc \in {"disarmed", "rated"}

\* From setSource's look at publishedIdle on, a disarmed engine stays silent.
QuietWhileSetting ==
  /\ msgPc = "writing" => ~armed
  /\ msgPc \in {"idleSeen", "writing"} /\ ~swapRaced /\ ~armed => Silent

\* A setSource that no prepare() overlapped knows the rate and the epoch in force.
SettingIsCurrent ==
  /\ devPc \notin {"bumped", "disarmed"} => sampleRate = outputEpoch
  /\ msgPc \in Setting /\ ~overlapped =>
       /\ devPc \notin Preparing
       /\ msgSource = sampleRate
       /\ msgPc \in {"written", "epochLoaded"} => slot = msgSource
       /\ msgPc = "epochLoaded" => msgEpoch = outputEpoch

\* A source labelled with the epoch in force, by a setSource that no prepare()
\* overlapped, was built for the rate in force; a playing block has such a label.
SlotIsCurrent ==
  /\ slotEpoch <= outputEpoch /\ msgEpoch <= outputEpoch
  /\ slotEpoch = outputEpoch /\ ~slotOverlapped =>
       /\ devPc \notin Preparing
       /\ slot = sampleRate
       /\ msgPc \in Setting => ~overlapped
  /\ audPc = "visit" /\ wantsPlaying => slotEpoch = outputEpoch \/ slotOverlapped

\* The inductive invariant.
EngineIInv ==
  /\ TypeOK /\ CallbackBounds /\ IdleIsCurrent /\ QuietWhileSetting
  /\ SettingIsCurrent /\ SlotIsCurrent

-------------------------------------------------------------------------------
\* RampedGain::nextGain keeps a gate on its ramp, and Idle at its start.
LEMMA AdvanceType ==
  ASSUME NEW g \in Gates
  PROVE  /\ Advance(g) \in Gates
         /\ (g.state = "Idle" => g.pos = 0) => (Advance(g).state = "Idle" => Advance(g).pos = 0)
<1> USE OutputEngineAssumption DEF Gates, GateStates
<1>1. Turned(g) \in GateStates /\ (Turned(g) \in {"Idle", "Running"} => Turned(g) = g.state)
  BY DEF Turned
<1>2. CASE Turned(g) = "Rising" /\ g.pos + 1 >= RampLen
  <2>1. Advance(g) = MovedTo(g, RampLen, "Running")
    BY <1>2 DEF Advance
  <2> QED BY <2>1 DEF MovedTo
<1>3. CASE Turned(g) = "Rising" /\ ~(g.pos + 1 >= RampLen)
  <2>1. Advance(g) = MovedTo(g, g.pos + 1, "Rising")
    BY <1>3 DEF Advance
  <2> QED BY <2>1, <1>3 DEF MovedTo
<1>4. CASE Turned(g) = "Falling" /\ g.pos <= 1
  <2>1. Advance(g) = MovedTo(g, 0, "Idle")
    BY <1>4 DEF Advance
  <2> QED BY <2>1 DEF MovedTo
<1>5. CASE Turned(g) = "Falling" /\ ~(g.pos <= 1)
  <2>1. Advance(g) = MovedTo(g, g.pos - 1, "Falling")
    BY <1>5 DEF Advance
  <2> QED BY <2>1, <1>5 DEF MovedTo
<1>6. CASE Turned(g) \in {"Idle", "Running"}
  <2>1. Advance(g) = g
    BY <1>6 DEF Advance
  <2> QED BY <2>1
<1> QED BY <1>1, <1>2, <1>3, <1>4, <1>5, <1>6

\* Every step keeps the types (the gates stay on their ramps).
LEMMA TypeStep == EngineIInv /\ [Next]_vars => TypeOK'
<1> SUFFICES ASSUME EngineIInv, [Next]_vars PROVE TypeOK'
  OBVIOUS
<1> USE OutputEngineAssumption DEF EngineIInv, TypeOK, engVars, gateVars, audVars, msgVars, histVars
<1>1. ASSUME RenderBegin PROVE TypeOK'
  BY <1>1 DEF RenderBegin
<1>2. ASSUME RenderDecide PROVE TypeOK'
  <2>1. wantsPlaying' \in BOOLEAN
    BY <1>2 DEF RenderDecide
  <2>2. master' \in Gates
    BY <1>2, <2>1 DEF RenderDecide, Gates
  <2>3. audPc' \in {"visit", "clear"} /\ chunksLeft' \in Nat
    BY <1>2 DEF RenderDecide
  <2> QED BY <1>2, <2>1, <2>2, <2>3 DEF RenderDecide
<1>3. ASSUME RenderClear PROVE TypeOK'
  BY <1>3 DEF RenderClear
<1>4. ASSUME RenderChunk PROVE TypeOK'
  <2>1. master' \in Gates /\ gates' \in [Outputs -> Gates]
    BY <1>4, AdvanceType DEF RenderChunk
  <2>2. chunksLeft' \in Nat /\ audPc' \in {"visit", "publish"}
    BY <1>4 DEF RenderChunk, CallbackBounds
  <2> QED BY <1>4, <2>1, <2>2 DEF RenderChunk
<1>5. ASSUME RenderPublish PROVE TypeOK'
  <2>1. publishedIdle' \in BOOLEAN
    BY <1>5 DEF RenderPublish
  <2> QED BY <1>5, <2>1 DEF RenderPublish
<1>6. ASSUME PrepareEpoch PROVE TypeOK'
  <2>1. overlapped' \in BOOLEAN
    BY <1>6 DEF PrepareEpoch, Overlap
  <2> QED BY <1>6, <2>1 DEF PrepareEpoch, Preparing
<1>7. ASSUME PrepareDisarm PROVE TypeOK'
  BY <1>7, ZenonT(40) DEF PrepareDisarm, Preparing
<1>8. ASSUME PrepareRate PROVE TypeOK'
  <2>1. overlapped' \in BOOLEAN
    BY <1>8 DEF PrepareRate, Overlap
  <2> QED BY <1>8, <2>1 DEF PrepareRate, Preparing
<1>9. ASSUME PrepareGates PROVE TypeOK'
  <2>1. ASSUME NEW g \in Gates PROVE Reset(g) \in Gates
    BY DEF Reset, MovedTo, Gates, GateStates
  <2>2. master' \in Gates /\ gates' \in [Outputs -> Gates]
    BY <1>9, <2>1 DEF PrepareGates
  <2> QED BY <1>9, <2>2 DEF PrepareGates
<1>10. ASSUME DeviceStop PROVE TypeOK'
  BY <1>10 DEF DeviceStop
<1>11. ASSUME BuildSource PROVE TypeOK'
  <2>1. overlapped' \in BOOLEAN
    BY <1>11 DEF BuildSource
  <2> QED BY <1>11, <2>1 DEF BuildSource, Setting
<1>12. ASSUME SetIdleLoad PROVE TypeOK'
  <2>1. swapRaced' \in BOOLEAN
    BY <1>12 DEF SetIdleLoad
  <2>2. msgPc' \in {"idle", "idleSeen"} /\ msgResult' \in {"none", "refused", "set"}
    BY <1>12 DEF SetIdleLoad
  <2> QED BY <1>12, <2>1, <2>2 DEF SetIdleLoad, Setting
<1>13. ASSUME SetArmedLoad PROVE TypeOK'
  <2>1. msgPc' \in {"idle", "writing"} /\ msgResult' \in {"none", "refused", "set"}
    BY <1>13 DEF SetArmedLoad
  <2> QED BY <1>13, <2>1 DEF SetArmedLoad, Setting
<1>14. ASSUME SetWrite PROVE TypeOK'
  BY <1>14 DEF SetWrite, Setting
<1>15. ASSUME SetEpochLoad PROVE TypeOK'
  BY <1>15 DEF SetEpochLoad, Setting
<1>16. ASSUME SetEpochStore PROVE TypeOK'
  BY <1>16 DEF SetEpochStore
<1>17. ASSUME Arm PROVE TypeOK'
  BY <1>17 DEF Arm
<1>18. ASSUME Disarm PROVE TypeOK'
  BY <1>18, ZenonT(40) DEF Disarm
<1>19. ASSUME NEW c \in Outputs, NEW on \in BOOLEAN, Route(c, on) PROVE TypeOK'
  <2>1. [gates[c] EXCEPT !.target = on] \in Gates
    BY DEF Gates
  <2>2. gates' = [gates EXCEPT ![c] = [gates[c] EXCEPT !.target = on]]
    BY <1>19 DEF Route
  <2>3. gates' \in [Outputs -> Gates]
    BY <2>1, <2>2
  <2> QED BY <1>19, <2>3 DEF Route
<1>20. CASE UNCHANGED vars
  BY <1>20 DEF vars
<1> QED
  BY <1>1, <1>2, <1>3, <1>4, <1>5, <1>6, <1>7, <1>8, <1>9, <1>10, <1>11, <1>12, <1>13,
     <1>14, <1>15, <1>16, <1>17, <1>18, <1>19, <1>20
  DEF Next, Render, Device, Message, SetSource

\* Every step keeps what ties a block, the device and the published flag together.
LEMMA CallbackStep == EngineIInv /\ [Next]_vars => (CallbackBounds /\ IdleIsCurrent)'
<1> SUFFICES ASSUME EngineIInv, [Next]_vars PROVE (CallbackBounds /\ IdleIsCurrent)'
  OBVIOUS
<1> USE OutputEngineAssumption DEF EngineIInv, TypeOK, CallbackBounds, IdleIsCurrent, engVars, gateVars, audVars, msgVars, histVars
<1>1. ASSUME RenderBegin PROVE (CallbackBounds /\ IdleIsCurrent)'
  BY <1>1 DEF RenderBegin
<1>2. ASSUME RenderDecide PROVE (CallbackBounds /\ IdleIsCurrent)'
  <2>1. master'.state = master.state /\ master'.pos = master.pos
    BY <1>2 DEF RenderDecide, Gates
  <2>2. audPc' = "visit" => chunksLeft' > 0
    BY <1>2 DEF RenderDecide
  <2>3. audPc' = "clear" => master.state = "Idle"
    BY <1>2 DEF RenderDecide
  <2>4. audPc' \in {"visit", "clear"} /\ (audPc' = "visit" => wantsPlaying' \/ master.state # "Idle")
    BY <1>2 DEF RenderDecide
  <2>5. wantsPlaying' => armedNow'
    BY <1>2 DEF RenderDecide
  <2> QED BY <1>2, <2>1, <2>2, <2>3, <2>4, <2>5 DEF RenderDecide
<1>3. ASSUME RenderClear PROVE (CallbackBounds /\ IdleIsCurrent)'
  BY <1>3 DEF RenderClear
<1>4. ASSUME RenderChunk PROVE (CallbackBounds /\ IdleIsCurrent)'
  <2>1. master.state = "Idle" => master.pos = 0
    OBVIOUS
  <2>2. master' = Advance(master) /\ master \in Gates
    BY <1>4 DEF RenderChunk
  <2>3. master'.state = "Idle" => master'.pos = 0
    BY <2>1, <2>2, AdvanceType
  <2> QED BY <1>4, <2>3 DEF RenderChunk
<1>5. ASSUME RenderPublish PROVE (CallbackBounds /\ IdleIsCurrent)'
  BY <1>5 DEF RenderPublish
<1>6. ASSUME PrepareEpoch PROVE (CallbackBounds /\ IdleIsCurrent)'
  BY <1>6 DEF PrepareEpoch, Preparing
<1>7. ASSUME PrepareDisarm PROVE (CallbackBounds /\ IdleIsCurrent)'
  BY <1>7 DEF PrepareDisarm, Preparing
<1>8. ASSUME PrepareRate PROVE (CallbackBounds /\ IdleIsCurrent)'
  BY <1>8 DEF PrepareRate, Preparing
<1>9. ASSUME PrepareGates PROVE (CallbackBounds /\ IdleIsCurrent)'
  BY <1>9 DEF PrepareGates, Reset, MovedTo
<1>10. ASSUME DeviceStop PROVE (CallbackBounds /\ IdleIsCurrent)'
  BY <1>10 DEF DeviceStop
<1>11. ASSUME BuildSource PROVE (CallbackBounds /\ IdleIsCurrent)'
  BY <1>11 DEF BuildSource
<1>12. ASSUME SetIdleLoad PROVE (CallbackBounds /\ IdleIsCurrent)'
  BY <1>12 DEF SetIdleLoad
<1>13. ASSUME SetArmedLoad PROVE (CallbackBounds /\ IdleIsCurrent)'
  BY <1>13 DEF SetArmedLoad
<1>14. ASSUME SetWrite PROVE (CallbackBounds /\ IdleIsCurrent)'
  BY <1>14 DEF SetWrite
<1>15. ASSUME SetEpochLoad PROVE (CallbackBounds /\ IdleIsCurrent)'
  BY <1>15 DEF SetEpochLoad
<1>16. ASSUME SetEpochStore PROVE (CallbackBounds /\ IdleIsCurrent)'
  BY <1>16 DEF SetEpochStore
<1>17. ASSUME Arm PROVE (CallbackBounds /\ IdleIsCurrent)'
  BY <1>17 DEF Arm
<1>18. ASSUME Disarm PROVE (CallbackBounds /\ IdleIsCurrent)'
  BY <1>18 DEF Disarm
<1>19. ASSUME NEW c \in Outputs, NEW on \in BOOLEAN, Route(c, on) PROVE (CallbackBounds /\ IdleIsCurrent)'
  BY <1>19 DEF Route
<1>20. CASE UNCHANGED vars
  BY <1>20 DEF vars
<1> QED
  BY <1>1, <1>2, <1>3, <1>4, <1>5, <1>6, <1>7, <1>8, <1>9, <1>10, <1>11, <1>12, <1>13, <1>14, <1>15, <1>16, <1>17, <1>18, <1>19, <1>20
  DEF Next, Render, Device, Message, SetSource

\* Every step keeps the engine quiet under a setSource that was let in.
LEMMA QuietStep == EngineIInv /\ [Next]_vars => QuietWhileSetting'
<1> SUFFICES ASSUME EngineIInv, [Next]_vars PROVE QuietWhileSetting'
  OBVIOUS
<1> USE OutputEngineAssumption DEF EngineIInv, TypeOK, CallbackBounds, IdleIsCurrent, QuietWhileSetting, Silent, engVars, gateVars, audVars, msgVars, histVars
<1>1. ASSUME RenderBegin PROVE QuietWhileSetting'
  BY <1>1 DEF RenderBegin
<1>2. ASSUME RenderDecide PROVE QuietWhileSetting'
  <2>1. master'.state = master.state
    BY <1>2 DEF RenderDecide, Gates
  <2> QED BY <1>2, <2>1 DEF RenderDecide
<1>3. ASSUME RenderClear PROVE QuietWhileSetting'
  BY <1>3 DEF RenderClear
<1>4. ASSUME RenderChunk PROVE QuietWhileSetting'
  BY <1>4 DEF RenderChunk
<1>5. ASSUME RenderPublish PROVE QuietWhileSetting'
  BY <1>5 DEF RenderPublish
<1>6. ASSUME PrepareEpoch PROVE QuietWhileSetting'
  BY <1>6 DEF PrepareEpoch
<1>7. ASSUME PrepareDisarm PROVE QuietWhileSetting'
  BY <1>7 DEF PrepareDisarm
<1>8. ASSUME PrepareRate PROVE QuietWhileSetting'
  BY <1>8 DEF PrepareRate
<1>9. ASSUME PrepareGates PROVE QuietWhileSetting'
  BY <1>9 DEF PrepareGates, Reset, MovedTo
<1>10. ASSUME DeviceStop PROVE QuietWhileSetting'
  BY <1>10 DEF DeviceStop
<1>11. ASSUME BuildSource PROVE QuietWhileSetting'
  BY <1>11 DEF BuildSource
<1>12. ASSUME SetIdleLoad PROVE QuietWhileSetting'
  BY <1>12 DEF SetIdleLoad
<1>13. ASSUME SetArmedLoad PROVE QuietWhileSetting'
  BY <1>13 DEF SetArmedLoad
<1>14. ASSUME SetWrite PROVE QuietWhileSetting'
  BY <1>14 DEF SetWrite
<1>15. ASSUME SetEpochLoad PROVE QuietWhileSetting'
  BY <1>15 DEF SetEpochLoad
<1>16. ASSUME SetEpochStore PROVE QuietWhileSetting'
  BY <1>16 DEF SetEpochStore
<1>17. ASSUME Arm PROVE QuietWhileSetting'
  BY <1>17 DEF Arm
<1>18. ASSUME Disarm PROVE QuietWhileSetting'
  BY <1>18 DEF Disarm
<1>19. ASSUME NEW c \in Outputs, NEW on \in BOOLEAN, Route(c, on) PROVE QuietWhileSetting'
  BY <1>19 DEF Route
<1>20. CASE UNCHANGED vars
  BY <1>20 DEF vars
<1> QED
  BY <1>1, <1>2, <1>3, <1>4, <1>5, <1>6, <1>7, <1>8, <1>9, <1>10, <1>11, <1>12, <1>13, <1>14, <1>15, <1>16, <1>17, <1>18, <1>19, <1>20
  DEF Next, Render, Device, Message, SetSource

\* Every step keeps a slot's label true.
LEMMA RateStep == EngineIInv /\ [Next]_vars => (SettingIsCurrent /\ SlotIsCurrent)'
<1> SUFFICES ASSUME EngineIInv, [Next]_vars PROVE (SettingIsCurrent /\ SlotIsCurrent)'
  OBVIOUS
<1> USE OutputEngineAssumption DEF EngineIInv, TypeOK, CallbackBounds, SettingIsCurrent, SlotIsCurrent, Setting, Preparing, Overlap, EpochOk, engVars, gateVars, audVars, msgVars, histVars
<1>1. ASSUME RenderBegin PROVE (SettingIsCurrent /\ SlotIsCurrent)'
  BY <1>1 DEF RenderBegin
<1>2. ASSUME RenderDecide PROVE (SettingIsCurrent /\ SlotIsCurrent)'
  BY <1>2 DEF RenderDecide
<1>3. ASSUME RenderClear PROVE (SettingIsCurrent /\ SlotIsCurrent)'
  BY <1>3 DEF RenderClear
<1>4. ASSUME RenderChunk PROVE (SettingIsCurrent /\ SlotIsCurrent)'
  BY <1>4 DEF RenderChunk
<1>5. ASSUME RenderPublish PROVE (SettingIsCurrent /\ SlotIsCurrent)'
  BY <1>5 DEF RenderPublish
<1>6. ASSUME PrepareEpoch PROVE (SettingIsCurrent /\ SlotIsCurrent)'
  <2>1. slotEpoch' = slotEpoch /\ msgEpoch' = msgEpoch /\ outputEpoch' = outputEpoch + 1
        /\ audPc' = "out" /\ msgPc' = msgPc /\ devPc' = "bumped"
    BY <1>6 DEF PrepareEpoch
  <2>2. msgPc \in Setting => overlapped'
    BY <1>6 DEF PrepareEpoch
  <2>3. SettingIsCurrent'
    BY <2>1, <2>2
  <2> QED BY <2>1, <2>3
<1>7. ASSUME PrepareDisarm PROVE (SettingIsCurrent /\ SlotIsCurrent)'
  BY <1>7 DEF PrepareDisarm
<1>8. ASSUME PrepareRate PROVE (SettingIsCurrent /\ SlotIsCurrent)'
  BY <1>8 DEF PrepareRate
<1>9. ASSUME PrepareGates PROVE (SettingIsCurrent /\ SlotIsCurrent)'
  BY <1>9 DEF PrepareGates
<1>10. ASSUME DeviceStop PROVE (SettingIsCurrent /\ SlotIsCurrent)'
  BY <1>10 DEF DeviceStop
<1>11. ASSUME BuildSource PROVE (SettingIsCurrent /\ SlotIsCurrent)'
  BY <1>11 DEF BuildSource
<1>12. ASSUME SetIdleLoad PROVE (SettingIsCurrent /\ SlotIsCurrent)'
  BY <1>12 DEF SetIdleLoad
<1>13. ASSUME SetArmedLoad PROVE (SettingIsCurrent /\ SlotIsCurrent)'
  BY <1>13 DEF SetArmedLoad
<1>14. ASSUME SetWrite PROVE (SettingIsCurrent /\ SlotIsCurrent)'
  BY <1>14 DEF SetWrite
<1>15. ASSUME SetEpochLoad PROVE (SettingIsCurrent /\ SlotIsCurrent)'
  BY <1>15 DEF SetEpochLoad
<1>16. ASSUME SetEpochStore PROVE (SettingIsCurrent /\ SlotIsCurrent)'
  BY <1>16 DEF SetEpochStore
<1>17. ASSUME Arm PROVE (SettingIsCurrent /\ SlotIsCurrent)'
  BY <1>17 DEF Arm
<1>18. ASSUME Disarm PROVE (SettingIsCurrent /\ SlotIsCurrent)'
  BY <1>18 DEF Disarm
<1>19. ASSUME NEW c \in Outputs, NEW on \in BOOLEAN, Route(c, on) PROVE (SettingIsCurrent /\ SlotIsCurrent)'
  BY <1>19 DEF Route
<1>20. CASE UNCHANGED vars
  BY <1>20 DEF vars
<1> QED
  BY <1>1, <1>2, <1>3, <1>4, <1>5, <1>6, <1>7, <1>8, <1>9, <1>10, <1>11, <1>12, <1>13, <1>14, <1>15, <1>16, <1>17, <1>18, <1>19, <1>20
  DEF Next, Render, Device, Message, SetSource

\* The invariant holds of every reachable state of the engine.
THEOREM EngineInvariant == Spec => []EngineIInv
<1>1. Init => EngineIInv
  <2> SUFFICES ASSUME Init PROVE EngineIInv
    OBVIOUS
  <2>1. ClosedGate \in Gates
    BY OutputEngineAssumption DEF ClosedGate, Gates, GateStates
  <2>2. TypeOK
    BY <2>1 DEF Init, TypeOK
  <2>3. CallbackBounds /\ IdleIsCurrent
    BY DEF Init, CallbackBounds, IdleIsCurrent, ClosedGate
  <2>4. QuietWhileSetting /\ SettingIsCurrent /\ SlotIsCurrent
    BY DEF Init, QuietWhileSetting, SettingIsCurrent, SlotIsCurrent, Setting, Preparing
  <2> QED BY <2>2, <2>3, <2>4 DEF EngineIInv
<1>2. EngineIInv /\ [Next]_vars => EngineIInv'
  BY TypeStep, CallbackStep, QuietStep, RateStep DEF EngineIInv
<1> QED BY <1>1, <1>2, PTL DEF Spec

\* OutputEngine.cpp: a source is exchanged only where no block visits the slot and the master
\* gate is silent, and what plays was made for the rate in force, for every set of outputs,
\* ramp and block size, outside the two races that SwapExclusive and RateMatches name.
THEOREM EngineIsSafe == Spec => []EngineInv
<1>1. EngineIInv => EngineInv
  <2> SUFFICES ASSUME EngineIInv PROVE EngineInv
    OBVIOUS
  <2>1. SwapExclusive
    BY DEF EngineIInv, QuietWhileSetting, Silent, CallbackBounds, SwapExclusive, Preparing
  <2>2. RateMatches
    BY DEF EngineIInv, SlotIsCurrent, RateMatches
  <2> QED BY <2>1, <2>2 DEF EngineIInv, EngineInv
<1> QED BY <1>1, EngineInvariant, PTL

-------------------------------------------------------------------------------
(* SyntheticFeed: types and the inductive invariant. *)

SyBlocks == [1..SyFrames -> Nat]
SyEngines == [armed : BOOLEAN, idle : BOOLEAN, routes : SUBSET {0, 1}]
SyBuses == [gate : {"down", "raised", "acked"}, fill : [SyChannels -> 0..SyRoom], used : SUBSET SyChannels,
            active : BOOLEAN]
SyFeeds == [pc : {"check", "waiting", "render", "mix", "push", "sleeping", "gone"}, stalled : BOOLEAN,
            waited : 0..SyGiveUp, lag : (-SyBlockMs)..(SyMaxLag + SyBlockMs + 1), exit : BOOLEAN]
SyRendered == [out : [{0, 1} -> SyBlocks], routes : SUBSET {0, 1}, used : SUBSET SyChannels]
SyLines(d) == [history : [1..d -> Nat], cursor : Nat]
SyPairs == Nat \X Nat
SyTapes == [1..SyWindow -> SyPairs]
SyPushes == [ref : SyBlocks, meas : [1..SyFrames -> SyPairs], heard : SyBlocks \cup {<<>>}]
SyDrops == {<<>>} \cup {<<r>> : r \in [stalled : BOOLEAN, moved : BOOLEAN]}
SyLefts == [arms : Nat, resyncs : Nat, roles : Nat, used : SUBSET {0, 1}]

\* The type invariant.  The lag stays between a block early and one step past the re-anchor, and
\* no ring holds more than its room.
SyTypeOK ==
  /\ syEng \in SyEngines /\ syBus \in SyBuses /\ syFeed \in SyFeeds /\ syBlock \in SyRendered
  /\ syPath[0] \in SyLines(SyDelays[1]) /\ syPath[1] \in SyLines(SyDelays[2])
  /\ syTape \in SyTapes /\ syPushed \in SyPushes /\ syDrop \in SyDrops
  /\ syBurst \in Nat /\ syLeft \in SyLefts

\* From the look at the rings to the push, the channels the thread saw in use have room, unless it
\* gave up waiting or a resync will empty them first: nobody else fills a ring.
SyRoomKept ==
  syFeed.pc \in {"render", "mix", "push"} /\ ~syFeed.stalled /\ syBus.gate = "down" =>
     \A ch \in syBlock.used : syBus.fill[ch] < SyRoom

\* A block is made only once it is due; a thread woken early was asked to go.
SyNotEarly ==
  /\ syFeed.pc \in {"waiting", "render", "mix", "push"} => syFeed.lag >= 0
  /\ syFeed.pc = "check" => syFeed.lag >= 0 \/ syFeed.exit

\* Since the clock last moved, every block but the first was paid for out of the allowed lag.
SyLagPaid == syBurst > 0 => syFeed.lag + SyBlockMs * (syBurst - 1) <= SyMaxLag

\* A line of delay d under tape t holds t's last d frames, the oldest under its cursor.
SyHolds(line, d, t, c) ==
  \A k \in 1..d : line.history[((line.cursor + k - 1) % d) + 1] = t[SyWindow - d + k][c]

SyMeasured(p, t) ==
  \A i \in 1..SyFrames :
     /\ p.meas[i][1] = t[SyWindow - SyFrames + i - SyDelays[1]][1]
     /\ p.meas[i][2] = t[SyWindow - SyFrames + i - SyDelays[2]][2]

SyReferred(p) == p.heard # <<>> => p.ref = p.heard

\* The inductive invariant.
SyIInv ==
  /\ SyTypeOK /\ SyRoomKept /\ SyNotEarly /\ SyLagPaid
  /\ SyHolds(syPath[0], SyDelays[1], syTape, 1) /\ SyHolds(syPath[1], SyDelays[2], syTape, 2)
  /\ SyMeasured(syPushed, syTape) /\ SyReferred(syPushed) /\ SyDropsOnlyWhenStalled

-------------------------------------------------------------------------------
(* Naturals, remainders and maxima. *)

\* Every nonempty set of numbers that stop at n has a largest, and Max is it.
LEMMA BoundedMax ==
  ASSUME NEW n \in Nat, NEW S \in SUBSET (1..n), S # {}
  PROVE  Max(S) \in S /\ \A y \in S : Max(S) >= y
<1> DEFINE R == OpToRel(<, Nat)
           T == {m \in Nat : \E x \in S : m = n - x}
<1>1. T \in SUBSET Nat /\ T # {}
  <2>1. PICK x \in S : TRUE
    OBVIOUS
  <2>2. n - x \in T
    OBVIOUS
  <2> QED BY <2>2
<1>2. PICK m \in T : \A y \in T : ~ (<<y, m>> \in R)
  <2>1. IsWellFoundedOn(R, Nat)
    BY NatLessThanWellFounded
  <2> HIDE DEF R, T
  <2> QED BY <1>1, <2>1, WFMin
<1>3. PICK x \in S : m = n - x
  BY <1>2
<1>4. ASSUME NEW y \in S PROVE x >= y
  <2>1. n - y \in T
    OBVIOUS
  <2>2. m \in Nat /\ n - y \in Nat
    BY <1>2, <2>1
  <2>3. ~(n - y < m)
    <3>1. ~ (<<n - y, m>> \in R)
      BY <1>2, <2>1
    <3> QED BY <2>2, <3>1 DEF OpToRel
  <2> QED BY <1>3, <2>2, <2>3
<1>5. \E z \in S : \A y \in S : z >= y
  BY <1>4
<1> QED BY <1>5 DEF Max

\* A largest member is the Max.
LEMMA MaxIs ==
  ASSUME NEW S \in SUBSET Int, NEW m \in S, \A y \in S : m >= y
  PROVE  Max(S) = m
<1>1. PICK x : x = Max(S)
  OBVIOUS
<1>2. x \in S /\ \A y \in S : x >= y
  BY <1>1 DEF Max
<1>3. x >= m /\ m >= x /\ x \in Int /\ m \in Int
  BY <1>2
<1> QED BY <1>1, <1>3

\* Numbers less than d apart have different remainders.
LEMMA ModApart ==
  ASSUME NEW d \in Nat \ {0}, NEW x \in Nat, NEW y \in Nat, x < y, y - x < d
  PROVE  x % d # y % d
<1> SUFFICES ASSUME x % d = y % d PROVE FALSE
  OBVIOUS
<1> DEFINE p == x \div d
           q == y \div d
<1>1. p \in Int /\ q \in Int /\ x % d \in Int /\ x = d * p + (x % d) /\ y = d * q + (x % d)
  BY DivMod
<1> HIDE DEF p, q
<1>2. d * q - d * p = d * (q - p) /\ d * q \in Int /\ d * p \in Int
  BY <1>1
<1>3. y - x = d * (q - p)
  BY <1>1, <1>2
<1>4. q - p \in Int /\ (q - p >= 1 \/ q - p <= 0)
  BY <1>1
<1>5. CASE q - p >= 1
  BY <1>3, <1>4, <1>5, Multiple
<1>6. CASE q - p <= 0
  <2>1. d * (q - p) <= 0
    BY <1>4, <1>6
  <2> QED BY <1>3, <2>1
<1> QED BY <1>4, <1>5, <1>6

\* Going once round does not change the slot.
LEMMA ModRound ==
  ASSUME NEW d \in Nat \ {0}, NEW x \in Nat
  PROVE  (x + d) % d = x % d
<1> DEFINE q == x \div d
           a == x % d
<1>1. q \in Int /\ a \in 0..(d - 1) /\ x = d * q + a
  BY DivMod
<1> HIDE DEF q, a
<1>2. PICK k \in Int : k = q + 1
  BY <1>1
<1>3. d * k = d * q + d /\ d * q \in Int
  BY <1>1, <1>2
<1>4. x + d \in Int /\ x + d = d * k + a
  BY <1>1, <1>3
<1>5. (x + d) % d = a
  BY <1>1, <1>4, ModIs
<1> QED BY <1>5 DEF a

\* A remainder may be taken before a sum or after it.
LEMMA ModAdd ==
  ASSUME NEW d \in Nat \ {0}, NEW x \in Nat, NEW i \in Nat
  PROVE  ((x % d) + i) % d = (x + i) % d
<1> DEFINE q == x \div d
           a == x % d
<1>1. q \in Int /\ a \in Nat /\ x = d * q + a
  BY DivMod
<1> HIDE DEF q, a
<1>2. a + i \in Int
  BY <1>1
<1>3. ((a + i) + d * q) % d = (a + i) % d
  BY <1>1, <1>2, ModShift
<1>4. d * q \in Int
  BY <1>1
<1>5. (a + i) + d * q = x + i
  BY <1>1, <1>4
<1> QED BY <1>3, <1>5 DEF a

-------------------------------------------------------------------------------
(* DelayLine::process. *)

\* The delays fit the window the tape keeps.
LEMMA SyWindowFits ==
  /\ SyFrames \in Nat \ {0} /\ SyWindow \in Nat /\ SyDelays[1] \in Nat /\ SyDelays[2] \in Nat
  /\ SyDelays[1] + SyFrames <= SyWindow /\ SyDelays[2] + SyFrames <= SyWindow
<1>1. SyFrames \in Nat \ {0} /\ SyDelays[1] \in Nat /\ SyDelays[2] \in Nat
  BY SyAssumption
<1>2. PICK a \in Nat, b \in Nat : a = SyDelays[1] /\ b = SyDelays[2]
  BY <1>1
<1>3. PICK m : m = Max({a, b})
  OBVIOUS
<1>4. m \in {a, b} /\ m >= a /\ m >= b
  <2>1. \E x \in {a, b} : \A y \in {a, b} : x >= y
    OBVIOUS
  <2> QED BY <1>3, <2>1 DEF Max
<1>5. SyWindow = m + SyFrames
  BY <1>2, <1>3 DEF SyWindow
<1> QED BY <1>1, <1>2, <1>4, <1>5

\* The slot sample i meets.
SySlot(line, d, i) == (line.cursor + i - 1) % d

\* The samples of the block that met sample i's slot before it, and those that meet slot k.
SyBefore(line, d, i) == {j \in 1..(i - 1) : SySlot(line, d, j) = SySlot(line, d, i)}
SyHere(line, d, k) == {i \in 1..SyFrames : SySlot(line, d, i) = k - 1}

\* What process() returns, sample by sample.
LEMMA DelayLineOuts ==
  ASSUME NEW d \in Nat \ {0}, NEW line \in SyLines(d), NEW in \in SyBlocks, NEW i \in 1..SyFrames,
         NEW before, before = SyBefore(line, d, i)
  PROVE  delayLine(line, in).out[i] =
            IF before = {} THEN line.history[SySlot(line, d, i) + 1] ELSE in[Max(before)]
<1>1. line.history \in [1..d -> Nat] /\ line.cursor \in Nat
  BY DEF SyLines
<1>2. Len(line.history) = d
  BY <1>1
<1>3. Len(in) = SyFrames
  BY SyWindowFits DEF SyBlocks
<1> QED BY <1>2, <1>3, Zenon DEF delayLine, SySlot, SyBefore

\* What it leaves behind, slot by slot.
LEMMA DelayLineIs ==
  ASSUME NEW d \in Nat \ {0}, NEW line \in SyLines(d), NEW in \in SyBlocks, NEW r, r = delayLine(line, in)
  PROVE  r.line = [cursor |-> (line.cursor + SyFrames) % d,
                   history |-> [k \in 1..d |-> IF SyHere(line, d, k) = {} THEN line.history[k]
                                               ELSE in[Max(SyHere(line, d, k))]]]
<1>1. line.history \in [1..d -> Nat] /\ line.cursor \in Nat
  BY DEF SyLines
<1>2. Len(line.history) = d
  BY <1>1
<1>3. Len(in) = SyFrames
  BY SyWindowFits DEF SyBlocks
<1> QED BY <1>2, <1>3, Zenon DEF delayLine, SySlot, SyHere

\* Slots of the samples of a block: the same exactly after a whole round.
LEMMA SlotFacts ==
  ASSUME NEW d \in Nat \ {0}, NEW line, line.cursor \in Nat
  PROVE  /\ \A i \in Nat \ {0} : SySlot(line, d, i) \in 0..(d - 1)
         /\ \A i \in Nat \ {0}, j \in Nat \ {0} : j < i /\ i - j < d => SySlot(line, d, j) # SySlot(line, d, i)
         /\ \A i \in Nat \ {0} : SySlot(line, d, i + d) = SySlot(line, d, i)
<1>1. PICK p \in Nat : p = line.cursor
  OBVIOUS
<1>2. ASSUME NEW i \in Nat \ {0} PROVE SySlot(line, d, i) \in 0..(d - 1)
  <2>1. p + i - 1 \in Int
    OBVIOUS
  <2> QED BY <1>1, <2>1, DivMod DEF SySlot
<1>3. ASSUME NEW i \in Nat \ {0}, NEW j \in Nat \ {0}, j < i, i - j < d
      PROVE  SySlot(line, d, j) # SySlot(line, d, i)
  <2>1. PICK x \in Nat, y \in Nat : x = p + j - 1 /\ y = p + i - 1
    OBVIOUS
  <2>2. x < y /\ y - x < d
    BY <1>3, <2>1
  <2>3. x % d # y % d
    BY <2>2, ModApart
  <2> QED BY <1>1, <2>1, <2>3 DEF SySlot
<1>4. ASSUME NEW i \in Nat \ {0} PROVE SySlot(line, d, i + d) = SySlot(line, d, i)
  <2>1. PICK x \in Nat : x = p + i - 1
    OBVIOUS
  <2>2. p + (i + d) - 1 = x + d
    BY <2>1
  <2>3. (x + d) % d = x % d
    BY ModRound
  <2> QED BY <1>1, <2>1, <2>2, <2>3 DEF SySlot
<1> QED BY <1>2, <1>3, <1>4

\* A tape moved on by one block, as far as one output is concerned.
SyMoved(t, u, in, c) ==
  \A k \in 1..SyWindow : u[k][c] = IF k + SyFrames <= SyWindow THEN t[k + SyFrames][c] ELSE in[k + SyFrames - SyWindow]

\* What comes out of a line of delay d is what went in d frames earlier.
LEMMA DelayLineOut ==
  ASSUME NEW d \in Nat \ {0}, d + SyFrames <= SyWindow, NEW line \in SyLines(d), NEW in \in SyBlocks,
         NEW t, NEW u, NEW c, SyHolds(line, d, t, c), SyMoved(t, u, in, c), NEW r, r = delayLine(line, in),
         NEW i \in 1..SyFrames
  PROVE  r.out[i] = u[SyWindow - SyFrames + i - d][c] /\ r.out[i] \in Nat
<1>1. SyFrames \in Nat \ {0} /\ SyWindow \in Nat
  BY SyWindowFits
<1>2. line.history \in [1..d -> Nat] /\ line.cursor \in Nat
  BY DEF SyLines
<1>3. PICK before : before = SyBefore(line, d, i)
  OBVIOUS
<1>4. r.out[i] = IF before = {} THEN line.history[SySlot(line, d, i) + 1] ELSE in[Max(before)]
  <2>1. delayLine(line, in).out[i] = IF before = {} THEN line.history[SySlot(line, d, i) + 1] ELSE in[Max(before)]
    BY <1>3, DelayLineOuts
  <2> QED BY <2>1
<1>5. PICK k : k = SyWindow - SyFrames + i - d
  OBVIOUS
<1>6. k \in 1..SyWindow /\ k + SyFrames = SyWindow + i - d
  BY <1>1, <1>5
<1>7. u[k][c] = IF k + SyFrames <= SyWindow THEN t[k + SyFrames][c] ELSE in[k + SyFrames - SyWindow]
  BY <1>6 DEF SyMoved
<1>8. SySlot(line, d, i) \in 0..(d - 1)
  <2>1. i \in Nat \ {0}
    BY <1>1
  <2> QED BY <1>2, <2>1, SlotFacts, Zenon
<1>9. CASE i <= d
  <2>1. before = {}
    <3> SUFFICES ASSUME NEW j \in 1..(i - 1), SySlot(line, d, j) = SySlot(line, d, i) PROVE FALSE
      BY <1>3 DEF SyBefore
    <3>1. j \in Nat \ {0} /\ i \in Nat \ {0} /\ j < i /\ i - j < d
      BY <1>1, <1>9
    <3> QED BY <1>2, <3>1, SlotFacts
  <2>2. r.out[i] = line.history[SySlot(line, d, i) + 1]
    BY <1>4, <2>1
  <2>3. line.history[SySlot(line, d, i) + 1] = t[SyWindow - d + i][c]
    <3>1. i \in 1..d
      BY <1>9
    <3> QED BY <3>1 DEF SyHolds, SySlot
  <2>4. k + SyFrames <= SyWindow /\ k + SyFrames = SyWindow - d + i
    BY <1>1, <1>6, <1>9
  <2>5. line.history[SySlot(line, d, i) + 1] \in Nat
    <3>1. SySlot(line, d, i) + 1 \in 1..d
      BY <1>8
    <3> QED BY <1>2, <3>1
  <2> QED BY <1>5, <1>7, <2>2, <2>3, <2>4, <2>5
<1>10. CASE ~(i <= d)
  <2>1. PICK m : m = i - d
    OBVIOUS
  <2>2. m \in 1..(i - 1) /\ m \in Nat \ {0} /\ m + d = i /\ m \in 1..SyFrames
    BY <1>1, <1>10, <2>1
  <2>3. m \in before
    <3>1. SySlot(line, d, m + d) = SySlot(line, d, m)
      BY <1>2, <2>2, SlotFacts
    <3> QED BY <1>3, <2>2, <3>1 DEF SyBefore
  <2>4. \A j \in before : m >= j
    <3> SUFFICES ASSUME NEW j \in 1..(i - 1), SySlot(line, d, j) = SySlot(line, d, i), j > m PROVE FALSE
      BY <1>3, <2>2 DEF SyBefore
    <3>1. j \in Nat \ {0} /\ i \in Nat \ {0} /\ j < i /\ i - j < d
      BY <1>1, <2>2
    <3> QED BY <1>2, <3>1, SlotFacts
  <2>5. Max(before) = m
    <3>1. before \in SUBSET Int
      BY <1>3 DEF SyBefore
    <3> QED BY <2>3, <2>4, <3>1, MaxIs
  <2>6. r.out[i] = in[m]
    BY <1>4, <2>3, <2>5
  <2>7. ~(k + SyFrames <= SyWindow) /\ k + SyFrames - SyWindow = m
    BY <1>1, <1>6, <1>10, <2>1
  <2>8. in[m] \in Nat
    BY <2>2 DEF SyBlocks
  <2> QED BY <1>5, <1>7, <2>6, <2>7, <2>8
<1> QED BY <1>9, <1>10

\* Afterwards the line holds the last d frames of the tape that has moved on.
LEMMA DelayLineHolds ==
  ASSUME NEW d \in Nat \ {0}, d + SyFrames <= SyWindow, NEW line \in SyLines(d), NEW in \in SyBlocks,
         NEW t, NEW u, NEW c, SyHolds(line, d, t, c), SyMoved(t, u, in, c), NEW r, r = delayLine(line, in)
  PROVE  r.line \in SyLines(d) /\ SyHolds(r.line, d, u, c)
<1>1. SyFrames \in Nat \ {0} /\ SyWindow \in Nat
  BY SyWindowFits
<1>2. line.history \in [1..d -> Nat] /\ line.cursor \in Nat
  BY DEF SyLines
<1>3. PICK h, q : /\ h = [k \in 1..d |-> IF SyHere(line, d, k) = {} THEN line.history[k] ELSE in[Max(SyHere(line, d, k))]]
                  /\ q = (line.cursor + SyFrames) % d
  OBVIOUS
<1>4. r.line = [cursor |-> q, history |-> h]
  BY <1>3, DelayLineIs, Zenon
<1>5. \A k \in 1..d : h[k] = IF SyHere(line, d, k) = {} THEN line.history[k] ELSE in[Max(SyHere(line, d, k))]
  BY <1>3, Zenon
<1>6. \A k \in 1..d : h[k] \in Nat
  <2> SUFFICES ASSUME NEW k \in 1..d PROVE h[k] \in Nat
    OBVIOUS
  <2>1. CASE SyHere(line, d, k) = {}
    BY <1>2, <1>5, <2>1
  <2>2. CASE SyHere(line, d, k) # {}
    <3>1. PICK S \in SUBSET (1..SyFrames) : S = SyHere(line, d, k)
      BY DEF SyHere
    <3>2. Max(S) \in S
      BY <1>1, <2>2, <3>1, BoundedMax
    <3>3. in[Max(S)] \in Nat
      BY <3>2 DEF SyBlocks
    <3>4. h[k] = in[Max(S)]
      BY <1>5, <2>2, <3>1, Zenon
    <3> QED BY <3>3, <3>4
  <2> QED BY <2>1, <2>2
<1>7. h \in [1..d -> Nat]
  <2>1. h = [k \in 1..d |-> h[k]]
    BY <1>3, Zenon
  <2> QED BY <1>6, <2>1, Zenon
<1>8. q \in 0..(d - 1) /\ q \in Nat
  <2>1. line.cursor + SyFrames \in Int
    BY <1>1, <1>2
  <2>2. q \in 0..(d - 1)
    BY <1>3, <2>1, DivMod
  <2> QED BY <2>2
<1>9. r.line \in SyLines(d)
  BY <1>4, <1>7, <1>8 DEF SyLines
<1>10. ASSUME NEW m \in 1..d
       PROVE  h[((q + m - 1) % d) + 1] = u[SyWindow - d + m][c]
  <2>1. PICK n : n = SyFrames + m
    OBVIOUS
  <2>2. n \in Nat \ {0}
    BY <1>1, <2>1
  <2>3. (q + m - 1) % d = SySlot(line, d, n)
    <3>1. PICK x \in Nat, j \in Nat : x = line.cursor + SyFrames /\ j = m - 1
      BY <1>1, <1>2
    <3>2. ((x % d) + j) % d = (x + j) % d
      BY ModAdd
    <3>3. q = x % d
      BY <1>3, <3>1
    <3>4. q + m - 1 = q + j /\ line.cursor + n - 1 = x + j
      BY <1>1, <1>2, <1>8, <2>1, <3>1, SMTT(30)
    <3> QED BY <3>2, <3>3, <3>4 DEF SySlot
  <2>4. PICK s : s = SySlot(line, d, n) + 1
    OBVIOUS
  <2>5. s \in 1..d /\ s - 1 = SySlot(line, d, n)
    <3>1. SySlot(line, d, n) \in 0..(d - 1)
      BY <1>2, <2>2, SlotFacts
    <3> QED BY <2>4, <3>1
  <2>6. h[s] = IF SyHere(line, d, s) = {} THEN line.history[s] ELSE in[Max(SyHere(line, d, s))]
    BY <1>5, <2>5, Zenon
  <2>7. PICK k : k = SyWindow - d + m
    OBVIOUS
  <2>8. k \in 1..SyWindow /\ k + SyFrames = SyWindow - d + n
    BY <1>1, <2>1, <2>7
  <2>9. u[k][c] = IF k + SyFrames <= SyWindow THEN t[k + SyFrames][c] ELSE in[k + SyFrames - SyWindow]
    BY <2>8 DEF SyMoved
  <2>10. PICK S : S = {i \in 1..SyFrames : SySlot(line, d, i) = SySlot(line, d, n)}
    OBVIOUS
  <2>11. S = SyHere(line, d, s)
    BY <2>5, <2>10 DEF SyHere
  <2>12. CASE n <= d
    <3>1. S = {}
      <4> SUFFICES ASSUME NEW i \in 1..SyFrames, SySlot(line, d, i) = SySlot(line, d, n) PROVE FALSE
        BY <2>10
      <4>1. i \in Nat \ {0} /\ i < n /\ n - i < d
        BY <1>1, <2>1, <2>12
      <4> QED BY <1>2, <2>2, <4>1, SlotFacts
    <3>2. h[s] = line.history[s]
      BY <2>6, <2>11, <3>1
    <3>3. line.history[s] = t[SyWindow - d + n][c]
      <4>1. n \in 1..d
        BY <2>2, <2>12
      <4> QED BY <2>4, <4>1 DEF SyHolds, SySlot
    <3>4. k + SyFrames <= SyWindow
      BY <1>1, <2>8, <2>12, <2>2
    <3> QED BY <2>3, <2>4, <2>7, <2>8, <2>9, <3>2, <3>3, <3>4
  <2>13. CASE ~(n <= d)
    <3>1. PICK i : i = n - d
      OBVIOUS
    <3>2. i \in 1..SyFrames /\ i \in Nat \ {0} /\ i + d = n
      BY <1>1, <2>1, <2>13, <3>1
    <3>3. i \in S
      <4>1. SySlot(line, d, i + d) = SySlot(line, d, i)
        BY <1>2, <3>2, SlotFacts
      <4> QED BY <2>10, <3>2, <4>1
    <3>4. \A j \in S : i >= j
      <4> SUFFICES ASSUME NEW j \in 1..SyFrames, SySlot(line, d, j) = SySlot(line, d, n), j > i PROVE FALSE
        BY <2>10, <3>2
      <4>1. j \in Nat \ {0} /\ j < n /\ n - j < d
        BY <1>1, <2>1, <3>2
      <4> QED BY <1>2, <2>2, <4>1, SlotFacts
    <3>5. Max(S) = i
      <4>1. S \in SUBSET Int
        BY <2>10
      <4> QED BY <3>3, <3>4, <4>1, MaxIs
    <3>6. h[s] = in[i]
      <4>1. SyHere(line, d, s) # {} /\ Max(SyHere(line, d, s)) = i
        BY <2>11, <3>3, <3>5, Zenon
      <4> QED BY <2>6, <4>1, Zenon
    <3>7. ~(k + SyFrames <= SyWindow) /\ k + SyFrames - SyWindow = i
      BY <1>1, <2>2, <2>8, <2>13, <3>1
    <3> QED BY <2>3, <2>4, <2>7, <2>9, <3>6, <3>7
  <2> QED BY <2>12, <2>13
<1>11. SyHolds(r.line, d, u, c)
  BY <1>4, <1>10 DEF SyHolds
<1> QED BY <1>9, <1>11

-------------------------------------------------------------------------------
(* SyntheticFeed's steps. *)

\* Every step but the mix leaves the lines, the tape and the pushed block alone.
LEMMA SyElsewhere ==
  ASSUME SyIInv, syPath' = syPath, syTape' = syTape, syPushed' = syPushed,
         syEng' \in SyEngines, syBus' \in SyBuses, syFeed' \in SyFeeds, syBlock' \in SyRendered,
         syDrop' \in SyDrops, syBurst' \in Nat, syLeft' \in SyLefts,
         SyRoomKept', SyNotEarly', SyLagPaid', SyDropsOnlyWhenStalled'
  PROVE  SyIInv'
<1>1. SyTypeOK'
  BY DEF SyIInv, SyTypeOK
<1>2. SyHolds(syPath[0], SyDelays[1], syTape, 1)' /\ SyHolds(syPath[1], SyDelays[2], syTape, 2)'
  BY DEF SyIInv, SyHolds
<1>3. SyMeasured(syPushed, syTape)' /\ SyReferred(syPushed)'
  BY DEF SyIInv, SyMeasured, SyReferred
<1> QED BY <1>1, <1>2, <1>3 DEF SyIInv

\* What the look at the rings is worth, when it says there is room.
LEMMA MayPushIs ==
  ASSUME SyTypeOK, mayPush, syBus.gate = "down"
  PROVE  \A ch \in syBus.used : syBus.fill[ch] < SyRoom
BY DEF mayPush, ringsHaveRoom

\* The top of the loop.
LEMMA SyCheckStep == SyIInv /\ SyCheck => SyIInv'
<1> SUFFICES ASSUME SyIInv, SyCheck PROVE SyIInv'
  OBVIOUS
<1>1. SyTypeOK /\ SyNotEarly /\ SyLagPaid /\ SyDropsOnlyWhenStalled
  BY DEF SyIInv
<1>2. /\ syEng' = syEng /\ syBus' = syBus /\ syPath' = syPath /\ syTape' = syTape /\ syPushed' = syPushed
      /\ syDrop' = syDrop /\ syBurst' = syBurst /\ syLeft' = syLeft
  BY DEF SyCheck, SyKept
<1>3. syBlock' \in SyRendered /\ syBlock'.used = syBus.used
  <2>1. syBlock' = [syBlock EXCEPT !.used = syBus.used]
    BY DEF SyCheck
  <2> QED BY <1>1, <2>1 DEF SyTypeOK, SyRendered, SyBuses
<1>4. PICK f : f = syFeed
  OBVIOUS
<1>5. f \in SyFeeds /\ f.pc = "check"
  BY <1>1, <1>4 DEF SyTypeOK, SyCheck
<1>6. /\ syFeed' \in SyFeeds /\ syFeed'.lag = syFeed.lag
      /\ \/ syFeed'.pc = "gone"
         \/ syFeed'.pc = "waiting" /\ ~syFeed.exit
         \/ syFeed'.pc = "render" /\ ~syFeed.exit /\ (syFeed'.stalled \/ mayPush)
  <2>1. CASE syFeed.exit
    <3>1. syFeed' = [f EXCEPT !.pc = "gone"]
      BY <1>4, <2>1 DEF SyCheck, SyGo
    <3> QED BY <1>4, <1>5, <3>1 DEF SyFeeds
  <2>2. CASE ~syFeed.exit /\ mayPush
    <3>1. syFeed' = [f EXCEPT !.pc = "render", !.stalled = FALSE]
      BY <1>4, <2>2 DEF SyCheck
    <3>2. syFeed' = [pc |-> "render", stalled |-> FALSE, waited |-> f.waited, lag |-> f.lag, exit |-> f.exit]
      BY <1>5, <3>1, Zenon DEF SyFeeds
    <3> QED BY <1>4, <1>5, <2>2, <3>2 DEF SyFeeds
  <2>3. CASE ~syFeed.exit /\ ~mayPush /\ syFeed.stalled
    <3>1. syFeed' = [f EXCEPT !.pc = "render"]
      BY <1>4, <2>3 DEF SyCheck, SyGo
    <3> QED BY <1>4, <1>5, <2>3, <3>1 DEF SyFeeds
  <2>4. CASE ~syFeed.exit /\ ~mayPush /\ ~syFeed.stalled
    <3>1. syFeed' = [f EXCEPT !.pc = "waiting", !.waited = 0]
      BY <1>4, <2>4 DEF SyCheck
    <3>2. syFeed' = [pc |-> "waiting", stalled |-> f.stalled, waited |-> 0, lag |-> f.lag, exit |-> f.exit]
      BY <1>5, <3>1, Zenon DEF SyFeeds
    <3>3. 0 \in 0..SyGiveUp
      BY SyAssumption
    <3> QED BY <1>4, <1>5, <2>4, <3>2, <3>3 DEF SyFeeds
  <2> QED BY <2>1, <2>2, <2>3, <2>4
<1>7. SyRoomKept'
  BY <1>1, <1>2, <1>3, <1>6, MayPushIs DEF SyRoomKept
<1>8. SyNotEarly'
  BY <1>1, <1>4, <1>5, <1>6 DEF SyNotEarly
<1>9. SyLagPaid' /\ SyDropsOnlyWhenStalled'
  BY <1>1, <1>2, <1>6 DEF SyLagPaid, SyDropsOnlyWhenStalled
<1>10. /\ syEng' \in SyEngines /\ syBus' \in SyBuses /\ syDrop' \in SyDrops /\ syBurst' \in Nat
       /\ syLeft' \in SyLefts
  BY <1>1, <1>2 DEF SyTypeOK
<1> QED BY <1>2, <1>3, <1>6, <1>7, <1>8, <1>9, <1>10, SyElsewhere

\* The end of the wait for room.
LEMMA SyWaitedStep == SyIInv /\ SyWaited => SyIInv'
<1> SUFFICES ASSUME SyIInv, SyWaited PROVE SyIInv'
  OBVIOUS
<1>1. SyTypeOK /\ SyNotEarly /\ SyLagPaid /\ SyDropsOnlyWhenStalled
  BY DEF SyIInv
<1>2. /\ syEng' = syEng /\ syBus' = syBus /\ syPath' = syPath /\ syTape' = syTape /\ syPushed' = syPushed
      /\ syDrop' = syDrop /\ syBurst' = syBurst /\ syLeft' = syLeft
  BY DEF SyWaited, SyKept
<1>3. syBlock' \in SyRendered /\ syBlock'.used = syBus.used
  <2>1. syBlock' = [syBlock EXCEPT !.used = syBus.used]
    BY DEF SyWaited
  <2> QED BY <1>1, <2>1 DEF SyTypeOK, SyRendered, SyBuses
<1>4. PICK f, pc, stalled : /\ f = syFeed /\ pc = IF syFeed.exit THEN "gone" ELSE "render"
                            /\ stalled = ~mayPush
  OBVIOUS
<1>5. f \in SyFeeds /\ f.pc = "waiting" /\ pc \in {"gone", "render"} /\ stalled \in BOOLEAN
  BY <1>1, <1>4 DEF SyTypeOK, SyWaited
<1>6. syFeed' = [pc |-> pc, stalled |-> stalled, waited |-> 0, lag |-> f.lag, exit |-> f.exit]
  <2>1. syFeed' = [f EXCEPT !.stalled = stalled, !.pc = pc, !.waited = 0]
    BY <1>4 DEF SyWaited
  <2> QED BY <1>5, <2>1, Zenon DEF SyFeeds
<1>7. /\ syFeed' \in SyFeeds /\ syFeed'.lag = syFeed.lag /\ syFeed'.pc \in {"gone", "render"}
      /\ syFeed'.stalled \/ mayPush
  <2>1. 0 \in 0..SyGiveUp
    BY SyAssumption
  <2> QED BY <1>4, <1>5, <1>6, <2>1 DEF SyFeeds
<1>8. SyRoomKept'
  BY <1>1, <1>2, <1>3, <1>7, MayPushIs DEF SyRoomKept
<1>9. SyNotEarly'
  BY <1>1, <1>4, <1>5, <1>7 DEF SyNotEarly
<1>10. SyLagPaid' /\ SyDropsOnlyWhenStalled'
  BY <1>1, <1>2, <1>7 DEF SyLagPaid, SyDropsOnlyWhenStalled
<1>11. /\ syEng' \in SyEngines /\ syBus' \in SyBuses /\ syDrop' \in SyDrops /\ syBurst' \in Nat
       /\ syLeft' \in SyLefts
  BY <1>1, <1>2 DEF SyTypeOK
<1> QED BY <1>2, <1>3, <1>7, <1>8, <1>9, <1>10, <1>11, SyElsewhere

\* A block the engine rendered.
LEMMA SyRenderStep == SyIInv /\ SyRender => SyIInv'
<1> SUFFICES ASSUME SyIInv, SyRender PROVE SyIInv'
  OBVIOUS
<1>1. SyTypeOK /\ SyNotEarly /\ SyLagPaid /\ SyDropsOnlyWhenStalled /\ SyRoomKept
  BY DEF SyIInv
<1>2. /\ syBus' = syBus /\ syPath' = syPath /\ syTape' = syTape /\ syPushed' = syPushed
      /\ syDrop' = syDrop /\ syBurst' = syBurst /\ syLeft' = syLeft
  BY DEF SyRender
<1>3. PICK sounds : sounds = (syEng.armed \/ ~syEng.idle)
  OBVIOUS
<1>4. PICK out, routed : /\ out = [c \in {0, 1} |-> IF sounds /\ c \in syEng.routes THEN SySource ELSE SyQuiet]
                         /\ routed = IF sounds THEN syEng.routes ELSE {}
  OBVIOUS
<1>5. out \in [{0, 1} -> SyBlocks]
  <2>1. SySource \in SyBlocks
    BY SyWindowFits DEF SySource, SyBlocks
  <2>2. SyQuiet \in SyBlocks
    BY SyWindowFits DEF SyQuiet, SyBlocks
  <2> QED BY <1>4, <2>1, <2>2
<1>6. routed \in SUBSET {0, 1} /\ syEng \in SyEngines
  BY <1>1, <1>4 DEF SyTypeOK, SyEngines
<1>7. PICK b : b = syBlock
  OBVIOUS
<1>8. b \in SyRendered
  BY <1>1, <1>7 DEF SyTypeOK
<1>9. syBlock' = [out |-> out, routes |-> routed, used |-> b.used]
  <2>1. syBlock' = [b EXCEPT !.out = out, !.routes = routed]
    BY <1>3, <1>4, <1>7, Zenon DEF SyRender
  <2> QED BY <1>8, <2>1, Zenon DEF SyRendered
<1>10. syBlock' \in SyRendered /\ syBlock'.used = syBlock.used
  BY <1>5, <1>6, <1>7, <1>8, <1>9 DEF SyRendered
<1>11. syEng' \in SyEngines
  <2>1. PICK idle \in BOOLEAN : idle = ~syEng.armed
    OBVIOUS
  <2>2. syEng' = [syEng EXCEPT !.idle = idle]
    BY <2>1 DEF SyRender
  <2> QED BY <1>6, <2>2 DEF SyEngines
<1>12. syFeed' \in SyFeeds /\ syFeed'.pc = "mix" /\ syFeed'.lag = syFeed.lag /\ syFeed'.stalled = syFeed.stalled
       /\ syFeed.pc = "render"
  BY <1>1 DEF SyRender, SyGo, SyTypeOK, SyFeeds
<1>13. SyRoomKept'
  BY <1>1, <1>2, <1>10, <1>12 DEF SyRoomKept
<1>14. SyNotEarly'
  BY <1>1, <1>12 DEF SyNotEarly
<1>15. SyLagPaid' /\ SyDropsOnlyWhenStalled'
  BY <1>1, <1>2, <1>12 DEF SyLagPaid, SyDropsOnlyWhenStalled
<1>16. syBus' \in SyBuses /\ syDrop' \in SyDrops /\ syBurst' \in Nat /\ syLeft' \in SyLefts
  BY <1>1, <1>2 DEF SyTypeOK
<1> QED BY <1>2, <1>10, <1>11, <1>12, <1>13, <1>14, <1>15, <1>16, SyElsewhere

\* A window of n frames that takes in m and lets its oldest go.
SyLater(w, n) == SubSeq(w, Len(w) - n + 1, Len(w))
SyShifted(t, u, b, n, m) == \A k \in 1..n : u[k] = IF k + m <= n THEN t[k + m] ELSE b[k + m - n]

\* The last n frames of a window and a block.
LEMMA WindowMoves ==
  ASSUME NEW P, NEW n \in Nat, NEW m \in Nat, NEW t \in [1..n -> P], NEW b \in [1..m -> P],
         NEW w, w = t \o b, NEW u, u = SyLater(w, n)
  PROVE  u \in [1..n -> P] /\ SyShifted(t, u, b, n, m)
<1>1. t \in Seq(P) /\ Len(t) = n /\ b \in Seq(P) /\ Len(b) = m
  OBVIOUS
<1>2. w \in Seq(P) /\ Len(w) = n + m
  BY <1>1, ConcatProperties
<1>3. \A i \in 1..(n + m) : w[i] = IF i <= n THEN t[i] ELSE b[i - n]
  BY <1>1, ConcatProperties
<1>4. Len(w) - n + 1 = m + 1
  BY <1>2
<1>5. u = SubSeq(w, m + 1, n + m)
  BY <1>2, <1>4 DEF SyLater
<1>6. \A i \in (m + 1)..(n + m) : w[i] \in P
  BY <1>2, ElementOfSeq
<1>7. u \in Seq(P) /\ Len(u) = n
  BY <1>5, <1>6, SubSeqProperties
<1>8. ASSUME NEW k \in 1..n PROVE u[k] = w[m + k]
  BY <1>5, <1>6
<1>9. ASSUME NEW k \in 1..n PROVE u[k] = IF k + m <= n THEN t[k + m] ELSE b[k + m - n]
  <2>1. m + k \in 1..(n + m) /\ m + k = k + m
    OBVIOUS
  <2>2. w[m + k] = IF m + k <= n THEN t[m + k] ELSE b[m + k - n]
    BY <1>3, <2>1
  <2>3. u[k] = w[m + k]
    BY <1>8
  <2> QED BY <2>1, <2>2, <2>3
<1>10. u \in [1..n -> P]
  BY <1>7, LenProperties
<1> QED BY <1>9, <1>10 DEF SyShifted

\* The tape takes in a block.
LEMMA TapeMoves ==
  ASSUME NEW t \in SyTapes, NEW b \in [1..SyFrames -> SyPairs], NEW w, w = t \o b, NEW u,
         u = SyLater(w, SyWindow)
  PROVE  u \in SyTapes /\ SyShifted(t, u, b, SyWindow, SyFrames)
<1>1. SyFrames \in Nat /\ SyWindow \in Nat /\ t \in [1..SyWindow -> SyPairs]
  BY SyWindowFits DEF SyTapes
<1>2. u \in [1..SyWindow -> SyPairs] /\ SyShifted(t, u, b, SyWindow, SyFrames)
  BY <1>1, WindowMoves
<1> QED BY <1>2 DEF SyTapes

\* One path of the mix: what comes out is late by its delay, and the line holds the rest.
LEMMA PathKeeps ==
  ASSUME NEW d \in Nat, d + SyFrames <= SyWindow, NEW line \in SyLines(d), NEW in \in SyBlocks,
         NEW t, NEW u, NEW c, SyHolds(line, d, t, c), SyMoved(t, u, in, c), NEW r, r = delayLine(line, in)
  PROVE  /\ r.line \in SyLines(d) /\ SyHolds(r.line, d, u, c)
         /\ \A i \in 1..SyFrames : r.out[i] = u[SyWindow - SyFrames + i - d][c] /\ r.out[i] \in Nat
<1>1. CASE d # 0
  <2>1. r.line \in SyLines(d) /\ SyHolds(r.line, d, u, c)
    BY <1>1, DelayLineHolds
  <2>2. ASSUME NEW i \in 1..SyFrames
        PROVE  r.out[i] = u[SyWindow - SyFrames + i - d][c] /\ r.out[i] \in Nat
    BY <1>1, DelayLineOut
  <2> QED BY <2>1, <2>2
<1>2. CASE d = 0
  <2>1. SyFrames \in Nat \ {0} /\ SyWindow \in Nat
    BY SyWindowFits
  <2>2. Len(line.history) = 0
    BY <1>2 DEF SyLines
  <2>3. r = [line |-> line, out |-> in]
    BY <2>2, Zenon DEF delayLine
  <2>4. r.line = line /\ r.out = in
    BY <2>3
  <2>5. SyHolds(line, d, u, c)
    BY <1>2 DEF SyHolds
  <2>6. ASSUME NEW i \in 1..SyFrames
        PROVE  in[i] = u[SyWindow - SyFrames + i - d][c] /\ in[i] \in Nat
    <3>1. PICK k : k = SyWindow - SyFrames + i
      OBVIOUS
    <3>2. k \in 1..SyWindow /\ ~(k + SyFrames <= SyWindow) /\ k + SyFrames - SyWindow = i
          /\ k = SyWindow - SyFrames + i - d
      BY <1>2, <2>1, <3>1
    <3>3. u[k][c] = in[i]
      BY <3>2 DEF SyMoved
    <3>4. in[i] \in Nat
      BY DEF SyBlocks
    <3> QED BY <3>2, <3>3, <3>4
  <2> QED BY <2>4, <2>5, <2>6
<1> QED BY <1>1, <1>2

\* The lowest routed output is one of them.
LEMMA RoutesMin ==
  ASSUME NEW S \in SUBSET {0, 1}, S # {}
  PROVE  Min(S) \in {0, 1}
<1>1. \E m \in S : \A y \in S : m <= y
  <2>1. CASE 0 \in S
    BY <2>1
  <2>2. CASE 0 \notin S
    <3>1. \A y \in S : y = 1
      BY <2>2
    <3>2. 1 \in S
      BY <3>1
    <3> QED BY <3>1, <3>2
  <2> QED BY <2>1, <2>2
<1>2. Min(S) \in S
  BY <1>1 DEF Min
<1> QED BY <1>2

\* The verdict on the loopback and the two paths.
LEMMA SyMixStep == SyIInv /\ SyMix => SyIInv'
<1> SUFFICES ASSUME SyIInv, SyMix PROVE SyIInv'
  OBVIOUS
<1>1. /\ SyTypeOK /\ SyNotEarly /\ SyLagPaid /\ SyDropsOnlyWhenStalled /\ SyRoomKept
      /\ SyHolds(syPath[0], SyDelays[1], syTape, 1) /\ SyHolds(syPath[1], SyDelays[2], syTape, 2)
  BY DEF SyIInv
<1>2. /\ syEng' = syEng /\ syBus' = syBus /\ syBlock' = syBlock
      /\ syDrop' = syDrop /\ syBurst' = syBurst /\ syLeft' = syLeft
  BY DEF SyMix
<1>3. PICK loops : loops = ~(syEng.idle /\ ~syEng.armed)
  OBVIOUS
<1>4. PICK out : out = IF loops THEN syBlock.out ELSE [c \in {0, 1} |-> IF c = 0 THEN SyNoise ELSE SyQuiet]
  OBVIOUS
<1>5. SyNoise \in SyBlocks /\ SyQuiet \in SyBlocks
  BY SyWindowFits DEF SyNoise, SyQuiet, SyBlocks
<1>6. out \in [{0, 1} -> SyBlocks] /\ syBlock.out \in [{0, 1} -> SyBlocks]
  BY <1>1, <1>4, <1>5 DEF SyTypeOK, SyRendered
<1>7. PICK o \in SyBlocks, p \in SyBlocks : o = out[0] /\ p = out[1]
  BY <1>6
<1>8. PICK main, second : main = delayLine(syPath[0], o) /\ second = delayLine(syPath[1], p)
  OBVIOUS
<1>9. PICK b : b = [i \in 1..SyFrames |-> <<o[i], p[i]>>]
  OBVIOUS
<1>10. PICK u : u = SyLater(syTape \o b, SyWindow)
  OBVIOUS
<1>11. PICK meas, ref, heard :
          /\ meas = [i \in 1..SyFrames |-> <<main.out[i], second.out[i]>>]
          /\ ref = IF loops THEN out[referenceOutput] ELSE SyNoise
          /\ heard = IF loops /\ syBlock.routes = syEng.routes /\ syEng.routes # {}
                     THEN syBlock.out[Min(syEng.routes)] ELSE <<>>
  OBVIOUS
<1>12. /\ syPath' = [c \in {0, 1} |-> IF c = 0 THEN main.line ELSE second.line]
       /\ syTape' = u /\ syPushed' = [ref |-> ref, meas |-> meas, heard |-> heard]
       /\ syFeed.pc = "mix" /\ syFeed' = [syFeed EXCEPT !.pc = "push"]
  BY <1>3, <1>4, <1>7, <1>8, <1>9, <1>10, <1>11, Zenon DEF SyMix, secondPath, SyLater, SyGo
<1>13. b \in [1..SyFrames -> SyPairs] /\ \A i \in 1..SyFrames : b[i][1] = o[i] /\ b[i][2] = p[i]
  BY <1>7, <1>9 DEF SyBlocks, SyPairs
<1>14. u \in SyTapes /\ SyShifted(syTape, u, b, SyWindow, SyFrames)
  <2>1. syTape \in SyTapes
    BY <1>1 DEF SyTypeOK
  <2> QED BY <1>10, <1>13, <2>1, TapeMoves
<1>15. SyMoved(syTape, u, o, 1) /\ SyMoved(syTape, u, p, 2)
  <2> SUFFICES ASSUME NEW k \in 1..SyWindow
               PROVE  /\ u[k][1] = IF k + SyFrames <= SyWindow THEN syTape[k + SyFrames][1] ELSE o[k + SyFrames - SyWindow]
                      /\ u[k][2] = IF k + SyFrames <= SyWindow THEN syTape[k + SyFrames][2] ELSE p[k + SyFrames - SyWindow]
    BY DEF SyMoved
  <2>1. u[k] = IF k + SyFrames <= SyWindow THEN syTape[k + SyFrames] ELSE b[k + SyFrames - SyWindow]
    BY <1>14 DEF SyShifted
  <2>2. CASE k + SyFrames <= SyWindow
    BY <2>1, <2>2
  <2>3. CASE ~(k + SyFrames <= SyWindow)
    <3>1. k + SyFrames - SyWindow \in 1..SyFrames
      BY <2>3, SyWindowFits
    <3> QED BY <1>13, <2>1, <2>3, <3>1
  <2> QED BY <2>2, <2>3
<1>16. /\ main.line \in SyLines(SyDelays[1]) /\ SyHolds(main.line, SyDelays[1], u, 1)
       /\ \A i \in 1..SyFrames : main.out[i] = u[SyWindow - SyFrames + i - SyDelays[1]][1] /\ main.out[i] \in Nat
  <2>1. syPath[0] \in SyLines(SyDelays[1])
    BY <1>1 DEF SyTypeOK
  <2> QED BY <1>1, <1>7, <1>8, <1>15, <2>1, SyWindowFits, PathKeeps
<1>17. /\ second.line \in SyLines(SyDelays[2]) /\ SyHolds(second.line, SyDelays[2], u, 2)
       /\ \A i \in 1..SyFrames : second.out[i] = u[SyWindow - SyFrames + i - SyDelays[2]][2] /\ second.out[i] \in Nat
  <2>1. syPath[1] \in SyLines(SyDelays[2])
    BY <1>1 DEF SyTypeOK
  <2> QED BY <1>1, <1>7, <1>8, <1>15, <2>1, SyWindowFits, PathKeeps
<1>18. syPath'[0] = main.line /\ syPath'[1] = second.line
  BY <1>12
<1>19. meas \in [1..SyFrames -> SyPairs] /\ \A i \in 1..SyFrames : meas[i][1] = main.out[i] /\ meas[i][2] = second.out[i]
  BY <1>11, <1>16, <1>17 DEF SyPairs
<1>20. ref \in SyBlocks /\ heard \in SyBlocks \cup {<<>>} /\ (heard # <<>> => ref = heard)
  <2>1. CASE loops /\ syBlock.routes = syEng.routes /\ syEng.routes # {}
    <3>1. out = syBlock.out /\ ref = out[Min(syEng.routes)] /\ heard = out[Min(syEng.routes)]
      BY <1>4, <1>11, <2>1 DEF referenceOutput
    <3>2. Min(syEng.routes) \in {0, 1}
      BY <1>1, <2>1, RoutesMin DEF SyTypeOK, SyEngines
    <3> QED BY <1>6, <3>1, <3>2
  <2>2. CASE ~(loops /\ syBlock.routes = syEng.routes /\ syEng.routes # {})
    <3>1. heard = <<>>
      BY <1>11, <2>2
    <3>2. referenceOutput \in {0, 1}
      BY <1>1, RoutesMin DEF SyTypeOK, SyEngines, referenceOutput
    <3>3. ref \in SyBlocks
      BY <1>5, <1>6, <1>11, <3>2
    <3> QED BY <3>1, <3>3
  <2> QED BY <2>1, <2>2
<1>21. syFeed' \in SyFeeds /\ syFeed'.pc = "push" /\ syFeed'.lag = syFeed.lag /\ syFeed'.stalled = syFeed.stalled
  BY <1>1, <1>12 DEF SyTypeOK, SyFeeds
<1>22. syPushed' \in SyPushes /\ syPushed'.meas = meas /\ syPushed'.ref = ref /\ syPushed'.heard = heard
  BY <1>12, <1>19, <1>20 DEF SyPushes
<1>23. SyTypeOK'
  BY <1>1, <1>2, <1>12, <1>14, <1>16, <1>17, <1>18, <1>21, <1>22 DEF SyTypeOK
<1>24. SyRoomKept'
  BY <1>1, <1>2, <1>12, <1>21 DEF SyRoomKept
<1>25. SyNotEarly'
  BY <1>1, <1>12, <1>21 DEF SyNotEarly
<1>26. SyLagPaid' /\ SyDropsOnlyWhenStalled'
  BY <1>1, <1>2, <1>21 DEF SyLagPaid, SyDropsOnlyWhenStalled
<1>27. SyHolds(syPath[0], SyDelays[1], syTape, 1)' /\ SyHolds(syPath[1], SyDelays[2], syTape, 2)'
  BY <1>12, <1>16, <1>17, <1>18
<1>28. SyMeasured(syPushed, syTape)'
  BY <1>12, <1>16, <1>17, <1>19, <1>22 DEF SyMeasured
<1>29. SyReferred(syPushed)'
  BY <1>20, <1>22 DEF SyReferred
<1> QED BY <1>23, <1>24, <1>25, <1>26, <1>27, <1>28, <1>29 DEF SyIInv

\* What the pace makes of a lag: a block less, or none at all once it is past the allowance.
LEMMA PaceIs ==
  ASSUME NEW lag \in Int, lag >= 0, lag <= SyMaxLag + SyBlockMs + 1
  PROVE  /\ nextSyntheticPace(lag) \in (-SyBlockMs)..(SyMaxLag + SyBlockMs + 1)
         /\ nextSyntheticPace(lag) <= SyMaxLag
         /\ lag <= SyMaxLag => nextSyntheticPace(lag) = lag - SyBlockMs
<1>1. SyBlockMs \in Nat \ {0} /\ SyMaxLag \in Nat
  BY SyAssumption
<1> QED BY <1>1 DEF nextSyntheticPace

\* A block pushed, or a resync acknowledged, and the pace.
LEMMA SyPushStep == SyIInv /\ SyPush => SyIInv'
<1> SUFFICES ASSUME SyIInv, SyPush PROVE SyIInv'
  OBVIOUS
<1>1. SyTypeOK /\ SyNotEarly /\ SyLagPaid /\ SyDropsOnlyWhenStalled /\ SyRoomKept
  BY DEF SyIInv
<1>2. /\ syEng' = syEng /\ syBlock' = syBlock /\ syPath' = syPath /\ syTape' = syTape /\ syPushed' = syPushed
      /\ syLeft' = syLeft /\ syBurst' = syBurst + 1 /\ syFeed.pc = "push"
  BY DEF SyPush
<1>3. PICK f, lag, pc : /\ f = syFeed /\ lag = nextSyntheticPace(syFeed.lag)
                        /\ pc = IF lag < 0 THEN "sleeping" ELSE "check"
  OBVIOUS
<1>4. SyBlockMs \in Nat \ {0} /\ SyMaxLag \in Nat /\ SyRoom \in Nat \ {0}
  BY SyAssumption
<1>5. f \in SyFeeds /\ f.lag \in Int /\ f.lag >= 0 /\ f.lag <= SyMaxLag + SyBlockMs + 1 /\ syBurst \in Nat
  BY <1>1, <1>2, <1>3, <1>4 DEF SyTypeOK, SyFeeds, SyNotEarly
<1>6. /\ lag \in (-SyBlockMs)..(SyMaxLag + SyBlockMs + 1) /\ lag <= SyMaxLag /\ lag \in Int
      /\ f.lag <= SyMaxLag => lag = f.lag - SyBlockMs
  BY <1>3, <1>4, <1>5, PaceIs
<1>7. syFeed' = [pc |-> pc, stalled |-> f.stalled, waited |-> f.waited, lag |-> lag, exit |-> f.exit]
  <2>1. syFeed' = [f EXCEPT !.lag = lag, !.pc = pc]
    BY <1>3 DEF SyPush
  <2> QED BY <1>5, <2>1, Zenon DEF SyFeeds
<1>8. /\ syFeed' \in SyFeeds /\ syFeed'.lag = lag /\ syFeed'.pc \in {"sleeping", "check"}
      /\ syFeed'.pc = "check" => lag >= 0
  BY <1>3, <1>5, <1>6, <1>7 DEF SyFeeds
<1>9. SyRoomKept'
  BY <1>8 DEF SyRoomKept
<1>10. SyNotEarly'
  BY <1>8 DEF SyNotEarly
<1>11. SyLagPaid'
  <2>1. CASE syBurst = 0
    <3>1. syBurst' - 1 = 0 /\ SyBlockMs * 0 = 0
      BY <1>2, <1>4, <2>1
    <3> QED BY <1>6, <1>8, <3>1 DEF SyLagPaid
  <2>2. CASE syBurst > 0
    <3>1. f.lag + SyBlockMs * (syBurst - 1) <= SyMaxLag
      BY <1>1, <1>3, <2>2 DEF SyLagPaid
    <3>2. PICK k \in Nat : k = syBurst - 1
      BY <1>5, <2>2
    <3>3. SyBlockMs * k \in Nat /\ SyBlockMs * (k + 1) = SyBlockMs * k + SyBlockMs
      BY <1>4, <3>2
    <3>4. f.lag <= SyMaxLag
      BY <1>4, <1>5, <3>1, <3>2, <3>3
    <3>5. lag + SyBlockMs * (k + 1) <= SyMaxLag
      BY <1>4, <1>5, <1>6, <3>1, <3>2, <3>3, <3>4
    <3>6. syBurst' - 1 = k + 1
      BY <1>2, <1>5, <3>2
    <3> QED BY <1>8, <3>5, <3>6 DEF SyLagPaid
  <2> QED BY <1>5, <2>1, <2>2
<1>12. PICK full : full = {ch \in syBus.used : syBus.fill[ch] >= SyRoom}
  OBVIOUS
<1>13. syBus \in SyBuses /\ syBlock \in SyRendered
  BY <1>1 DEF SyTypeOK
<1>14. syBus' \in SyBuses
  <2>1. CASE syBus.gate # "down"
    <3>1. syBus' = [syBus EXCEPT !.gate = "acked"]
      BY <2>1 DEF SyPush
    <3> QED BY <1>13, <3>1 DEF SyBuses
  <2>2. CASE syBus.gate = "down"
    <3>1. PICK fill : fill = [ch \in SyChannels |-> IF ch \in syBus.used \ full THEN syBus.fill[ch] + 1 ELSE syBus.fill[ch]]
      OBVIOUS
    <3>2. fill \in [SyChannels -> 0..SyRoom]
      <4>1. syBus.fill \in [SyChannels -> 0..SyRoom]
        BY <1>13 DEF SyBuses
      <4>2. ASSUME NEW ch \in SyChannels PROVE fill[ch] \in 0..SyRoom
        <5>1. fill[ch] = IF ch \in syBus.used \ full THEN syBus.fill[ch] + 1 ELSE syBus.fill[ch]
          BY <3>1
        <5>2. syBus.fill[ch] \in 0..SyRoom
          BY <4>1
        <5>3. ch \in syBus.used \ full => syBus.fill[ch] < SyRoom
          BY <1>4, <1>12, <5>2
        <5> QED BY <1>4, <5>1, <5>2, <5>3
      <4> QED BY <3>1, <4>2
    <3>3. syBus' = [syBus EXCEPT !.fill = fill]
      BY <1>12, <2>2, <3>1, Zenon DEF SyPush
    <3> QED BY <1>13, <3>2, <3>3 DEF SyBuses
  <2> QED BY <2>1, <2>2
<1>15. syDrop' \in SyDrops /\ SyDropsOnlyWhenStalled'
  <2>1. CASE syDrop' = syDrop
    BY <1>1, <2>1 DEF SyTypeOK, SyDropsOnlyWhenStalled
  <2>2. CASE syDrop' # syDrop
    <3>1. syBus.gate = "down" /\ full # {}
      BY <1>12, <2>2 DEF SyPush
    <3>2. PICK stalled, moved : stalled = syFeed.stalled /\ moved = (syBlock.used # syBus.used)
      OBVIOUS
    <3>3. stalled \in BOOLEAN /\ moved \in BOOLEAN
      BY <1>3, <1>5, <3>2 DEF SyFeeds
    <3>4. stalled \/ moved
      <4> SUFFICES ASSUME ~stalled, ~moved PROVE FALSE
        OBVIOUS
      <4>1. ~syFeed.stalled /\ syBlock.used = syBus.used
        BY <3>2
      <4>2. \A ch \in syBus.used : syBus.fill[ch] < SyRoom
        BY <1>1, <1>2, <3>1, <4>1 DEF SyRoomKept
      <4>3. \A ch \in syBus.used : syBus.fill[ch] \in Nat
        BY <1>13, <1>4 DEF SyBuses
      <4> QED BY <1>4, <1>12, <3>1, <4>2, <4>3
    <3>5. PICK r : r = [stalled |-> stalled, moved |-> moved]
      OBVIOUS
    <3>6. syDrop' = <<r>>
      BY <1>12, <3>1, <3>2, <3>5, Zenon DEF SyPush
    <3>7. r \in [stalled : BOOLEAN, moved : BOOLEAN] /\ (r.stalled \/ r.moved)
      BY <3>3, <3>4, <3>5
    <3> QED BY <3>6, <3>7 DEF SyDrops, SyDropsOnlyWhenStalled
  <2> QED BY <2>1, <2>2
<1>16. syEng' \in SyEngines /\ syBlock' \in SyRendered /\ syBurst' \in Nat /\ syLeft' \in SyLefts
  BY <1>1, <1>2 DEF SyTypeOK
<1> QED BY <1>2, <1>8, <1>9, <1>10, <1>11, <1>14, <1>15, <1>16, SyElsewhere

\* The other threads leave the feed's own state alone.
LEMMA SyOthers ==
  ASSUME SyIInv, syFeed' = syFeed, syBlock' = syBlock, syPath' = syPath, syTape' = syTape, syPushed' = syPushed,
         syDrop' = syDrop, syBurst' = syBurst, syEng' \in SyEngines, syBus' \in SyBuses, syLeft' \in SyLefts,
         syBus'.gate = "down" => \A ch \in SyChannels :
            syBus'.fill[ch] < SyRoom \/ (syBus.gate = "down" /\ syBus'.fill[ch] <= syBus.fill[ch])
  PROVE  SyIInv'
<1>1. SyTypeOK /\ SyNotEarly /\ SyLagPaid /\ SyDropsOnlyWhenStalled /\ SyRoomKept
  BY DEF SyIInv
<1>2. SyRoomKept'
  <2> SUFFICES ASSUME syFeed.pc \in {"render", "mix", "push"}, ~syFeed.stalled, syBus'.gate = "down",
                      NEW ch \in syBlock.used
               PROVE  syBus'.fill[ch] < SyRoom
    BY DEF SyRoomKept
  <2>1. ch \in SyChannels
    BY <1>1 DEF SyTypeOK, SyRendered
  <2>2. SyRoom \in Nat /\ syBus.fill[ch] \in Int /\ syBus'.fill[ch] \in Int
    BY <1>1, <2>1, SyAssumption DEF SyTypeOK, SyBuses
  <2>3. CASE syBus'.fill[ch] < SyRoom
    BY <2>3
  <2>4. CASE syBus.gate = "down" /\ syBus'.fill[ch] <= syBus.fill[ch]
    <3>1. syBus.fill[ch] < SyRoom
      BY <1>1, <2>4 DEF SyRoomKept
    <3> QED BY <2>2, <2>4, <3>1
  <2> QED BY <2>1, <2>3, <2>4
<1>3. SyNotEarly' /\ SyLagPaid' /\ SyDropsOnlyWhenStalled'
  BY <1>1 DEF SyNotEarly, SyLagPaid, SyDropsOnlyWhenStalled
<1>4. syFeed' \in SyFeeds /\ syBlock' \in SyRendered /\ syDrop' \in SyDrops /\ syBurst' \in Nat
  BY <1>1 DEF SyTypeOK
<1> QED BY <1>2, <1>3, <1>4, SyElsewhere

\* A bounded resource is used up one at a time.
LEMMA SyUseLeft ==
  ASSUME syLeft \in SyLefts, NEW what \in {"arms", "resyncs", "roles"}, SyUse(what)
  PROVE  syLeft' \in SyLefts
<1>1. syLeft[what] \in Nat /\ syLeft[what] > 0
  BY DEF SyUse, SyLefts
<1>2. PICK k \in Nat : k = syLeft[what] - 1
  BY <1>1
<1>3. syLeft' = [syLeft EXCEPT ![what] = k]
  BY <1>2 DEF SyUse
<1> QED BY <1>3 DEF SyLefts

\* The message thread arms and disarms the engine.
LEMMA SyArmSteps ==
  ASSUME SyIInv, (\E outs \in SUBSET {0, 1} \ {{}} : SyArm(outs)) \/ SyDisarm
  PROVE  SyIInv'
<1>1. syEng \in SyEngines /\ syBus \in SyBuses /\ syLeft \in SyLefts
  BY DEF SyIInv, SyTypeOK
<1>2. syBus' = syBus /\ syFeed' = syFeed /\ syBlock' = syBlock /\ syPath' = syPath /\ syTape' = syTape
      /\ syPushed' = syPushed /\ syDrop' = syDrop /\ syBurst' = syBurst
  BY DEF SyArm, SyDisarm
<1>3. syEng' \in SyEngines
  <2>1. CASE SyDisarm
    BY <1>1, <2>1 DEF SyDisarm, SyEngines
  <2>2. CASE \E outs \in SUBSET {0, 1} \ {{}} : SyArm(outs)
    <3>1. PICK outs \in SUBSET {0, 1} : SyArm(outs)
      BY <2>2
    <3>2. syEng' = [syEng EXCEPT !.armed = TRUE, !.routes = outs]
      BY <3>1 DEF SyArm
    <3>3. syEng' = [armed |-> TRUE, idle |-> syEng.idle, routes |-> outs]
      BY <1>1, <3>2, Zenon DEF SyEngines
    <3> QED BY <1>1, <3>3 DEF SyEngines
  <2> QED BY <2>1, <2>2
<1>4. syLeft' \in SyLefts
  BY <1>1, SyUseLeft DEF SyArm, SyDisarm
<1>5. \A ch \in SyChannels : syBus.fill[ch] \in Int
  BY <1>1, SyAssumption DEF SyBuses
<1>6. syBus'.gate = "down" => \A ch \in SyChannels :
            syBus'.fill[ch] < SyRoom \/ (syBus.gate = "down" /\ syBus'.fill[ch] <= syBus.fill[ch])
  BY <1>2, <1>5
<1> QED BY <1>1, <1>2, <1>3, <1>4, <1>6, SyOthers

\* The roles, and the consumer of the rings.
LEMMA SyBusSteps ==
  ASSUME SyIInv, (\E ch \in SyChannels : SySetRole(ch)) \/ SyRaise \/ SyServe \/ SyDrain \/ SyClose
  PROVE  SyIInv'
<1>1. syEng \in SyEngines /\ syBus \in SyBuses /\ syLeft \in SyLefts /\ SyRoom \in Nat \ {0}
  BY SyAssumption DEF SyIInv, SyTypeOK
<1>2. syEng' = syEng /\ syFeed' = syFeed /\ syBlock' = syBlock /\ syPath' = syPath /\ syTape' = syTape
      /\ syPushed' = syPushed /\ syDrop' = syDrop /\ syBurst' = syBurst
  BY DEF SySetRole, SyRaise, SyServe, SyDrain, SyClose
<1>3. syLeft' \in SyLefts
  BY <1>1, SyUseLeft DEF SySetRole, SyRaise, SyServe, SyDrain, SyClose
<1>4. syBus.fill \in [SyChannels -> 0..SyRoom] /\ \A ch \in SyChannels : syBus.fill[ch] \in Int
  BY <1>1 DEF SyBuses
<1>5. /\ syBus' \in SyBuses
      /\ syBus'.gate = "down" => \A ch \in SyChannels :
            syBus'.fill[ch] < SyRoom \/ (syBus.gate = "down" /\ syBus'.fill[ch] <= syBus.fill[ch])
  <2>1. CASE \E ch \in SyChannels : SySetRole(ch)
    <3>1. PICK ch \in SyChannels : SySetRole(ch)
      BY <2>1
    <3>2. PICK used : used = IF ch \in syBus.used THEN syBus.used \ {ch} ELSE syBus.used \cup {ch}
      OBVIOUS
    <3>3. used \in SUBSET SyChannels
      BY <1>1, <3>2 DEF SyBuses
    <3>4. syBus' = [syBus EXCEPT !.used = used]
      BY <3>1, <3>2 DEF SySetRole
    <3>5. syBus' \in SyBuses /\ syBus'.fill = syBus.fill /\ syBus'.gate = syBus.gate
      BY <1>1, <3>3, <3>4 DEF SyBuses
    <3> QED BY <1>4, <3>5
  <2>2. CASE SyRaise
    BY <1>1, <2>2 DEF SyRaise, SyBuses
  <2>3. CASE SyServe
    <3>1. PICK fill : fill = [ch \in SyChannels |-> 0]
      OBVIOUS
    <3>2. fill \in [SyChannels -> 0..SyRoom] /\ \A ch \in SyChannels : fill[ch] = 0
      BY <1>1, <3>1
    <3>3. syBus' = [gate |-> "down", fill |-> fill, used |-> syBus.used, active |-> syBus.active]
      <4>1. syBus' = [syBus EXCEPT !.gate = "down", !.fill = fill]
        BY <2>3, <3>1 DEF SyServe
      <4> QED BY <1>1, <4>1, Zenon DEF SyBuses
    <3> QED BY <1>1, <3>2, <3>3 DEF SyBuses
  <2>4. CASE SyDrain
    <3>1. PICK fill : fill = [ch \in SyChannels |-> IF ch \in syBus.used THEN syBus.fill[ch] - 1 ELSE syBus.fill[ch]]
      OBVIOUS
    <3>2. \A ch \in SyChannels : fill[ch] \in 0..SyRoom /\ fill[ch] <= syBus.fill[ch]
      <4> SUFFICES ASSUME NEW ch \in SyChannels PROVE fill[ch] \in 0..SyRoom /\ fill[ch] <= syBus.fill[ch]
        OBVIOUS
      <4>1. fill[ch] = IF ch \in syBus.used THEN syBus.fill[ch] - 1 ELSE syBus.fill[ch]
        BY <3>1
      <4>2. syBus.fill[ch] \in 0..SyRoom /\ (ch \in syBus.used => syBus.fill[ch] > 0)
        BY <1>4, <2>4 DEF SyDrain
      <4> QED BY <1>1, <4>1, <4>2
    <3>3. fill \in [SyChannels -> 0..SyRoom]
      BY <3>1, <3>2
    <3>4. syBus' = [syBus EXCEPT !.fill = fill] /\ syBus.gate = "down"
      BY <2>4, <3>1, Zenon DEF SyDrain
    <3>5. syBus' \in SyBuses /\ syBus'.fill = fill
      BY <1>1, <3>3, <3>4 DEF SyBuses
    <3> QED BY <3>2, <3>4, <3>5
  <2>5. CASE SyClose
    <3>1. syBus' = [syBus EXCEPT !.active = FALSE]
      BY <2>5 DEF SyClose
    <3>2. syBus' \in SyBuses /\ syBus'.fill = syBus.fill /\ syBus'.gate = syBus.gate
      BY <1>1, <3>1 DEF SyBuses
    <3> QED BY <1>4, <3>2
  <2> QED BY <2>1, <2>2, <2>3, <2>4, <2>5
<1> QED BY <1>1, <1>2, <1>3, <1>5, SyOthers

\* The thread wakes for a block that is due, or to go; the destructor asks it to.
LEMMA SyWakeSteps ==
  ASSUME SyIInv, SyWake \/ SyAskExit
  PROVE  SyIInv'
<1>1. SyTypeOK /\ SyNotEarly /\ SyLagPaid /\ SyDropsOnlyWhenStalled /\ SyRoomKept
  BY DEF SyIInv
<1>2. syEng' = syEng /\ syBus' = syBus /\ syBlock' = syBlock /\ syPath' = syPath /\ syTape' = syTape
      /\ syPushed' = syPushed /\ syDrop' = syDrop /\ syBurst' = syBurst /\ syLeft' = syLeft
  BY DEF SyWake, SyAskExit
<1>3. /\ syFeed' \in SyFeeds /\ syFeed'.lag = syFeed.lag /\ syFeed'.stalled = syFeed.stalled
      /\ \/ syFeed'.pc = "check" /\ (syFeed'.lag >= 0 \/ syFeed'.exit)
         \/ syFeed'.pc = syFeed.pc /\ syFeed'.exit
  <2>1. CASE SyWake
    BY <1>1, <2>1 DEF SyWake, SyGo, SyTypeOK, SyFeeds
  <2>2. CASE SyAskExit
    BY <1>1, <2>2 DEF SyAskExit, SyTypeOK, SyFeeds
  <2> QED BY <2>1, <2>2
<1>4. SyRoomKept'
  BY <1>1, <1>2, <1>3 DEF SyRoomKept
<1>5. SyNotEarly'
  BY <1>1, <1>3 DEF SyNotEarly
<1>6. SyLagPaid' /\ SyDropsOnlyWhenStalled'
  BY <1>1, <1>2, <1>3 DEF SyLagPaid, SyDropsOnlyWhenStalled
<1>7. /\ syEng' \in SyEngines /\ syBus' \in SyBuses /\ syBlock' \in SyRendered /\ syDrop' \in SyDrops
      /\ syBurst' \in Nat /\ syLeft' \in SyLefts
  BY <1>1, <1>2 DEF SyTypeOK
<1> QED BY <1>2, <1>3, <1>4, <1>5, <1>6, <1>7, SyElsewhere

\* Of two integers, Min is the smaller.
LEMMA MinOfTwo ==
  ASSUME NEW a \in Int, NEW b \in Int
  PROVE  Min({a, b}) = (IF a <= b THEN a ELSE b)
<1>1. Min({a, b}) \in {a, b} /\ Min({a, b}) <= a /\ Min({a, b}) <= b
  <2>1. \E m \in {a, b} : \A y \in {a, b} : m <= y
    OBVIOUS
  <2> QED BY <2>1 DEF Min
<1> QED BY <1>1

\* The clock makes the thread later and starts a new burst.
LEMMA SyTickStep == SyIInv /\ SyTick => SyIInv'
<1> SUFFICES ASSUME SyIInv, SyTick PROVE SyIInv'
  OBVIOUS
<1>1. SyTypeOK /\ SyNotEarly /\ SyLagPaid /\ SyDropsOnlyWhenStalled /\ SyRoomKept
  BY DEF SyIInv
<1>2. syEng' = syEng /\ syBus' = syBus /\ syBlock' = syBlock /\ syPath' = syPath /\ syTape' = syTape
      /\ syPushed' = syPushed /\ syDrop' = syDrop /\ syBurst' = 0 /\ syLeft' = syLeft
  BY DEF SyTick
<1>3. SyBlockMs \in Nat \ {0} /\ SyMaxLag \in Nat /\ SyGiveUp \in Nat \ {0}
  BY SyAssumption
<1>4. PICK f : f = syFeed
  OBVIOUS
<1>5. f \in SyFeeds
  BY <1>1, <1>4 DEF SyTypeOK
<1>6. PICK lag, waited : /\ lag = Min({f.lag + 1, SyMaxLag + SyBlockMs + 1})
                         /\ waited = IF f.pc = "waiting" THEN Min({f.waited + 1, SyGiveUp}) ELSE f.waited
  OBVIOUS
<1>7. f.lag \in (-SyBlockMs)..(SyMaxLag + SyBlockMs + 1) /\ f.waited \in 0..SyGiveUp
  BY <1>5 DEF SyFeeds
<1>8. lag \in (-SyBlockMs)..(SyMaxLag + SyBlockMs + 1) /\ lag >= f.lag
  <2>1. PICK a \in Int, b \in Int : a = f.lag + 1 /\ b = SyMaxLag + SyBlockMs + 1
    BY <1>3, <1>7
  <2>2. lag = IF a <= b THEN a ELSE b
    BY <1>6, <2>1, MinOfTwo
  <2> QED BY <1>3, <1>7, <2>1, <2>2
<1>9. waited \in 0..SyGiveUp
  <2>1. PICK a \in Int, b \in Int : a = f.waited + 1 /\ b = SyGiveUp
    BY <1>3, <1>7
  <2>2. Min({a, b}) = IF a <= b THEN a ELSE b
    BY <2>1, MinOfTwo
  <2> QED BY <1>3, <1>6, <1>7, <2>1, <2>2
<1>10. syFeed' = [pc |-> f.pc, stalled |-> f.stalled, waited |-> waited, lag |-> lag, exit |-> f.exit]
  <2>1. syFeed' = [f EXCEPT !.lag = lag, !.waited = waited]
    BY <1>4, <1>6, Zenon DEF SyTick
  <2> QED BY <1>5, <2>1, Zenon DEF SyFeeds
<1>11. /\ syFeed' \in SyFeeds /\ syFeed'.pc = syFeed.pc /\ syFeed'.stalled = syFeed.stalled
       /\ syFeed'.exit = syFeed.exit /\ syFeed'.lag = lag
  BY <1>4, <1>5, <1>8, <1>9, <1>10 DEF SyFeeds
<1>12. SyRoomKept'
  BY <1>1, <1>2, <1>11 DEF SyRoomKept
<1>13. SyNotEarly'
  <2>1. syFeed.lag >= 0 => lag >= 0
    BY <1>3, <1>4, <1>7, <1>8
  <2> QED BY <1>1, <1>11, <2>1 DEF SyNotEarly
<1>14. SyLagPaid' /\ SyDropsOnlyWhenStalled'
  BY <1>1, <1>2 DEF SyLagPaid, SyDropsOnlyWhenStalled
<1>15. /\ syEng' \in SyEngines /\ syBus' \in SyBuses /\ syBlock' \in SyRendered /\ syDrop' \in SyDrops
       /\ syBurst' \in Nat /\ syLeft' \in SyLefts
  BY <1>1, <1>2 DEF SyTypeOK
<1> QED BY <1>2, <1>11, <1>12, <1>13, <1>14, <1>15, SyElsewhere

\* An empty line under a silent tape.
LEMMA EmptyLine ==
  ASSUME NEW d \in Nat, d + SyFrames <= SyWindow, NEW t, \A k \in 1..SyWindow : t[k] = <<0, 0>>, NEW c \in {1, 2},
         NEW line, line = SyLine(d)
  PROVE  line \in SyLines(d) /\ SyHolds(line, d, t, c)
<1>1. PICK h : h = [k \in 1..d |-> 0]
  OBVIOUS
<1>2. line = [history |-> h, cursor |-> 0]
  BY <1>1 DEF SyLine
<1>3. h \in [1..d -> Nat]
  BY <1>1
<1>4. line \in SyLines(d) /\ line.history = h /\ line.cursor = 0
  BY <1>2, <1>3 DEF SyLines
<1>5. ASSUME NEW k \in 1..d
      PROVE  line.history[((line.cursor + k - 1) % d) + 1] = t[SyWindow - d + k][c]
  <2>1. PICK x, q : x = line.cursor + k - 1 /\ q = x % d
    OBVIOUS
  <2>2. q \in 0..(d - 1)
    <3>1. x \in Int /\ d \in Nat \ {0}
      BY <1>4, <2>1
    <3> QED BY <2>1, <3>1, DivMod
  <2>3. q + 1 \in 1..d
    BY <2>2
  <2>4. h[q + 1] = 0
    BY <1>1, <2>3
  <2>5. SyWindow - d + k \in 1..SyWindow
    BY SyWindowFits
  <2>6. t[SyWindow - d + k][c] = 0
    BY <2>5
  <2> QED BY <1>4, <2>1, <2>4, <2>6
<1> QED BY <1>4, <1>5 DEF SyHolds

\* The constructor's state: silence everywhere, nothing late.
LEMMA SyInitIInv == SyInit => SyIInv
<1> SUFFICES ASSUME SyInit PROVE SyIInv
  OBVIOUS
<1>1. syLeft \in SyLefts /\ syLeft.used \in SUBSET {0, 1}
  BY SyAssumption DEF SyInit, SyLefts
<1>2. SyQuiet \in SyBlocks
  BY SyWindowFits DEF SyQuiet, SyBlocks
<1>3. syEng \in SyEngines
  BY DEF SyInit, SyEngines
<1>4. syBus \in SyBuses
  <2>1. 0 \in 0..SyRoom
    BY SyAssumption
  <2>2. [ch \in SyChannels |-> 0] \in [SyChannels -> 0..SyRoom]
    BY <2>1
  <2> QED BY <1>1, <2>2 DEF SyInit, SyBuses, SyChannels
<1>5. syFeed \in SyFeeds /\ syFeed.pc = "check" /\ syFeed.lag = 0
  <2>1. 0 \in 0..SyGiveUp /\ 0 \in (-SyBlockMs)..(SyMaxLag + SyBlockMs + 1)
    BY SyAssumption
  <2> QED BY <2>1 DEF SyInit, SyFeeds
<1>6. syBlock \in SyRendered
  <2>1. [c \in {0, 1} |-> SyQuiet] \in [{0, 1} -> SyBlocks]
    BY <1>2
  <2> QED BY <1>1, <2>1 DEF SyInit, SyRendered, SyChannels
<1>7. <<0, 0>> \in SyPairs
  BY DEF SyPairs
<1>8. syTape \in SyTapes /\ \A k \in 1..SyWindow : syTape[k] = <<0, 0>>
  BY <1>7 DEF SyInit, SyTapes
<1>9. PICK meas : meas = [i \in 1..SyFrames |-> <<0, 0>>]
  OBVIOUS
<1>10. meas \in [1..SyFrames -> SyPairs] /\ \A i \in 1..SyFrames : meas[i] = <<0, 0>>
  BY <1>7, <1>9
<1>11. /\ syPushed \in SyPushes /\ syPushed.meas = meas /\ syPushed.heard = <<>>
  BY <1>2, <1>9, <1>10 DEF SyInit, SyPushes
<1>12. syPath[0] = SyLine(SyDelays[1]) /\ syPath[1] = SyLine(SyDelays[2])
  BY DEF SyInit
<1>13. syPath[0] \in SyLines(SyDelays[1]) /\ SyHolds(syPath[0], SyDelays[1], syTape, 1)
  BY <1>8, <1>12, EmptyLine, SyWindowFits
<1>14. syPath[1] \in SyLines(SyDelays[2]) /\ SyHolds(syPath[1], SyDelays[2], syTape, 2)
  BY <1>8, <1>12, EmptyLine, SyWindowFits
<1>15. SyMeasured(syPushed, syTape)
  <2> SUFFICES ASSUME NEW i \in 1..SyFrames
               PROVE  /\ syPushed.meas[i][1] = syTape[SyWindow - SyFrames + i - SyDelays[1]][1]
                      /\ syPushed.meas[i][2] = syTape[SyWindow - SyFrames + i - SyDelays[2]][2]
    BY DEF SyMeasured
  <2>1. SyWindow - SyFrames + i - SyDelays[1] \in 1..SyWindow /\ SyWindow - SyFrames + i - SyDelays[2] \in 1..SyWindow
    BY SyWindowFits
  <2> QED BY <1>8, <1>10, <1>11, <2>1
<1>16. SyReferred(syPushed)
  BY <1>11 DEF SyReferred
<1>17. syDrop = <<>> /\ syBurst = 0
  BY DEF SyInit
<1>18. SyTypeOK
  BY <1>1, <1>3, <1>4, <1>5, <1>6, <1>8, <1>11, <1>13, <1>14, <1>17 DEF SyTypeOK, SyDrops
<1>19. SyRoomKept /\ SyNotEarly /\ SyLagPaid /\ SyDropsOnlyWhenStalled
  BY <1>5, <1>17 DEF SyRoomKept, SyNotEarly, SyLagPaid, SyDropsOnlyWhenStalled
<1> QED BY <1>13, <1>14, <1>15, <1>16, <1>18, <1>19 DEF SyIInv

\* Every step of the feed and of the threads beside it preserves the invariant.
LEMMA SyStepIInv == SyIInv /\ [SyNext]_syVars => SyIInv'
<1> SUFFICES ASSUME SyIInv, [SyNext]_syVars PROVE SyIInv'
  OBVIOUS
<1>1. CASE SyThread
  BY <1>1, SyCheckStep, SyWaitedStep, SyRenderStep, SyMixStep, SyPushStep, SyWakeSteps DEF SyThread
<1>2. CASE SyTick \/ SyAskExit \/ SyClose
  BY <1>2, SyTickStep, SyWakeSteps, SyBusSteps
<1>3. CASE (\E outs \in SUBSET {0, 1} \ {{}} : SyArm(outs)) \/ SyDisarm
  BY <1>3, SyArmSteps
<1>4. CASE (\E ch \in SyChannels : SySetRole(ch)) \/ SyRaise \/ SyServe \/ SyDrain
  BY <1>4, SyBusSteps
<1>5. CASE UNCHANGED syVars
  <2>1. /\ syEng' = syEng /\ syBus' = syBus /\ syFeed' = syFeed /\ syBlock' = syBlock /\ syPath' = syPath
        /\ syTape' = syTape /\ syPushed' = syPushed /\ syDrop' = syDrop /\ syBurst' = syBurst /\ syLeft' = syLeft
    BY <1>5 DEF syVars
  <2>2. syEng' \in SyEngines /\ syBus' \in SyBuses /\ syLeft' \in SyLefts
    BY <2>1 DEF SyIInv, SyTypeOK
  <2>3. \A ch \in SyChannels : syBus.fill[ch] \in Int
    BY SyAssumption DEF SyIInv, SyTypeOK, SyBuses
  <2>4. syBus'.gate = "down" => \A ch \in SyChannels :
            syBus'.fill[ch] < SyRoom \/ (syBus.gate = "down" /\ syBus'.fill[ch] <= syBus.fill[ch])
    BY <2>1, <2>3
  <2> QED BY <2>1, <2>2, <2>4, SyOthers
<1> QED BY <1>1, <1>2, <1>3, <1>4, <1>5 DEF SyNext

\* The burst the lag has paid for fits the allowance.
LEMMA SyBurstFits == SyIInv => SyBurstBounded
<1> SUFFICES ASSUME SyIInv PROVE SyBurstBounded
  OBVIOUS
<1>1. PICK B \in Nat \ {0}, M \in Nat : B = SyBlockMs /\ M = SyMaxLag
  BY SyAssumption
<1>2. PICK q, r : q = (M + B) \div B /\ r = (M + B) % B
  OBVIOUS
<1>3. q \in Int /\ r \in 0..(B - 1) /\ M + B = B * q + r
  <2>1. M + B \in Int
    BY <1>1
  <2> QED BY <1>1, <1>2, <2>1, DivMod
<1>4. q >= 0
  <2> SUFFICES ASSUME q <= -1 PROVE FALSE
    BY <1>3
  <2>1. B * q <= -B
    BY <1>1, <1>3
  <2> QED BY <1>1, <1>3, <2>1
<1>5. syBurst \in Nat /\ syFeed.lag \in Int /\ syFeed.lag >= -B
  BY <1>1 DEF SyIInv, SyTypeOK, SyFeeds
<1>6. syBurst <= q + 1
  <2> SUFFICES ASSUME syBurst > q + 1 PROVE FALSE
    BY <1>3, <1>5
  <2>1. PICK k \in Int : k = syBurst - 1
    BY <1>5
  <2>2. syBurst > 0 /\ k >= q + 1
    BY <1>3, <1>4, <1>5, <2>1
  <2>3. syFeed.lag + B * k <= M
    BY <1>1, <2>1, <2>2 DEF SyIInv, SyLagPaid
  <2>4. PICK j \in Nat : k = q + 1 + j
    BY <1>3, <2>2
  <2>5. B * k = B * q + B + B * j /\ B * j >= 0 /\ B * q \in Int /\ B * j \in Int
    BY <1>1, <1>3, <2>4
  <2> QED BY <1>1, <1>3, <1>5, <2>3, <2>5
<1> QED BY <1>1, <1>2, <1>6 DEF SyBurstBounded

\* The invariant is enough for the feed's promises.
LEMMA SyIInvInv == SyIInv => SyInv
<1> SUFFICES ASSUME SyIInv PROVE SyInv
  OBVIOUS
<1>1. SyMeasuredIsDelayed
  <2>1. ASSUME NEW i \in 1..SyFrames PROVE syPushed.meas[i] = <<SyLate(i, 1), SyLate(i, 2)>>
    <3>1. syPushed.meas[i] \in SyPairs
      BY DEF SyIInv, SyTypeOK, SyPushes
    <3>2. syPushed.meas[i] = <<syPushed.meas[i][1], syPushed.meas[i][2]>>
      BY <3>1 DEF SyPairs
    <3> QED BY <3>2 DEF SyIInv, SyMeasured, SyLate
  <2> QED BY <2>1, Zenon DEF SyMeasuredIsDelayed
<1>2. SyReferenceIsPlayed
  BY DEF SyIInv, SyReferred, SyReferenceIsPlayed
<1>3. SyDropsOnlyWhenStalled
  BY DEF SyIInv
<1> QED BY <1>1, <1>2, <1>3, SyBurstFits DEF SyInv

\* The feed's parts keep their types: no ring ever holds more than its room, the thread is never
\* more than a block early, and the wait for room never counts past its end (SyntheticInput::runBody).
THEOREM SyTypesHold == SySpec => []SyTypeOK
<1>1. SyIInv => SyTypeOK
  BY DEF SyIInv
<1> QED BY <1>1, SyInitIInv, SyStepIInv, PTL DEF SySpec

\* For every block size, pair of delays, ring, time-out and pace: the measurement channel is output 0
\* late by the first delay plus output 1 late by the second, across blocks, sources and silences; the
\* reference is what was played; a block is dropped only after the back-pressure time or when a channel
\* came into use behind the feed's back; and a late thread repays a bounded burst (DelayLine::process,
\* SyntheticInput::runBody, nextSyntheticPace).
THEOREM SyKeepsItsPromises == SySpec => []SyInv
BY SyInitIInv, SyStepIInv, SyIInvInv, PTL DEF SySpec

-------------------------------------------------------------------------------
(* DeviceSetup: what the rail's fault line, START button and role tables rest on. *)

DvOpen == DvDevices \cup {NoDevice}
DvTypes == {d.type : d \in DvOpen}
DvKinds == {"None", "OpenFailed", "DeviceError", "Recovering", "Stopped"}
DvRoles == {"Unused", "Measurement", "Reference"}
DvFaults == [kind : DvKinds, sequence : Nat]
DvTexts == [kind : DvKinds \cup {"Unacknowledged"}, of : Nat]
DvIos == [device : DvOpen, type : DvTypes, running : BOOLEAN, fault : DvFaults]
DvBuses == [channels : 0..DvMax, active : BOOLEAN, timeouts : Nat]
DvPanels == [running : BOOLEAN, type : DvTypes, device : {d.name : d \in DvOpen}, notice : BOOLEAN,
             requested : DvTypes, sequence : Nat, dirty : BOOLEAN, painted : DvTexts, pc : {"idle", "store", "mark"},
             behind : {"no", "race", "synthetic"}]

\* The parts of the thread and of the table; what positions and cells hold is DvCells.
DvThreadOK(t) == \E f, p : f \in DvFaults /\ t = [fault |-> f, positions |-> p]
DvTableOK(t) ==
  \E n, r, x, a, f : /\ t = [names |-> n, rows |-> r, text |-> x, avg |-> a, asOf |-> f]
                     /\ n[2] \in 0..DvMax /\ r \in 0..DvMax
DvShape ==
  /\ dvIo \in DvIos /\ dvBus \in DvBuses /\ dvRole \in [1..DvMax -> DvRoles] /\ dvPanel \in DvPanels
  /\ DvThreadOK(dvThread) /\ DvTableOK(dvTable)

DvSum(audio, thread, timeouts) == audio.sequence + thread.sequence + timeouts

\* The panel never marked more than was said, and what it painted at the present count is the present fault.
DvLine(p, audio, thread, timeouts) ==
  /\ p.sequence <= DvSum(audio, thread, timeouts)
  /\ ~p.dirty /\ p.sequence = DvSum(audio, thread, timeouts) =>
        p.painted = faultText(selectFault(audio, thread, timeouts))

\* The button and the notice are AudioIo's, from the read inside a refresh until something new is said.
DvSame(p, io) ==
  p.running = io.running /\ p.notice = (io.running /\ deviceTypeNotice(p.requested, io.type))
DvFollows(p, io, sum) == p.behind = "no" /\ (p.pc = "mark" \/ p.sequence = sum) => DvSame(p, io)

\* Outside SYNTHETIC, tables with rows have one for every channel that holds a role.
DvCleared(t, role, synthetic) ==
  ~synthetic /\ t.names[2] > 0 =>
     t.rows = t.names[2] /\ \A c \in 1..DvMax : c > t.rows => role[c] = "Unused"

\* The AVG cell of a channel: the label of the position zipped with its place in the plan.
DvOf(plan, positions, c) == {i \in 1..Min({Len(plan), Len(positions)}) : plan[i] = c}
DvAvg(plan, positions, c) ==
  IF DvOf(plan, positions, c) = {} THEN NotApplicable
  ELSE membershipLabel(positions[Max(DvOf(plan, positions, c))].membership)

\* Cells that are not stale are those of the roles, the positions and the channels they are as of.
DvCells(t, role, positions) ==
  t.asOf # Stale =>
     \A c \in 1..t.rows : t.text[c] = role[c] /\ t.avg[c] = DvAvg(routes(role, t.asOf), positions, c)

\* The inductive invariant, but for the cells: nothing in it rests on them.
DvIInv ==
  /\ DvShape
  /\ DvLine(dvPanel, dvIo.fault, dvThread.fault, dvBus.timeouts)
  /\ DvFollows(dvPanel, dvIo, DvSum(dvIo.fault, dvThread.fault, dvBus.timeouts))
  /\ DvCleared(dvTable, dvRole, dvMode)

\* A closed device has no inputs.
LEMMA NoInputs == NoDevice.inputs = 0
BY Zenon DEF NoDevice

\* An open device, or none, has at most the channels the bus has.
LEMMA InputsFit == ASSUME NEW d \in DvOpen PROVE d.inputs \in 0..DvMax
<1>1. DvMax \in Nat /\ \A e \in DvDevices : e.inputs \in 0..DvMax
  BY DvAssumption
<1>2. 0 \in 0..DvMax
  BY <1>1
<1> QED BY <1>1, <1>2, NoInputs DEF DvOpen

\* The fault line counts what every source has said.
LEMMA FaultCounts ==
  ASSUME NEW a, NEW t, NEW n
  PROVE  selectFault(a, t, n).sequence = DvSum(a, t, n)
<1>1. CASE a.kind # "None"
  BY <1>1, Zenon DEF selectFault, DvSum
<1>2. CASE a.kind = "None" /\ t.kind # "None"
  BY <1>2, Zenon DEF selectFault, DvSum
<1>3. CASE a.kind = "None" /\ t.kind = "None" /\ n > 0
  BY <1>3, Zenon DEF selectFault, DvSum
<1>4. CASE a.kind = "None" /\ t.kind = "None" /\ ~(n > 0)
  BY <1>4, Zenon DEF selectFault, DvSum
<1> QED BY <1>1, <1>2, <1>3, <1>4

\* A fault's text is of one of the sources.
LEMMA TextType ==
  ASSUME NEW a \in DvFaults, NEW t \in DvFaults, NEW n \in Nat
  PROVE  faultText(selectFault(a, t, n)) \in DvTexts
<1>1. a.kind \in DvKinds /\ t.kind \in DvKinds /\ a.sequence \in Nat /\ t.sequence \in Nat
  BY DEF DvFaults
<1>2. PICK f : f = selectFault(a, t, n)
  OBVIOUS
<1>3. \/ f.kind = a.kind /\ f.of = a.sequence
      \/ f.kind = t.kind /\ f.of = t.sequence
      \/ f.kind = "Unacknowledged" /\ f.of = n
      \/ f.kind = "None" /\ f.of = 0
  <2>1. CASE a.kind # "None"
    BY <1>2, <2>1, Zenon DEF selectFault
  <2>2. CASE a.kind = "None" /\ t.kind # "None"
    BY <1>2, <2>2, Zenon DEF selectFault
  <2>3. CASE a.kind = "None" /\ t.kind = "None" /\ n > 0
    BY <1>2, <2>3, Zenon DEF selectFault
  <2>4. CASE a.kind = "None" /\ t.kind = "None" /\ ~(n > 0)
    BY <1>2, <2>4, Zenon DEF selectFault
  <2> QED BY <2>1, <2>2, <2>3, <2>4
<1>4. f.kind \in DvKinds \cup {"Unacknowledged"} /\ f.of \in Nat
  BY <1>1, <1>3 DEF DvKinds
<1> QED BY <1>2, <1>4 DEF faultText, DvTexts

\* What recordFault adds.
LEMMA RecordEffect ==
  ASSUME NEW f \in DvFaults, NEW kind \in DvKinds, NEW x, x = recordFault(f, kind)
  PROVE  x \in DvFaults /\ x.sequence = f.sequence + 1
BY DEF recordFault, DvFaults

\* stop() leaves the fault and the type alone.
LEMMA StopEffect ==
  ASSUME NEW io \in DvIos, NEW x, x = stop(io)
  PROVE  x \in DvIos /\ x.fault = io.fault /\ (~io.running => x = io)
<1>1. CASE ~io.running
  BY <1>1 DEF stop
<1>2. CASE io.running
  <2>1. x = [io EXCEPT !.running = FALSE, !.device = NoDevice]
    BY <1>2 DEF stop
  <2>2. x = [device |-> NoDevice, type |-> io.type, running |-> FALSE, fault |-> io.fault]
    BY <2>1, Zenon DEF DvIos
  <2>3. NoDevice \in DvOpen
    BY DEF DvOpen
  <2> QED BY <1>2, <2>2, <2>3 DEF DvIos
<1> QED BY <1>1, <1>2

\* start() always has something to say.
LEMMA StartEffect ==
  ASSUME NEW io \in DvIos, NEW d \in DvOpen, NEW x, x = start(io, d)
  PROVE  x \in DvIos /\ x.fault.sequence = io.fault.sequence + 1
<1>1. io.fault \in DvFaults /\ NoDevice \in DvOpen
  BY DEF DvIos, DvOpen
<1>2. CASE d = NoDevice
  <2>1. PICK f : f = recordFault(io.fault, "OpenFailed")
    OBVIOUS
  <2>2. f \in DvFaults /\ f.sequence = io.fault.sequence + 1
    BY <1>1, <2>1, RecordEffect DEF DvKinds
  <2>3. x = [io EXCEPT !.device = NoDevice, !.fault = f]
    BY <1>2, <2>1, Zenon DEF start
  <2>4. x = [device |-> NoDevice, type |-> io.type, running |-> io.running, fault |-> f]
    BY <2>3, Zenon DEF DvIos
  <2> QED BY <1>1, <2>2, <2>4 DEF DvIos
<1>3. CASE d # NoDevice
  <2>1. PICK f : f = recordFault(io.fault, "None")
    OBVIOUS
  <2>2. f \in DvFaults /\ f.sequence = io.fault.sequence + 1
    BY <1>1, <2>1, RecordEffect DEF DvKinds
  <2>3. x = [io EXCEPT !.device = d, !.type = d.type, !.fault = f]
    BY <1>3, <2>1, Zenon DEF start
  <2>4. x = [device |-> d, type |-> d.type, running |-> io.running, fault |-> f]
    BY <2>3, Zenon DEF DvIos
  <2>5. d.type \in DvTypes
    BY DEF DvTypes
  <2> QED BY <2>2, <2>4, <2>5 DEF DvIos
<1> QED BY <1>2, <1>3

\* What a device does to the bus; the count of time-outs is not its business.
LEMMA BusEffect ==
  ASSUME NEW bus \in DvBuses, NEW d \in DvOpen, NEW io
  PROVE  /\ [bus EXCEPT !.active = FALSE] \in DvBuses /\ [bus EXCEPT !.active = FALSE].timeouts = bus.timeouts
         /\ busAfterStop(io, bus) \in DvBuses /\ busAfterStop(io, bus).timeouts = bus.timeouts
         /\ audioDeviceAboutToStart(bus, d) \in DvBuses /\ audioDeviceAboutToStart(bus, d).timeouts = bus.timeouts
         /\ busAfterStart(bus, d) \in DvBuses /\ busAfterStart(bus, d).timeouts = bus.timeouts
<1>1. [bus EXCEPT !.active = FALSE] \in DvBuses /\ [bus EXCEPT !.active = FALSE].timeouts = bus.timeouts
  BY DEF DvBuses
<1>2. busAfterStop(io, bus) \in DvBuses /\ busAfterStop(io, bus).timeouts = bus.timeouts
  BY <1>1 DEF busAfterStop
<1>3. PICK x : x = audioDeviceAboutToStart(bus, d)
  OBVIOUS
<1>4. x = [channels |-> d.inputs, active |-> TRUE, timeouts |-> bus.timeouts]
  BY <1>3, Zenon DEF audioDeviceAboutToStart, DvBuses
<1>5. d.inputs \in 0..DvMax
  BY InputsFit
<1>6. x \in DvBuses /\ x.timeouts = bus.timeouts
  BY <1>4, <1>5 DEF DvBuses
<1> QED BY <1>1, <1>2, <1>3, <1>6, Zenon DEF busAfterStart

\* What the panel reads in a refresh, and what it leaves for later.
LEMMA RefreshReads ==
  ASSUME NEW p \in DvPanels, NEW io \in DvIos, NEW x, x = refreshFromState(p, io)
  PROVE  /\ x \in DvPanels /\ DvSame(x, io) /\ x.pc = "mark"
         /\ x.sequence = p.sequence /\ x.dirty = p.dirty /\ x.painted = p.painted
<1>1. PICK notice : notice = (io.running /\ deviceTypeNotice(p.requested, io.type))
  OBVIOUS
<1>2. notice \in BOOLEAN
  BY <1>1, Zenon DEF deviceTypeNotice
<1>3. x = [running |-> io.running, type |-> io.type, device |-> io.device.name, notice |-> notice,
           requested |-> p.requested, sequence |-> p.sequence, dirty |-> p.dirty, painted |-> p.painted,
           pc |-> "mark", behind |-> "no"]
  <2>1. x = [p EXCEPT !.running = io.running, !.type = io.type, !.device = io.device.name,
                      !.notice = notice, !.pc = "mark", !.behind = "no"]
    BY <1>1, Zenon DEF refreshFromState
  <2> QED BY <2>1, ZenonT(30) DEF DvPanels
<1>4. io.device.name \in {d.name : d \in DvOpen} /\ io.running \in BOOLEAN /\ io.type \in DvTypes
  BY DEF DvIos
<1>5. x \in DvPanels
  BY <1>2, <1>3, <1>4 DEF DvPanels
<1>6. x.running = io.running /\ x.notice = notice /\ x.requested = p.requested
  BY <1>3
<1>7. DvSame(x, io)
  BY <1>1, <1>6, Zenon DEF DvSame
<1>8. x.pc = "mark" /\ x.sequence = p.sequence /\ x.dirty = p.dirty /\ x.painted = p.painted
  BY <1>3
<1> QED BY <1>5, <1>7, <1>8

\* The fault line stays true when nothing is said, and is out of date when something is.
LEMMA LineMoves ==
  ASSUME NEW p, NEW q, p.sequence \in Nat, q.sequence = p.sequence, q.dirty = p.dirty, q.painted = p.painted,
         NEW a \in DvFaults, NEW t \in DvFaults, NEW n \in Nat,
         NEW b \in DvFaults, NEW u \in DvFaults, NEW m \in Nat,
         \/ b = a /\ u = t /\ m = n
         \/ DvSum(b, u, m) > DvSum(a, t, n),
         DvLine(p, a, t, n)
  PROVE  DvLine(q, b, u, m)
<1>1. CASE b = a /\ u = t /\ m = n
  BY <1>1, Zenon DEF DvLine
<1>2. CASE DvSum(b, u, m) > DvSum(a, t, n)
  <2>1. DvSum(b, u, m) \in Nat /\ DvSum(a, t, n) \in Nat
    BY DEF DvSum, DvFaults
  <2>2. p.sequence <= DvSum(a, t, n)
    BY Zenon DEF DvLine
  <2>3. q.sequence <= DvSum(b, u, m) /\ q.sequence # DvSum(b, u, m)
    BY <1>2, <2>1, <2>2
  <2> QED BY <2>3, Zenon DEF DvLine
<1> QED BY <1>1, <1>2

\* A thread and a table keep their other parts when one is replaced.
LEMMA ThreadParts ==
  ASSUME NEW t, DvThreadOK(t), NEW v
  PROVE  /\ t.fault \in DvFaults
         /\ DvThreadOK([t EXCEPT !.positions = v]) /\ [t EXCEPT !.positions = v].fault = t.fault
         /\ v \in DvFaults => DvThreadOK([t EXCEPT !.fault = v]) /\ [t EXCEPT !.fault = v].fault = v
<1>1. PICK f, p : f \in DvFaults /\ t = [fault |-> f, positions |-> p]
  BY Zenon DEF DvThreadOK
<1>2. t.fault = f
  BY <1>1
<1>3. [t EXCEPT !.positions = v] = [fault |-> f, positions |-> v]
  BY <1>1
<1>4. [t EXCEPT !.fault = v] = [fault |-> v, positions |-> p]
  BY <1>1
<1>5. DvThreadOK([fault |-> f, positions |-> v])
  BY <1>1, Zenon DEF DvThreadOK
<1>6. v \in DvFaults => DvThreadOK([fault |-> v, positions |-> p])
  BY Zenon DEF DvThreadOK
<1>7. [fault |-> f, positions |-> v].fault = f /\ [fault |-> v, positions |-> p].fault = v
  BY Zenon
<1> QED BY <1>1, <1>2, <1>3, <1>4, <1>5, <1>6, <1>7, Zenon

\* x is t with other cells, or as of another routing.
DvRewritten(t, x) == \E v : x = [t EXCEPT !.text = v] \/ x = [t EXCEPT !.avg = v] \/ x = [t EXCEPT !.asOf = v]

\* Cells and their routing are not rows.
LEMMA TableKeeps ==
  ASSUME NEW t, DvTableOK(t), NEW x, DvRewritten(t, x)
  PROVE  DvTableOK(x) /\ x.rows = t.rows /\ x.names = t.names
<1>0. PICK v : x = [t EXCEPT !.text = v] \/ x = [t EXCEPT !.avg = v] \/ x = [t EXCEPT !.asOf = v]
  BY Zenon DEF DvRewritten
<1>1. PICK n, r, c, a, f : /\ t = [names |-> n, rows |-> r, text |-> c, avg |-> a, asOf |-> f]
                           /\ n[2] \in 0..DvMax /\ r \in 0..DvMax
  BY Zenon DEF DvTableOK
<1>2. t.rows = r /\ t.names = n
  BY <1>1, Zenon
<1>3. \/ x = [names |-> n, rows |-> r, text |-> v, avg |-> a, asOf |-> f]
      \/ x = [names |-> n, rows |-> r, text |-> c, avg |-> v, asOf |-> f]
      \/ x = [names |-> n, rows |-> r, text |-> c, avg |-> a, asOf |-> v]
  BY <1>0, <1>1, Zenon
<1>4. DvTableOK(x)
  BY <1>1, <1>3, Zenon DEF DvTableOK
<1>5. x.rows = r /\ x.names = n
  BY <1>3
<1> QED BY <1>2, <1>4, <1>5

\* setChannelNames gives the table the names' rows.
LEMMA NamesSet ==
  ASSUME NEW t, DvTableOK(t), NEW names, names[2] \in 0..DvMax, NEW role, NEW x,
         x = setChannelNames([t EXCEPT !.names = names], names, role)
  PROVE  DvTableOK(x) /\ x.rows = names[2] /\ x.names = names
<1>1. PICK n, r, c, a, f : t = [names |-> n, rows |-> r, text |-> c, avg |-> a, asOf |-> f]
  BY Zenon DEF DvTableOK
<1>2. PICK blank : blank = [i \in 1..names[2] |-> NotApplicable]
  OBVIOUS
<1>3. PICK y : y = [[t EXCEPT !.names = names] EXCEPT !.rows = names[2], !.avg = blank]
  OBVIOUS
<1>4. [t EXCEPT !.names = names] = [names |-> names, rows |-> r, text |-> c, avg |-> a, asOf |-> f]
  BY <1>1
<1>5. y = [names |-> names, rows |-> names[2], text |-> c, avg |-> blank, asOf |-> f]
  BY <1>3, <1>4, Zenon
<1>6. DvTableOK(y)
  BY <1>5, Zenon DEF DvTableOK
<1>7. y.rows = names[2] /\ y.names = names
  BY <1>5, Zenon
<1>8. x = [y EXCEPT !.text = [i \in 1..y.rows |-> role[i]]]
  BY <1>2, <1>3, Zenon DEF setChannelNames, refreshFromConfig
<1>9. DvRewritten(y, x)
  BY <1>8, Zenon DEF DvRewritten
<1>10. DvTableOK(x) /\ x.rows = y.rows /\ x.names = y.names
  BY <1>6, <1>9, TableKeeps, Zenon
<1> QED BY <1>7, <1>10, Zenon

\* A replaced part is the one given.
LEMMA TableCells ==
  ASSUME NEW t, DvTableOK(t), NEW v
  PROVE  /\ [t EXCEPT !.text = v].text = v
         /\ [t EXCEPT !.avg = v].avg = v /\ [t EXCEPT !.avg = v].text = t.text
         /\ [t EXCEPT !.asOf = v].asOf = v /\ [t EXCEPT !.asOf = v].text = t.text /\ [t EXCEPT !.asOf = v].avg = t.avg
<1>1. PICK n, r, c, a, f : t = [names |-> n, rows |-> r, text |-> c, avg |-> a, asOf |-> f]
  BY Zenon DEF DvTableOK
<1> QED BY <1>1

\* applyChannelNames clears the roles of the channels that lose their row.
LEMMA Applied ==
  ASSUME NEW t, DvTableOK(t), NEW names, names[2] \in 0..DvMax, NEW role \in [1..DvMax -> DvRoles], NEW x,
         DvCleared(t, role, FALSE), x = applyChannelNames(t, names, role)
  PROVE  DvTableOK(x.table) /\ x.role \in [1..DvMax -> DvRoles] /\ DvCleared(x.table, x.role, FALSE)
<1>1. CASE names = t.names
  <2>1. x = [table |-> t, role |-> role]
    BY <1>1, Zenon DEF applyChannelNames
  <2>2. x.table = t /\ x.role = role
    BY <2>1
  <2> QED BY <2>2
<1>2. CASE names # t.names
  <2>1. PICK kept : kept = IF names[2] = 0 THEN role
                           ELSE [c \in 1..DvMax |-> IF c > names[2] THEN "Unused" ELSE role[c]]
    OBVIOUS
  <2>2. PICK y : y = setChannelNames([t EXCEPT !.names = names], names, kept)
    OBVIOUS
  <2>3. x = [table |-> y, role |-> kept]
    BY <1>2, <2>1, <2>2, Zenon DEF applyChannelNames
  <2>4. x.table = y /\ x.role = kept
    BY <2>3
  <2>5. DvTableOK(y) /\ y.rows = names[2] /\ y.names = names
    BY <2>2, NamesSet
  <2>6. kept \in [1..DvMax -> DvRoles]
    <3>1. CASE names[2] = 0
      BY <2>1, <3>1
    <3>2. CASE names[2] # 0
      <4>1. kept = [c \in 1..DvMax |-> IF c > names[2] THEN "Unused" ELSE role[c]]
        BY <2>1, <3>2
      <4>2. "Unused" \in DvRoles
        BY DEF DvRoles
      <4> QED BY <4>1, <4>2
    <3> QED BY <3>1, <3>2
  <2>7. ASSUME names[2] > 0, NEW c \in 1..DvMax, c > names[2] PROVE kept[c] = "Unused"
    BY <2>1, <2>7
  <2>8. DvCleared(y, kept, FALSE)
    BY <2>5, <2>7 DEF DvCleared
  <2> QED BY <2>4, <2>5, <2>6, <2>8
<1> QED BY <1>1, <1>2

\* The names of a device are as many as its inputs.
LEMMA NamesFit ==
  ASSUME NEW io \in DvIos
  PROVE  inputChannelNames(io)[2] = io.device.inputs /\ io.device.inputs \in 0..DvMax
<1>1. io.device \in DvOpen
  BY DEF DvIos
<1>2. io.device.inputs \in 0..DvMax
  BY <1>1, InputsFit
<1>3. inputChannelNames(io)[2] = io.device.inputs
  <2>1. PICK none : none = ""
    OBVIOUS
  <2>2. inputChannelNames(io) = IF io.device.inputs = 0 THEN <<none, 0>> ELSE <<io.device.name, io.device.inputs>>
    BY <2>1, Zenon DEF inputChannelNames
  <2> HIDE <2>1
  <2> QED BY <2>2
<1> QED BY <1>2, <1>3

\* The initial panel has marked and painted the silence it starts with.
LEMMA DvInitOK == ASSUME DvInit PROVE DvIInv
<1>1. PICK none : none = ""
  OBVIOUS
<1>2. PICK f : f = [kind |-> "None", sequence |-> 0]
  OBVIOUS
<1>3. f \in DvFaults /\ f.kind = "None" /\ f.sequence = 0
  BY <1>2 DEF DvFaults, DvKinds
<1>4. NoDevice \in DvOpen /\ DvMax \in Nat
  BY DvAssumption DEF DvOpen
<1>5. NoDevice.type = none /\ NoDevice.name = none
  BY <1>1, Zenon DEF NoDevice
<1>6. none \in DvTypes /\ none \in {d.name : d \in DvOpen}
  BY <1>4, <1>5, Zenon DEF DvTypes
<1>7. dvIo = [device |-> NoDevice, type |-> none, running |-> FALSE, fault |-> f]
  BY <1>1, <1>2, Zenon DEF DvInit
<1>8. dvPanel = [running |-> FALSE, type |-> none, device |-> none, notice |-> FALSE, requested |-> none,
                 sequence |-> 0, dirty |-> TRUE, painted |-> NoFault, pc |-> "idle", behind |-> "no"]
  BY <1>1, Zenon DEF DvInit
<1>9. dvThread.fault = f /\ DvThreadOK(dvThread)
  <2>1. PICK p : p = <<>>
    OBVIOUS
  <2>2. dvThread = [fault |-> f, positions |-> p]
    BY <1>2, <2>1, Zenon DEF DvInit
  <2> QED BY <1>3, <2>2 DEF DvThreadOK
<1>10. dvTable.names[2] = 0 /\ DvTableOK(dvTable)
  <2>1. PICK n : n = <<none, 0>>
    OBVIOUS
  <2>2. PICK e : e = <<>>
    OBVIOUS
  <2>3. dvTable = [names |-> n, rows |-> 0, text |-> e, avg |-> e, asOf |-> Stale]
    BY <1>1, <2>1, <2>2, Zenon DEF DvInit
  <2>4. n[2] = 0 /\ 0 \in 0..DvMax
    BY <1>4, <2>1
  <2>5. DvTableOK(dvTable)
    BY <2>3, <2>4, Zenon DEF DvTableOK
  <2>6. dvTable.names = n
    BY <2>3
  <2> QED BY <2>4, <2>5, <2>6
<1>11. dvBus \in DvBuses /\ dvBus.timeouts = 0
  <2>1. dvBus = [channels |-> 0, active |-> FALSE, timeouts |-> 0]
    BY Zenon DEF DvInit
  <2> QED BY <1>4, <2>1 DEF DvBuses
<1>12. dvRole \in [1..DvMax -> DvRoles]
  <2>1. dvRole = [c \in 1..DvMax |-> "Unused"]
    BY Zenon DEF DvInit
  <2> QED BY <2>1 DEF DvRoles
<1> HIDE <1>1
<1>13. dvIo \in DvIos /\ dvIo.fault = f /\ dvIo.running = FALSE
  BY <1>3, <1>4, <1>6, <1>7 DEF DvIos
<1>14. dvPanel \in DvPanels
  <2>1. NoFault \in DvTexts
    BY DEF NoFault, DvTexts, DvKinds
  <2> QED BY <1>6, <1>8, <2>1 DEF DvPanels
<1>15. dvPanel.running = FALSE /\ dvPanel.notice = FALSE /\ dvPanel.sequence = 0 /\ dvPanel.dirty = TRUE
  BY <1>8
<1>16. DvShape
  BY <1>9, <1>10, <1>11, <1>12, <1>13, <1>14 DEF DvShape
<1>17. DvSum(dvIo.fault, dvThread.fault, dvBus.timeouts) = 0
  BY <1>3, <1>9, <1>11, <1>13 DEF DvSum
<1>18. DvLine(dvPanel, dvIo.fault, dvThread.fault, dvBus.timeouts)
  BY <1>15, <1>17 DEF DvLine
<1>19. DvSame(dvPanel, dvIo)
  BY <1>13, <1>15, Zenon DEF DvSame
<1>20. DvCleared(dvTable, dvRole, dvMode)
  BY <1>10 DEF DvCleared
<1> QED BY <1>16, <1>18, <1>19, <1>20, Zenon DEF DvIInv, DvFollows

\* What the invariant says of the counts.
LEMMA DvTyped ==
  ASSUME DvIInv
  PROVE  /\ dvIo \in DvIos /\ dvIo.fault \in DvFaults /\ dvThread.fault \in DvFaults
         /\ dvBus \in DvBuses /\ dvBus.timeouts \in Nat /\ dvPanel \in DvPanels /\ dvPanel.sequence \in Nat
         /\ dvRole \in [1..DvMax -> DvRoles] /\ DvThreadOK(dvThread) /\ DvTableOK(dvTable)
         /\ DvSum(dvIo.fault, dvThread.fault, dvBus.timeouts) \in Nat
         /\ dvPanel.sequence <= DvSum(dvIo.fault, dvThread.fault, dvBus.timeouts)
<1>1. /\ dvIo \in DvIos /\ dvBus \in DvBuses /\ dvPanel \in DvPanels
      /\ dvRole \in [1..DvMax -> DvRoles] /\ DvThreadOK(dvThread) /\ DvTableOK(dvTable)
  BY DEF DvIInv, DvShape
<1>2. dvThread.fault \in DvFaults
  BY <1>1, ThreadParts
<1>3. dvIo.fault \in DvFaults /\ dvBus.timeouts \in Nat /\ dvPanel.sequence \in Nat
  BY <1>1 DEF DvIos, DvBuses, DvPanels
<1>4. DvSum(dvIo.fault, dvThread.fault, dvBus.timeouts) \in Nat
  BY <1>2, <1>3 DEF DvSum, DvFaults
<1>5. dvPanel.sequence <= DvSum(dvIo.fault, dvThread.fault, dvBus.timeouts)
  BY DEF DvIInv, DvLine
<1> QED BY <1>1, <1>2, <1>3, <1>4, <1>5

\* Every step that ends in a refresh: the panel reads AudioIo as the step leaves it.
LEMMA DvRefreshed ==
  ASSUME DvIInv, NEW p \in DvPanels,
         p.sequence = dvPanel.sequence, p.dirty = dvPanel.dirty, p.painted = dvPanel.painted,
         dvPanel' = refreshFromState(p, dvIo'), UNCHANGED <<dvRole, dvThread, dvTable, dvMode>>,
         dvIo' \in DvIos, dvIo'.fault = dvIo.fault \/ dvIo'.fault.sequence = dvIo.fault.sequence + 1,
         dvBus' \in DvBuses, dvBus'.timeouts = dvBus.timeouts
  PROVE  DvIInv'
<1> USE DvTyped
<1>1. /\ dvPanel' \in DvPanels /\ DvSame(dvPanel', dvIo') /\ dvPanel'.pc = "mark"
      /\ dvPanel'.sequence = dvPanel.sequence /\ dvPanel'.dirty = dvPanel.dirty /\ dvPanel'.painted = dvPanel.painted
  BY RefreshReads
<1>2. DvShape'
  BY <1>1 DEF DvShape
<1>3. dvIo'.fault \in DvFaults
  BY DEF DvIos
<1>4. \/ dvIo'.fault = dvIo.fault
      \/ DvSum(dvIo'.fault, dvThread.fault, dvBus.timeouts) > DvSum(dvIo.fault, dvThread.fault, dvBus.timeouts)
  BY <1>3, SMTT(30) DEF DvSum, DvFaults
<1>5. DvLine(dvPanel, dvIo.fault, dvThread.fault, dvBus.timeouts)
  BY DEF DvIInv
<1>6. DvLine(dvPanel', dvIo'.fault, dvThread.fault, dvBus.timeouts)
  BY <1>1, <1>3, <1>4, <1>5, LineMoves
<1>7. DvCleared(dvTable', dvRole', dvMode')
  BY DEF DvIInv
<1>8. dvThread'.fault = dvThread.fault
  OBVIOUS
<1> QED BY <1>1, <1>2, <1>6, <1>7, <1>8, Zenon DEF DvIInv, DvFollows

\* A step that only says something new puts the line and the button out of date, whatever they show.
LEMMA DvSaid ==
  ASSUME DvIInv, DvShape', UNCHANGED <<dvRole, dvTable, dvMode>>,
         dvIo'.fault \in DvFaults, dvThread'.fault \in DvFaults, dvBus'.timeouts \in Nat,
         dvPanel'.sequence = dvPanel.sequence, dvPanel'.dirty = dvPanel.dirty, dvPanel'.painted = dvPanel.painted,
         DvSum(dvIo'.fault, dvThread'.fault, dvBus'.timeouts) > DvSum(dvIo.fault, dvThread.fault, dvBus.timeouts),
         dvPanel'.behind = "no" /\ dvPanel'.pc = "mark" => DvSame(dvPanel', dvIo')
  PROVE  DvIInv'
<1> USE DvTyped
<1>1. DvLine(dvPanel, dvIo.fault, dvThread.fault, dvBus.timeouts)
  BY DEF DvIInv
<1>2. DvLine(dvPanel', dvIo'.fault, dvThread'.fault, dvBus'.timeouts)
  BY <1>1, LineMoves, SMTT(30)
<1>3. DvSum(dvIo'.fault, dvThread'.fault, dvBus'.timeouts) \in Nat
  BY DEF DvSum, DvFaults
<1>4. dvPanel'.sequence # DvSum(dvIo'.fault, dvThread'.fault, dvBus'.timeouts)
  BY <1>3
<1>5. DvFollows(dvPanel', dvIo', DvSum(dvIo'.fault, dvThread'.fault, dvBus'.timeouts))
  BY <1>4, Zenon DEF DvFollows
<1>6. DvCleared(dvTable', dvRole', dvMode')
  BY DEF DvIInv
<1> QED BY <1>2, <1>5, <1>6, Zenon DEF DvIInv

\* A handler that opened a device has said so, and refreshes after running_ is stored; any other refreshes.
LEMMA DvStartedStep ==
  ASSUME DvIInv, NEW d \in DvOpen, NEW p \in DvPanels,
         p.sequence = dvPanel.sequence, p.dirty = dvPanel.dirty, p.painted = dvPanel.painted,
         dvPanel' = afterStart(p, dvIo', d), UNCHANGED <<dvRole, dvThread, dvTable, dvMode>>,
         dvIo' \in DvIos, dvBus' \in DvBuses, dvBus'.timeouts = dvBus.timeouts,
         \/ dvIo'.fault.sequence = dvIo.fault.sequence + 1
         \/ d = NoDevice /\ dvIo'.fault = dvIo.fault
  PROVE  DvIInv'
<1> USE DvTyped
<1>1. CASE d = NoDevice
  <2>1. dvPanel' = refreshFromState(p, dvIo')
    BY <1>1 DEF afterStart
  <2> QED BY <2>1, DvRefreshed
<1>2. CASE d # NoDevice
  <2>1. dvPanel' = [p EXCEPT !.pc = "store"]
    BY <1>2 DEF afterStart
  <2>2. /\ dvPanel' \in DvPanels /\ dvPanel'.sequence = dvPanel.sequence
        /\ dvPanel'.dirty = dvPanel.dirty /\ dvPanel'.painted = dvPanel.painted /\ dvPanel'.pc = "store"
    BY <2>1 DEF DvPanels
  <2>3. DvShape'
    BY <2>2 DEF DvShape
  <2>4. dvIo'.fault \in DvFaults /\ dvThread'.fault = dvThread.fault
    BY DEF DvIos
  <2>5. DvSum(dvIo'.fault, dvThread'.fault, dvBus'.timeouts) > DvSum(dvIo.fault, dvThread.fault, dvBus.timeouts)
    BY <1>2, <2>4, SMTT(30) DEF DvSum, DvFaults
  <2> QED BY <2>2, <2>3, <2>4, <2>5, DvSaid
<1> QED BY <1>1, <1>2

\* Reopening a device, or choosing one for later.
LEMMA DvRestartStep ==
  ASSUME DvIInv, NEW d \in DvOpen, NEW p \in DvPanels,
         p.sequence = dvPanel.sequence, p.dirty = dvPanel.dirty, p.painted = dvPanel.painted,
         DvRestart(d), dvPanel' = afterStart(p, dvIo', d), UNCHANGED <<dvRole, dvThread, dvTable, dvMode>>
  PROVE  DvIInv'
<1> USE DvTyped
<1>1. CASE dvIo.running
  <2>1. dvIo' = start(stop(dvIo), d) /\ dvBus' = busAfterStart(busAfterStop(dvIo, dvBus), d)
    BY <1>1 DEF DvRestart
  <2>2. PICK x : x = stop(dvIo)
    OBVIOUS
  <2>3. x \in DvIos /\ x.fault = dvIo.fault
    BY <2>2, StopEffect
  <2>4. dvIo' \in DvIos /\ dvIo'.fault.sequence = dvIo.fault.sequence + 1
    BY <2>1, <2>2, <2>3, StartEffect
  <2>5. PICK b : b = busAfterStop(dvIo, dvBus)
    OBVIOUS
  <2>6. b \in DvBuses /\ b.timeouts = dvBus.timeouts
    BY <2>5, BusEffect
  <2>7. dvBus' \in DvBuses /\ dvBus'.timeouts = dvBus.timeouts
    BY <2>1, <2>5, <2>6, BusEffect
  <2> QED BY <2>4, <2>7, DvStartedStep
<1>2. CASE ~dvIo.running
  <2>1. d = NoDevice /\ dvIo' = dvIo /\ dvBus' = dvBus
    BY <1>2 DEF DvRestart
  <2> QED BY <2>1, DvStartedStep
<1> QED BY <1>1, <1>2

\* The controls of the panel and its timer.
LEMMA DvControls ==
  ASSUME DvIInv,
         \/ DvPanelTimer \/ DvStored
         \/ \E d \in DvOpen : \/ DvStartStop(d) \/ deviceChanged(d)
                              \/ \E t \in {e.type : e \in DvDevices} : deviceTypeChanged(t, d)
         \/ \E ok \in BOOLEAN : DvReconfigure(ok)
  PROVE  DvIInv'
<1> USE DvTyped
<1>1. CASE DvPanelTimer
  <2>1. /\ dvPanel' = refreshFromState(dvPanel, dvIo') /\ dvIo' = dvIo /\ dvBus' = dvBus
        /\ UNCHANGED <<dvRole, dvThread, dvTable, dvMode>>
    BY <1>1, Zenon DEF DvPanelTimer
  <2> QED BY <2>1, DvRefreshed
<1>2. ASSUME NEW d \in DvOpen, DvStartStop(d) PROVE DvIInv'
  <2>1. dvPanel' = afterStart(dvPanel, dvIo', d) /\ UNCHANGED <<dvRole, dvThread, dvTable, dvMode>>
    BY <1>2, Zenon DEF DvStartStop
  <2>2. CASE dvIo.running
    <3>1. d = NoDevice /\ dvIo' = stop(dvIo) /\ dvBus' = busAfterStop(dvIo, dvBus)
      BY <1>2, <2>2, Zenon DEF DvStartStop
    <3>2. dvIo' \in DvIos /\ dvIo'.fault = dvIo.fault
      BY <3>1, StopEffect
    <3>3. dvBus' \in DvBuses /\ dvBus'.timeouts = dvBus.timeouts
      BY <3>1, BusEffect
    <3> QED BY <2>1, <3>1, <3>2, <3>3, DvStartedStep
  <2>3. CASE ~dvIo.running
    <3>1. dvIo' = start(dvIo, d) /\ dvBus' = busAfterStart(dvBus, d)
      BY <1>2, <2>3, Zenon DEF DvStartStop
    <3>2. dvIo' \in DvIos /\ dvIo'.fault.sequence = dvIo.fault.sequence + 1
      BY <3>1, StartEffect
    <3>3. dvBus' \in DvBuses /\ dvBus'.timeouts = dvBus.timeouts
      BY <3>1, BusEffect
    <3> QED BY <2>1, <3>1, <3>2, <3>3, DvStartedStep
  <2> QED BY <2>2, <2>3
<1>3. ASSUME NEW d \in DvOpen, deviceChanged(d) PROVE DvIInv'
  <2>1. /\ DvRestart(d) /\ dvPanel' = afterStart(dvPanel, dvIo', d)
        /\ UNCHANGED <<dvRole, dvThread, dvTable, dvMode>>
    BY <1>3, Zenon DEF deviceChanged
  <2> QED BY <2>1, DvRestartStep
<1>4. ASSUME NEW d \in DvOpen, NEW t \in {e.type : e \in DvDevices}, deviceTypeChanged(t, d) PROVE DvIInv'
  <2>1. PICK p : p = [dvPanel EXCEPT !.requested = t]
    OBVIOUS
  <2>2. /\ DvRestart(d) /\ dvPanel' = afterStart(p, dvIo', d)
        /\ UNCHANGED <<dvRole, dvThread, dvTable, dvMode>>
    BY <1>4, <2>1, Zenon DEF deviceTypeChanged
  <2>3. t \in DvTypes
    BY Zenon DEF DvTypes, DvOpen
  <2>4. /\ p \in DvPanels
        /\ p.sequence = dvPanel.sequence /\ p.dirty = dvPanel.dirty /\ p.painted = dvPanel.painted
    BY <2>1, <2>3 DEF DvPanels
  <2> QED BY <2>2, <2>4, DvRestartStep
<1>5. ASSUME NEW ok \in BOOLEAN, DvReconfigure(ok) PROVE DvIInv'
  <2>1. dvPanel' = refreshFromState(dvPanel, dvIo') /\ UNCHANGED <<dvRole, dvThread, dvTable, dvMode>>
    BY <1>5, Zenon DEF DvReconfigure
  <2>2. dvIo' \in DvIos /\ dvIo'.fault = dvIo.fault
    <3>1. dvIo' = dvIo \/ dvIo' = [dvIo EXCEPT !.device = NoDevice]
      BY <1>5, Zenon DEF DvReconfigure
    <3>2. NoDevice \in DvOpen
      BY DEF DvOpen
    <3> QED BY <3>1, <3>2 DEF DvIos
  <2>3. dvBus' \in DvBuses /\ dvBus'.timeouts = dvBus.timeouts
    <3>1. dvBus' = audioDeviceAboutToStart(dvBus, dvIo.device) \/ dvBus' = [dvBus EXCEPT !.active = FALSE]
      BY <1>5, Zenon DEF DvReconfigure
    <3>2. dvIo.device \in DvOpen
      BY DEF DvIos
    <3>3. audioDeviceAboutToStart(dvBus, dvIo.device) \in DvBuses /\ [dvBus EXCEPT !.active = FALSE] \in DvBuses
      BY <3>2, BusEffect, Zenon
    <3>4. /\ audioDeviceAboutToStart(dvBus, dvIo.device).timeouts = dvBus.timeouts
          /\ [dvBus EXCEPT !.active = FALSE].timeouts = dvBus.timeouts
      BY <3>2, BusEffect, Zenon
    <3> QED BY <3>1, <3>3, <3>4, Zenon
  <2> QED BY <2>1, <2>2, <2>3, DvRefreshed
<1>6. CASE DvStored
  <2>1. /\ dvIo' = [dvIo EXCEPT !.running = TRUE] /\ dvPanel' = refreshFromState(dvPanel, dvIo')
        /\ dvBus' = dvBus /\ UNCHANGED <<dvRole, dvThread, dvTable, dvMode>>
    BY <1>6, Zenon DEF DvStored
  <2>2. dvIo' \in DvIos /\ dvIo'.fault = dvIo.fault
    BY <2>1 DEF DvIos
  <2> QED BY <2>1, <2>2, DvRefreshed
<1> QED BY <1>1, <1>2, <1>3, <1>4, <1>5, <1>6

\* The second step of a refresh counts everything said so far; nothing is painted yet.
LEMMA DvMarkStep == ASSUME DvIInv, DvMark PROVE DvIInv'
<1> USE DvTyped
<1>1. /\ dvPanel.pc = "mark" /\ UNCHANGED <<dvIo, dvBus, dvRole, dvThread, dvTable, dvMode>>
      /\ dvPanel' = [dvPanel EXCEPT !.pc = "idle", !.sequence = currentFault.sequence, !.dirty = TRUE]
  BY Zenon DEF DvMark
<1>2. PICK s : s = DvSum(dvIo.fault, dvThread.fault, dvBus.timeouts)
  OBVIOUS
<1>3. currentFault.sequence = s
  BY <1>2, FaultCounts DEF currentFault
<1>4. dvPanel' = [running |-> dvPanel.running, type |-> dvPanel.type, device |-> dvPanel.device,
                  notice |-> dvPanel.notice, requested |-> dvPanel.requested, sequence |-> s, dirty |-> TRUE,
                  painted |-> dvPanel.painted, pc |-> "idle", behind |-> dvPanel.behind]
  <2>1. dvPanel' = [dvPanel EXCEPT !.pc = "idle", !.sequence = s, !.dirty = TRUE]
    BY <1>1, <1>3
  <2> QED BY <2>1, ZenonT(30) DEF DvPanels
<1>5. dvPanel' \in DvPanels
  BY <1>2, <1>4 DEF DvPanels
<1>6. /\ dvPanel'.running = dvPanel.running /\ dvPanel'.notice = dvPanel.notice
      /\ dvPanel'.requested = dvPanel.requested /\ dvPanel'.behind = dvPanel.behind
      /\ dvPanel'.sequence = s /\ dvPanel'.dirty = TRUE
  BY <1>4
<1>7. DvShape'
  BY <1>1, <1>5 DEF DvShape
<1>8. DvLine(dvPanel', dvIo'.fault, dvThread'.fault, dvBus'.timeouts)
  BY <1>1, <1>2, <1>6 DEF DvLine
<1>9. dvPanel'.behind = "no" => DvSame(dvPanel', dvIo')
  <2>1. dvPanel.behind = "no" => DvSame(dvPanel, dvIo)
    BY <1>1, Zenon DEF DvIInv, DvFollows
  <2> QED BY <1>1, <1>6, <2>1, Zenon DEF DvSame
<1>10. DvCleared(dvTable', dvRole', dvMode')
  BY <1>1 DEF DvIInv
<1> QED BY <1>7, <1>8, <1>9, <1>10, Zenon DEF DvIInv, DvFollows

\* What is painted is the fault of the moment.
LEMMA DvPaintStep == ASSUME DvIInv, DvPaint PROVE DvIInv'
<1> USE DvTyped
<1>1. /\ dvPanel' = [dvPanel EXCEPT !.dirty = FALSE, !.painted = faultText(currentFault)]
      /\ UNCHANGED <<dvIo, dvBus, dvRole, dvThread, dvTable, dvMode>>
  BY Zenon DEF DvPaint
<1>2. PICK f : f = faultText(currentFault)
  OBVIOUS
<1>3. f \in DvTexts
  BY <1>2, TextType DEF currentFault
<1>4. dvPanel' = [running |-> dvPanel.running, type |-> dvPanel.type, device |-> dvPanel.device,
                  notice |-> dvPanel.notice, requested |-> dvPanel.requested, sequence |-> dvPanel.sequence,
                  dirty |-> FALSE, painted |-> f, pc |-> dvPanel.pc, behind |-> dvPanel.behind]
  BY <1>1, <1>2, ZenonT(30) DEF DvPanels
<1>5. dvPanel' \in DvPanels
  BY <1>3, <1>4 DEF DvPanels
<1>6. /\ dvPanel'.running = dvPanel.running /\ dvPanel'.notice = dvPanel.notice
      /\ dvPanel'.requested = dvPanel.requested /\ dvPanel'.behind = dvPanel.behind
      /\ dvPanel'.sequence = dvPanel.sequence /\ dvPanel'.painted = f /\ dvPanel'.pc = dvPanel.pc
  BY <1>4
<1>7. DvShape'
  BY <1>1, <1>5 DEF DvShape
<1>8. DvLine(dvPanel', dvIo'.fault, dvThread'.fault, dvBus'.timeouts)
  BY <1>1, <1>2, <1>6 DEF DvLine, currentFault
<1>9. DvFollows(dvPanel', dvIo', DvSum(dvIo.fault, dvThread.fault, dvBus.timeouts))
  <2>1. DvFollows(dvPanel, dvIo, DvSum(dvIo.fault, dvThread.fault, dvBus.timeouts))
    BY DEF DvIInv
  <2> QED BY <1>1, <1>6, <2>1, Zenon DEF DvFollows, DvSame
<1>10. DvCleared(dvTable', dvRole', dvMode')
  BY <1>1 DEF DvIInv
<1> QED BY <1>1, <1>7, <1>8, <1>9, <1>10, Zenon DEF DvIInv

\* A step that says nothing and leaves the panel, the running flag and the type alone.
LEMMA DvQuiet ==
  ASSUME DvIInv, DvShape', dvPanel' = dvPanel, dvIo'.running = dvIo.running, dvIo'.type = dvIo.type,
         dvIo'.fault = dvIo.fault, dvThread'.fault = dvThread.fault, dvBus'.timeouts = dvBus.timeouts,
         DvCleared(dvTable', dvRole', dvMode')
  PROVE  DvIInv'
<1>1. DvLine(dvPanel', dvIo'.fault, dvThread'.fault, dvBus'.timeouts)
  BY DEF DvIInv
<1>2. DvFollows(dvPanel, dvIo, DvSum(dvIo.fault, dvThread.fault, dvBus.timeouts))
  BY DEF DvIInv
<1>3. DvFollows(dvPanel', dvIo', DvSum(dvIo'.fault, dvThread'.fault, dvBus'.timeouts))
  BY <1>2, Zenon DEF DvFollows, DvSame
<1> QED BY <1>1, <1>3, Zenon DEF DvIInv

\* The device thread reports an error, perhaps inside a refresh.
LEMMA DvErrorStep == ASSUME DvIInv, audioDeviceError PROVE DvIInv'
<1> USE DvTyped
<1>1. PICK f : f = recordFault(dvIo.fault, "DeviceError")
  OBVIOUS
<1>2. f \in DvFaults /\ f.sequence = dvIo.fault.sequence + 1
  BY <1>1, RecordEffect DEF DvKinds
<1>3. /\ dvIo' = [dvIo EXCEPT !.running = FALSE, !.fault = f] /\ dvBus' = [dvBus EXCEPT !.active = FALSE]
      /\ dvPanel' = IF PanelIdle THEN dvPanel ELSE [dvPanel EXCEPT !.behind = "race"]
      /\ UNCHANGED <<dvRole, dvThread, dvTable, dvMode>>
  BY <1>1, Zenon DEF audioDeviceError
<1>4. dvIo' = [device |-> dvIo.device, type |-> dvIo.type, running |-> FALSE, fault |-> f]
  BY <1>3, Zenon DEF DvIos
<1>5. dvIo' \in DvIos /\ dvIo'.fault = f
  BY <1>2, <1>4 DEF DvIos
<1>6. dvBus' \in DvBuses /\ dvBus'.timeouts = dvBus.timeouts
  BY <1>3 DEF DvBuses
<1>7. /\ dvPanel' \in DvPanels /\ dvPanel'.sequence = dvPanel.sequence
      /\ dvPanel'.dirty = dvPanel.dirty /\ dvPanel'.painted = dvPanel.painted
      /\ ~(dvPanel'.behind = "no" /\ dvPanel'.pc = "mark")
  BY <1>3 DEF DvPanels, PanelIdle
<1>8. DvShape'
  BY <1>3, <1>5, <1>6, <1>7 DEF DvShape
<1>9. dvThread'.fault = dvThread.fault
  BY <1>3
<1>10. DvSum(dvIo'.fault, dvThread'.fault, dvBus'.timeouts) > DvSum(dvIo.fault, dvThread.fault, dvBus.timeouts)
  BY <1>2, <1>5, <1>6, <1>9 DEF DvSum, DvFaults
<1> QED BY <1>2, <1>3, <1>5, <1>6, <1>7, <1>8, <1>9, <1>10, DvSaid

\* Unplugging says nothing; a time-out and the analysis thread each say one thing more.
LEMMA DvOtherThreads ==
  ASSUME DvIInv, audioDeviceStopped \/ DvTimeout \/ \E kind \in {"Recovering", "None", "Stopped"} : DvThreadFault(kind)
  PROVE  DvIInv'
<1> USE DvTyped
<1>0. DvCleared(dvTable, dvRole, dvMode)
  BY DEF DvIInv
<1>1. CASE audioDeviceStopped
  <2>1. /\ dvIo' = [dvIo EXCEPT !.device = NoDevice] /\ dvBus' = [dvBus EXCEPT !.active = FALSE]
        /\ UNCHANGED <<dvRole, dvThread, dvPanel, dvTable, dvMode>>
    BY <1>1, Zenon DEF audioDeviceStopped
  <2>2. NoDevice \in DvOpen
    BY DEF DvOpen
  <2>3. /\ dvIo' \in DvIos /\ dvIo'.fault = dvIo.fault /\ dvIo'.type = dvIo.type /\ dvIo'.running = dvIo.running
    BY <2>1, <2>2 DEF DvIos
  <2>4. dvBus' \in DvBuses /\ dvBus'.timeouts = dvBus.timeouts
    BY <2>1 DEF DvBuses
  <2>5. DvShape'
    BY <2>1, <2>3, <2>4 DEF DvShape
  <2>6. dvThread'.fault = dvThread.fault /\ DvCleared(dvTable', dvRole', dvMode')
    BY <1>0, <2>1
  <2> QED BY <2>1, <2>3, <2>4, <2>5, <2>6, DvQuiet
<1>2. DvFollows(dvPanel, dvIo, DvSum(dvIo.fault, dvThread.fault, dvBus.timeouts))
  BY DEF DvIInv
<1>3. dvPanel.behind = "no" /\ dvPanel.pc = "mark" => DvSame(dvPanel, dvIo)
  BY <1>2, Zenon DEF DvFollows
<1>4. CASE DvTimeout
  <2>1. /\ dvBus' = [dvBus EXCEPT !.timeouts = @ + 1]
        /\ UNCHANGED <<dvIo, dvRole, dvThread, dvPanel, dvTable, dvMode>>
    BY <1>4, Zenon DEF DvTimeout
  <2>2. dvBus' \in DvBuses /\ dvBus'.timeouts = dvBus.timeouts + 1
    BY <2>1 DEF DvBuses
  <2>3. DvShape'
    BY <2>1, <2>2 DEF DvShape
  <2>4. DvSum(dvIo'.fault, dvThread'.fault, dvBus'.timeouts) > DvSum(dvIo.fault, dvThread.fault, dvBus.timeouts)
    BY <2>1, <2>2 DEF DvSum, DvFaults
  <2>5. dvPanel'.behind = "no" /\ dvPanel'.pc = "mark" => DvSame(dvPanel', dvIo')
    BY <1>3, <2>1, Zenon
  <2> QED BY <2>1, <2>2, <2>3, <2>4, <2>5, DvSaid
<1>5. ASSUME NEW kind \in {"Recovering", "None", "Stopped"}, DvThreadFault(kind) PROVE DvIInv'
  <2>1. PICK f : f = recordFault(dvThread.fault, kind)
    OBVIOUS
  <2>2. /\ dvThread' = [dvThread EXCEPT !.fault = f]
        /\ UNCHANGED <<dvIo, dvBus, dvRole, dvPanel, dvTable, dvMode>>
    BY <1>5, <2>1, Zenon DEF DvThreadFault
  <2>3. f \in DvFaults /\ f.sequence = dvThread.fault.sequence + 1
    BY <2>1, RecordEffect DEF DvKinds
  <2>4. DvThreadOK(dvThread') /\ dvThread'.fault = f
    BY <2>2, <2>3, ThreadParts
  <2>5. DvShape'
    BY <2>2, <2>4 DEF DvShape
  <2>6. DvSum(dvIo'.fault, dvThread'.fault, dvBus'.timeouts) > DvSum(dvIo.fault, dvThread.fault, dvBus.timeouts)
    BY <2>2, <2>3, <2>4 DEF DvSum, DvFaults
  <2>7. dvPanel'.behind = "no" /\ dvPanel'.pc = "mark" => DvSame(dvPanel', dvIo')
    BY <1>3, <2>2, Zenon
  <2> QED BY <2>2, <2>3, <2>4, <2>5, <2>6, <2>7, DvSaid
<1> QED BY <1>1, <1>4, <1>5

\* A snapshot moves positions only, and the cells may go stale.
LEMMA DvPublishStep == ASSUME DvIInv, DvPublish PROVE DvIInv'
<1> USE DvTyped
<1>1. PICK v, w : /\ dvThread' = [dvThread EXCEPT !.positions = v] /\ dvTable' = [dvTable EXCEPT !.asOf = w]
                  /\ UNCHANGED <<dvIo, dvBus, dvRole, dvPanel, dvMode>>
  BY Zenon DEF DvPublish
<1>2. DvThreadOK(dvThread') /\ dvThread'.fault = dvThread.fault
  BY <1>1, ThreadParts
<1>3. DvTableOK(dvTable') /\ dvTable'.rows = dvTable.rows /\ dvTable'.names = dvTable.names
  <2>1. DvRewritten(dvTable, dvTable')
    BY <1>1, Zenon DEF DvRewritten
  <2> QED BY <2>1, TableKeeps
<1>4. DvShape'
  BY <1>1, <1>2, <1>3 DEF DvShape
<1>5. DvCleared(dvTable', dvRole', dvMode')
  BY <1>1, <1>3 DEF DvIInv, DvCleared
<1> QED BY <1>1, <1>2, <1>4, <1>5, DvQuiet

\* Clicks reach only channels that have a row.
LEMMA DvClickStep ==
  ASSUME DvIInv, NEW c \in 1..DvMax, onCellClicked(c) \/ listBoxItemClicked(c)
  PROVE  DvIInv'
<1> USE DvTyped
<1>1. /\ c <= dvTable.rows /\ dvRole' = [dvRole EXCEPT ![c] = nextRole(@)]
      /\ UNCHANGED <<dvIo, dvBus, dvThread, dvPanel, dvMode>>
  BY Zenon DEF onCellClicked, listBoxItemClicked, SetRole
<1>2. nextRole(dvRole[c]) \in DvRoles
  BY DEF nextRole, DvRoles
<1>3. dvRole' \in [1..DvMax -> DvRoles] /\ \A i \in 1..DvMax : i # c => dvRole'[i] = dvRole[i]
  BY <1>1, <1>2
<1>4. DvTableOK(dvTable') /\ dvTable'.rows = dvTable.rows /\ dvTable'.names = dvTable.names
  <2>1. CASE onCellClicked(c)
    <3>1. PICK y : y = refreshFromConfig(dvTable, dvRole')
      OBVIOUS
    <3>2. dvTable' = [y EXCEPT !.asOf = Stale]
      BY <2>1, <3>1, Zenon DEF onCellClicked
    <3>3. y = [dvTable EXCEPT !.text = [i \in 1..dvTable.rows |-> dvRole'[i]]]
      BY <3>1, Zenon DEF refreshFromConfig
    <3>4. DvTableOK(y) /\ y.rows = dvTable.rows /\ y.names = dvTable.names
      <4>1. DvRewritten(dvTable, y)
        BY <3>3, Zenon DEF DvRewritten
      <4> QED BY <4>1, TableKeeps
    <3>5. DvRewritten(y, dvTable')
      BY <3>2, Zenon DEF DvRewritten
    <3> QED BY <3>4, <3>5, TableKeeps
  <2>2. CASE listBoxItemClicked(c)
    <3>1. dvTable' = [dvTable EXCEPT !.asOf = Stale]
      BY <2>2, Zenon DEF listBoxItemClicked
    <3>2. DvRewritten(dvTable, dvTable')
      BY <3>1, Zenon DEF DvRewritten
    <3> QED BY <3>2, TableKeeps
  <2> QED BY <2>1, <2>2
<1>5. DvShape'
  BY <1>1, <1>3, <1>4 DEF DvShape
<1>6. dvTable.rows \in Nat
  <2>1. PICK n, r, x, a, f : dvTable = [names |-> n, rows |-> r, text |-> x, avg |-> a, asOf |-> f] /\ r \in 0..DvMax
    BY Zenon DEF DvTableOK
  <2> QED BY <2>1
<1>7. DvCleared(dvTable', dvRole', dvMode')
  <2>1. DvCleared(dvTable, dvRole, dvMode)
    BY DEF DvIInv
  <2> QED BY <1>1, <1>3, <1>4, <1>6, <2>1 DEF DvCleared
<1> QED BY <1>1, <1>5, <1>7, DvQuiet

\* The timer of the main window applies the names of the device, unless the input is synthetic.
LEMMA DvMainTimerStep == ASSUME DvIInv, DvMainTimer PROVE DvIInv'
<1> USE DvTyped
<1>1. PICK y : y = refreshFromConfig(dvTable, dvRole)
  OBVIOUS
<1>2. PICK shown : shown = updateMembership(y, currentRoutingPlan, dvThread.positions)
  OBVIOUS
<1>3. PICK named : named = IF dvMode THEN [table |-> shown, role |-> dvRole]
                           ELSE applyChannelNames(shown, inputChannelNames(dvIo), dvRole)
  OBVIOUS
<1>4. PICK v : /\ dvTable' = [named.table EXCEPT !.asOf = v] /\ dvRole' = named.role
               /\ UNCHANGED <<dvIo, dvBus, dvThread, dvPanel, dvMode>>
  BY <1>1, <1>2, <1>3, Zenon DEF DvMainTimer
<1>5. DvTableOK(y) /\ y.rows = dvTable.rows /\ y.names = dvTable.names
  <2>1. y = [dvTable EXCEPT !.text = [i \in 1..dvTable.rows |-> dvRole[i]]]
    BY <1>1, Zenon DEF refreshFromConfig
  <2>2. DvRewritten(dvTable, y)
    BY <2>1, Zenon DEF DvRewritten
  <2> QED BY <2>2, TableKeeps
<1>6. DvTableOK(shown) /\ shown.rows = dvTable.rows /\ shown.names = dvTable.names
  <2>1. PICK w : shown = [y EXCEPT !.avg = w]
    BY <1>2, Zenon DEF updateMembership
  <2>2. DvRewritten(y, shown)
    BY <2>1, Zenon DEF DvRewritten
  <2> QED BY <1>5, <2>2, TableKeeps
<1>7. DvTableOK(named.table) /\ named.role \in [1..DvMax -> DvRoles] /\ DvCleared(named.table, named.role, dvMode)
  <2>1. CASE dvMode
    <3>1. named = [table |-> shown, role |-> dvRole]
      BY <1>3, <2>1, Zenon
    <3>2. named.table = shown /\ named.role = dvRole
      BY <3>1
    <3> QED BY <1>6, <2>1, <3>2 DEF DvCleared
  <2>2. CASE ~dvMode
    <3>1. named = applyChannelNames(shown, inputChannelNames(dvIo), dvRole)
      BY <1>3, <2>2, Zenon
    <3>2. DvCleared(dvTable, dvRole, dvMode)
      BY DEF DvIInv
    <3>3. DvCleared(shown, dvRole, FALSE)
      BY <1>6, <2>2, <3>2 DEF DvCleared
    <3>4. inputChannelNames(dvIo)[2] \in 0..DvMax
      BY NamesFit
    <3>5. DvTableOK(named.table) /\ named.role \in [1..DvMax -> DvRoles] /\ DvCleared(named.table, named.role, FALSE)
      BY <1>6, <3>1, <3>3, <3>4, Applied
    <3> QED BY <3>5 DEF DvCleared
  <2> QED BY <2>1, <2>2
<1>8. DvTableOK(dvTable') /\ dvTable'.rows = named.table.rows /\ dvTable'.names = named.table.names
  <2>1. DvRewritten(named.table, dvTable')
    BY <1>4, Zenon DEF DvRewritten
  <2> QED BY <1>7, <2>1, TableKeeps
<1>9. DvShape'
  BY <1>4, <1>7, <1>8 DEF DvShape
<1>10. DvCleared(dvTable', dvRole', dvMode')
  BY <1>4, <1>7, <1>8 DEF DvCleared
<1> QED BY <1>4, <1>9, <1>10, DvQuiet

\* Into SYNTHETIC: the device stops, and the panel that showed it running falls behind.
LEMMA DvEnterStep == ASSUME DvIInv, DvEnterSynthetic PROVE DvIInv'
<1> USE DvTyped
<1>1. /\ dvMode' = TRUE /\ dvIo' = stop(dvIo) /\ dvBus' = [dvBus EXCEPT !.channels = DvSynthetic, !.active = TRUE]
      /\ dvRole' = [dvRole EXCEPT ![1] = "Measurement", ![2] = "Reference"]
      /\ dvThread' = dvThread
  BY Zenon DEF DvEnterSynthetic
<1>2. DvMax \in Nat /\ DvSynthetic \in 0..DvMax
  BY DvAssumption
<1>3. dvIo' \in DvIos /\ dvIo'.fault = dvIo.fault /\ (~dvIo.running => dvIo' = dvIo)
  BY <1>1, StopEffect
<1>4. dvBus' \in DvBuses /\ dvBus'.timeouts = dvBus.timeouts
  <2>1. dvBus' = [channels |-> DvSynthetic, active |-> TRUE, timeouts |-> dvBus.timeouts]
    BY <1>1, Zenon DEF DvBuses
  <2> QED BY <1>2, <2>1 DEF DvBuses
<1>5. dvRole' \in [1..DvMax -> DvRoles]
  BY <1>1 DEF DvRoles
<1>6. DvTableOK(dvTable')
  <2>1. PICK names : names = SyntheticNames
    OBVIOUS
  <2>2. names[2] \in 0..DvMax
    BY <1>2, <2>1 DEF SyntheticNames
  <2>3. PICK y : y = setChannelNames([dvTable EXCEPT !.names = names], names, dvRole')
    OBVIOUS
  <2>4. dvTable' = [y EXCEPT !.asOf = Stale]
    BY <2>1, <2>3, Zenon DEF DvEnterSynthetic
  <2>5. DvTableOK(y)
    BY <2>2, <2>3, NamesSet
  <2>6. DvRewritten(y, dvTable')
    BY <2>4, Zenon DEF DvRewritten
  <2> QED BY <2>5, <2>6, TableKeeps
<1>7. PICK b : b = IF dvIo.running THEN "synthetic" ELSE dvPanel.behind
  OBVIOUS
<1>8. dvPanel' = [dvPanel EXCEPT !.behind = b]
  BY <1>7, Zenon DEF DvEnterSynthetic
<1>9. /\ dvPanel' \in DvPanels /\ dvPanel'.behind = b /\ dvPanel'.running = dvPanel.running
      /\ dvPanel'.notice = dvPanel.notice /\ dvPanel'.requested = dvPanel.requested /\ dvPanel'.pc = dvPanel.pc
      /\ dvPanel'.sequence = dvPanel.sequence /\ dvPanel'.dirty = dvPanel.dirty /\ dvPanel'.painted = dvPanel.painted
  <2>1. b \in {"no", "race", "synthetic"}
    BY <1>7 DEF DvPanels
  <2> QED BY <1>8, <2>1 DEF DvPanels
<1>10. DvShape'
  BY <1>1, <1>3, <1>4, <1>5, <1>6, <1>9 DEF DvShape
<1>11. DvLine(dvPanel', dvIo'.fault, dvThread'.fault, dvBus'.timeouts)
  <2>1. DvLine(dvPanel, dvIo.fault, dvThread.fault, dvBus.timeouts)
    BY DEF DvIInv
  <2> QED BY <1>1, <1>3, <1>4, <1>9, <2>1, Zenon DEF DvLine
<1>12. DvFollows(dvPanel', dvIo', DvSum(dvIo'.fault, dvThread'.fault, dvBus'.timeouts))
  <2>1. CASE dvIo.running
    <3>1. b # "no"
      BY <1>7, <2>1
    <3> QED BY <1>9, <3>1 DEF DvFollows
  <2>2. CASE ~dvIo.running
    <3>1. dvIo' = dvIo /\ b = dvPanel.behind /\ dvThread' = dvThread
      BY <1>1, <1>3, <1>7, <2>2
    <3>2. DvFollows(dvPanel, dvIo, DvSum(dvIo.fault, dvThread.fault, dvBus.timeouts))
      BY DEF DvIInv
    <3> QED BY <1>4, <1>9, <3>1, <3>2, Zenon DEF DvFollows, DvSame
  <2> QED BY <2>1, <2>2
<1>13. DvCleared(dvTable', dvRole', dvMode')
  BY <1>1 DEF DvCleared
<1> QED BY <1>10, <1>11, <1>12, <1>13, Zenon DEF DvIInv

\* Out of SYNTHETIC: the tables take the names of the device, whatever they showed.
LEMMA DvLeaves ==
  ASSUME DvIInv, DvLeaveSynthetic
  PROVE  /\ DvTableOK(dvTable') /\ dvRole' \in [1..DvMax -> DvRoles] /\ DvCleared(dvTable', dvRole', dvMode')
         /\ dvTable'.asOf = Stale
<1> USE DvTyped
<1>1. PICK blank : blank = <<"", 0>>
  OBVIOUS
<1>2. PICK t : t = [dvTable EXCEPT !.names = blank]
  OBVIOUS
<1>3. PICK role : role = [dvRole EXCEPT ![1] = "Unused", ![2] = "Unused"]
  OBVIOUS
<1>4. PICK named : named = applyChannelNames(t, inputChannelNames(dvIo), role)
  OBVIOUS
<1>5. PICK y : y = refreshFromConfig(named.table, named.role)
  OBVIOUS
<1>6. /\ dvTable' = [y EXCEPT !.asOf = Stale] /\ dvRole' = named.role
      /\ dvBus' = [dvBus EXCEPT !.active = FALSE] /\ UNCHANGED <<dvIo, dvThread, dvPanel>>
  BY <1>1, <1>2, <1>3, <1>4, <1>5, Zenon DEF DvLeaveSynthetic
<1>7. role \in [1..DvMax -> DvRoles]
  BY <1>3 DEF DvRoles
<1>8. blank[2] = 0
  <2>1. PICK none : none = ""
    OBVIOUS
  <2>2. blank = <<none, 0>>
    BY <1>1, <2>1, Zenon
  <2> HIDE <1>1, <2>1
  <2> QED BY <2>2
<1> HIDE <1>1
<1>9. DvTableOK(t) /\ t.names = blank
  <2>1. PICK n, r, c, a, f : dvTable = [names |-> n, rows |-> r, text |-> c, avg |-> a, asOf |-> f] /\ r \in 0..DvMax
    BY Zenon DEF DvTableOK
  <2>2. t = [names |-> blank, rows |-> r, text |-> c, avg |-> a, asOf |-> f]
    BY <1>2, <2>1, Zenon
  <2>3. 0 \in 0..DvMax
    BY DvAssumption
  <2>4. DvTableOK(t)
    BY <1>8, <2>1, <2>2, <2>3, Zenon DEF DvTableOK
  <2> QED BY <2>2, <2>4
<1>10. DvCleared(t, role, FALSE)
  BY <1>8, <1>9 DEF DvCleared
<1>11. inputChannelNames(dvIo)[2] \in 0..DvMax
  BY NamesFit
<1>12. DvTableOK(named.table) /\ named.role \in [1..DvMax -> DvRoles] /\ DvCleared(named.table, named.role, FALSE)
  BY <1>4, <1>7, <1>9, <1>10, <1>11, Applied
<1>13. DvTableOK(y) /\ y.rows = named.table.rows /\ y.names = named.table.names
  <2>1. DvRewritten(named.table, y)
    BY <1>5, Zenon DEF refreshFromConfig, DvRewritten
  <2> QED BY <1>12, <2>1, TableKeeps, Zenon
<1>14. DvTableOK(dvTable') /\ dvTable'.rows = named.table.rows /\ dvTable'.names = named.table.names
  <2>1. DvRewritten(y, dvTable')
    BY <1>6, Zenon DEF DvRewritten
  <2> QED BY <1>13, <2>1, TableKeeps
<1>15. dvTable'.asOf = Stale
  BY <1>6, <1>13, TableCells
<1>16. DvCleared(dvTable', dvRole', dvMode')
  BY <1>6, <1>12, <1>14 DEF DvCleared
<1> QED BY <1>6, <1>12, <1>14, <1>15, <1>16

\* SYNTHETIC is left without a word to the panel, and nothing it shows has changed.
LEMMA DvLeaveStep == ASSUME DvIInv, DvLeaveSynthetic PROVE DvIInv'
<1> USE DvTyped
<1>1. dvBus' = [dvBus EXCEPT !.active = FALSE] /\ UNCHANGED <<dvIo, dvThread, dvPanel>>
  BY Zenon DEF DvLeaveSynthetic
<1>2. DvTableOK(dvTable') /\ dvRole' \in [1..DvMax -> DvRoles] /\ DvCleared(dvTable', dvRole', dvMode')
  BY DvLeaves
<1>3. dvBus' \in DvBuses /\ dvBus'.timeouts = dvBus.timeouts
  BY <1>1 DEF DvBuses
<1>4. DvShape'
  BY <1>1, <1>2, <1>3 DEF DvShape
<1> QED BY <1>1, <1>2, <1>3, <1>4, DvQuiet

\* Every step of the rail keeps the invariant.
LEMMA DvStep == ASSUME DvIInv, [DvNext]_dvVars PROVE DvIInv'
<1>1. CASE UNCHANGED dvVars
  BY <1>1, Zenon DEF dvVars, DvIInv, DvShape
<1>2. CASE DvNext
  BY <1>2, DvControls, DvMarkStep, DvPaintStep, DvMainTimerStep, DvErrorStep, DvOtherThreads, DvPublishStep,
     DvClickStep, DvEnterStep, DvLeaveStep, Zenon DEF DvNext, DvOpen
<1> QED BY <1>1, <1>2

\* The names a table is given, if they are not its own, are the ones it has afterwards.
LEMMA AppliedNames ==
  ASSUME NEW t, DvTableOK(t), NEW names, names[2] \in 0..DvMax, NEW role, NEW x,
         x = applyChannelNames(t, names, role)
  PROVE  \/ x.table = t /\ x.role = role
         \/ x.table.names # t.names
<1>1. CASE names = t.names
  <2>1. x = [table |-> t, role |-> role]
    BY <1>1, Zenon DEF applyChannelNames
  <2> QED BY <2>1
<1>2. CASE names # t.names
  <2>1. PICK y, kept : /\ x = [table |-> y, role |-> kept]
                       /\ y = setChannelNames([t EXCEPT !.names = names], names, kept)
    BY <1>2, Zenon DEF applyChannelNames
  <2>2. y.names = names
    BY <2>1, NamesSet
  <2>3. x.table = y
    BY <2>1
  <2> QED BY <1>2, <2>2, <2>3
<1> QED BY <1>1, <1>2

\* What the timer leaves in the cells, when it leaves the names alone, is of the routing of the moment.
LEMMA DvTimerCells ==
  ASSUME DvIInv, DvMainTimer
  PROVE  DvCells(dvTable', dvRole', dvThread'.positions)
<1> USE DvTyped
<1>1. PICK y : y = refreshFromConfig(dvTable, dvRole)
  OBVIOUS
<1>2. PICK plan : plan = routes(dvRole, dvBus.channels)
  OBVIOUS
<1>3. PICK shown : shown = updateMembership(y, plan, dvThread.positions)
  OBVIOUS
<1>4. PICK named : named = IF dvMode THEN [table |-> shown, role |-> dvRole]
                           ELSE applyChannelNames(shown, inputChannelNames(dvIo), dvRole)
  OBVIOUS
<1>5. PICK v : v = IF named.table.names = dvTable.names THEN dvBus.channels ELSE Stale
  OBVIOUS
<1>6. dvTable' = [named.table EXCEPT !.asOf = v] /\ dvRole' = named.role /\ dvThread' = dvThread
  BY <1>1, <1>2, <1>3, <1>4, <1>5, Zenon DEF DvMainTimer, currentRoutingPlan
<1>7. y = [dvTable EXCEPT !.text = [i \in 1..dvTable.rows |-> dvRole[i]]]
  BY <1>1, Zenon DEF refreshFromConfig
<1>8. DvTableOK(y) /\ y.rows = dvTable.rows /\ y.names = dvTable.names
  <2>1. DvRewritten(dvTable, y)
    BY <1>7, Zenon DEF DvRewritten
  <2> QED BY <2>1, TableKeeps
<1>9. y.text = [i \in 1..dvTable.rows |-> dvRole[i]]
  BY <1>7, TableCells
<1>10. shown = [y EXCEPT !.avg = [c \in 1..y.rows |-> DvAvg(plan, dvThread.positions, c)]]
  BY <1>3, Zenon DEF updateMembership, DvAvg, DvOf
<1>11. DvTableOK(shown) /\ shown.rows = dvTable.rows /\ shown.names = dvTable.names
  <2>1. DvRewritten(y, shown)
    BY <1>10, Zenon DEF DvRewritten
  <2> QED BY <1>8, <2>1, TableKeeps
<1>12. shown.text = y.text /\ shown.avg = [c \in 1..y.rows |-> DvAvg(plan, dvThread.positions, c)]
  BY <1>8, <1>10, TableCells
<1>13. \/ named.table = shown /\ named.role = dvRole
       \/ named.table.names # dvTable.names
  <2>1. CASE dvMode
    <3>1. named = [table |-> shown, role |-> dvRole]
      BY <1>4, <2>1, Zenon
    <3> QED BY <3>1
  <2>2. CASE ~dvMode
    <3>1. named = applyChannelNames(shown, inputChannelNames(dvIo), dvRole)
      BY <1>4, <2>2, Zenon
    <3>2. inputChannelNames(dvIo)[2] \in 0..DvMax
      BY NamesFit
    <3> QED BY <1>11, <3>1, <3>2, AppliedNames
  <2> QED BY <2>1, <2>2
<1>14. DvTableOK(named.table)
  <2>1. CASE dvMode
    <3>1. named = [table |-> shown, role |-> dvRole]
      BY <1>4, <2>1, Zenon
    <3> QED BY <1>11, <3>1
  <2>2. CASE ~dvMode
    <3>1. named = applyChannelNames(shown, inputChannelNames(dvIo), dvRole)
      BY <1>4, <2>2, Zenon
    <3>2. inputChannelNames(dvIo)[2] \in 0..DvMax
      BY NamesFit
    <3>3. DvCleared(shown, dvRole, FALSE)
      BY <1>11, <2>2 DEF DvCleared, DvIInv
    <3> QED BY <1>11, <3>1, <3>2, <3>3, Applied
  <2> QED BY <2>1, <2>2
<1>15. /\ dvTable'.asOf = v /\ dvTable'.text = named.table.text /\ dvTable'.avg = named.table.avg
       /\ dvTable'.rows = named.table.rows
  <2>1. DvRewritten(named.table, dvTable')
    BY <1>6, Zenon DEF DvRewritten
  <2>2. dvTable'.rows = named.table.rows
    BY <1>14, <2>1, TableKeeps
  <2> QED BY <1>6, <1>14, <2>2, TableCells
<1>16. CASE named.table.names # dvTable.names
  BY <1>5, <1>15, <1>16 DEF DvCells
<1>17. CASE named.table = shown /\ named.role = dvRole
  <2>1. dvTable'.asOf = dvBus.channels
    BY <1>5, <1>11, <1>15, <1>17
  <2>2. ASSUME NEW c \in 1..dvTable.rows
        PROVE  dvTable'.text[c] = dvRole'[c] /\ dvTable'.avg[c] = DvAvg(plan, dvThread'.positions, c)
    <3>1. dvTable'.text = [i \in 1..dvTable.rows |-> dvRole[i]] /\ dvRole' = dvRole
      BY <1>6, <1>9, <1>12, <1>15, <1>17, Zenon
    <3>2. dvTable'.avg = [i \in 1..dvTable.rows |-> DvAvg(plan, dvThread'.positions, i)]
      BY <1>6, <1>8, <1>12, <1>15, <1>17, Zenon
    <3>3. dvTable'.text[c] = dvRole'[c]
      BY <3>1
    <3>4. dvTable'.avg[c] = DvAvg(plan, dvThread'.positions, c)
      BY <3>2, Zenon
    <3> QED BY <3>3, <3>4
  <2> QED BY <1>2, <1>6, <1>11, <1>15, <1>17, <2>1, <2>2 DEF DvCells
<1> QED BY <1>13, <1>16, <1>17

\* Nothing else writes a cell, and what changes a role or a snapshot says the cells are stale.
LEMMA DvCellsStep ==
  ASSUME DvIInv, [DvNext]_dvVars, DvCells(dvTable, dvRole, dvThread.positions)
  PROVE  DvCells(dvTable', dvRole', dvThread'.positions)
<1> USE DvTyped
<1>1. CASE DvMainTimer
  BY <1>1, DvTimerCells
<1>2. ASSUME dvTable'.asOf = Stale PROVE DvCells(dvTable', dvRole', dvThread'.positions)
  BY <1>2 DEF DvCells
<1>3. ASSUME UNCHANGED <<dvRole, dvThread, dvTable>> PROVE DvCells(dvTable', dvRole', dvThread'.positions)
  BY <1>3
<1>4. CASE DvPublish
  <2>1. PICK q : q = DvPublished(dvRole, dvBus.channels)
    OBVIOUS
  <2>2. PICK v : v = IF dvThread.positions = q THEN dvTable.asOf ELSE Stale
    OBVIOUS
  <2>3. /\ dvThread' = [dvThread EXCEPT !.positions = q] /\ dvTable' = [dvTable EXCEPT !.asOf = v]
        /\ dvRole' = dvRole
    BY <1>4, <2>1, <2>2, Zenon DEF DvPublish
  <2>4. /\ dvTable'.asOf = v /\ dvTable'.text = dvTable.text /\ dvTable'.avg = dvTable.avg
        /\ dvTable'.rows = dvTable.rows
    <3>1. DvRewritten(dvTable, dvTable')
      BY <2>3, Zenon DEF DvRewritten
    <3>2. dvTable'.rows = dvTable.rows
      BY <3>1, TableKeeps
    <3> QED BY <2>3, <3>2, TableCells
  <2>5. dvThread'.positions = q
    <3>1. PICK f, p : dvThread = [fault |-> f, positions |-> p]
      BY Zenon DEF DvThreadOK
    <3> QED BY <2>3, <3>1
  <2>6. CASE dvThread.positions = q
    BY <2>2, <2>3, <2>4, <2>5, <2>6 DEF DvCells
  <2>7. CASE dvThread.positions # q
    BY <1>2, <2>2, <2>4, <2>7
  <2> QED BY <2>6, <2>7
<1>5. ASSUME NEW kind, DvThreadFault(kind) PROVE DvCells(dvTable', dvRole', dvThread'.positions)
  <2>1. PICK g : dvThread' = [dvThread EXCEPT !.fault = g] /\ dvRole' = dvRole /\ dvTable' = dvTable
    BY <1>5, Zenon DEF DvThreadFault
  <2>2. dvThread'.positions = dvThread.positions
    <3>1. PICK f, p : dvThread = [fault |-> f, positions |-> p]
      BY Zenon DEF DvThreadOK
    <3> QED BY <2>1, <3>1
  <2> QED BY <2>1, <2>2
<1>6. ASSUME NEW c \in 1..DvMax, onCellClicked(c) \/ listBoxItemClicked(c)
      PROVE  DvCells(dvTable', dvRole', dvThread'.positions)
  <2>1. CASE onCellClicked(c)
    <3>1. PICK y : y = [dvTable EXCEPT !.text = [i \in 1..dvTable.rows |-> dvRole'[i]]]
      OBVIOUS
    <3>2. dvTable' = [y EXCEPT !.asOf = Stale]
      BY <2>1, <3>1, Zenon DEF onCellClicked, refreshFromConfig
    <3>3. DvTableOK(y)
      <4>1. DvRewritten(dvTable, y)
        BY <3>1, Zenon DEF DvRewritten
      <4> QED BY <4>1, TableKeeps
    <3> QED BY <1>2, <3>2, <3>3, TableCells
  <2>2. CASE listBoxItemClicked(c)
    <3>1. dvTable' = [dvTable EXCEPT !.asOf = Stale]
      BY <2>2, Zenon DEF listBoxItemClicked
    <3> QED BY <1>2, <3>1, TableCells
  <2> QED BY <1>6, <2>1, <2>2
<1>7. CASE DvEnterSynthetic
  <2>1. PICK names : names = SyntheticNames
    OBVIOUS
  <2>2. names[2] \in 0..DvMax
    BY <2>1, DvAssumption DEF SyntheticNames
  <2>3. PICK y : y = setChannelNames([dvTable EXCEPT !.names = names], names, dvRole')
    OBVIOUS
  <2>4. dvTable' = [y EXCEPT !.asOf = Stale]
    BY <1>7, <2>1, <2>3, Zenon DEF DvEnterSynthetic
  <2>5. DvTableOK(y)
    BY <2>2, <2>3, NamesSet
  <2> QED BY <1>2, <2>4, <2>5, TableCells
<1>8. CASE DvLeaveSynthetic
  BY <1>2, <1>8, DvLeaves
<1>9. CASE UNCHANGED dvVars
  BY <1>3, <1>9, Zenon DEF dvVars
<1>10. \/ UNCHANGED <<dvRole, dvThread, dvTable>> \/ UNCHANGED dvVars
       \/ DvMainTimer \/ DvPublish \/ (\E kind \in {"Recovering", "None", "Stopped"} : DvThreadFault(kind))
       \/ (\E c \in 1..DvMax : onCellClicked(c) \/ listBoxItemClicked(c))
       \/ DvEnterSynthetic \/ DvLeaveSynthetic
  BY Zenon DEF DvNext, DvStored, DvMark, DvPaint, DvPanelTimer, DvStartStop, deviceChanged, deviceTypeChanged, DvReconfigure,
     audioDeviceError, audioDeviceStopped, DvTimeout
<1> QED BY <1>1, <1>3, <1>4, <1>5, <1>6, <1>7, <1>8, <1>9, <1>10

\* The place of every channel of M in their order.
DvRank(M) == [x \in M |-> Cardinality({m \in M : m <= x})]

DvEveryPlace(M, f) ==
  /\ Cardinality(M) \in Nat
  /\ \A x \in M : f[x] \in 1..Cardinality(M)
  /\ \A x, y \in M : f[x] = f[y] => x = y
  /\ \A i \in 1..Cardinality(M) : \E x \in M : f[x] = i

\* The places of a finite set of channels are its channels' ranks: every place is taken, and by one.
LEMMA Ranks ==
  ASSUME NEW M, IsFiniteSet(M), M \subseteq Nat, NEW f, f = DvRank(M)
  PROVE  DvEveryPlace(M, f)
<1> DEFINE upTo(x) == {m \in M : m <= x}
<1>1. IsFiniteSet(M)
  OBVIOUS
<1>2. Cardinality(M) \in Nat
  BY <1>1, FS_CardinalityType
<1>3. \A x \in M : f[x] = Cardinality(upTo(x)) /\ upTo(x) \subseteq M /\ x \in upTo(x)
  BY DEF DvRank
<1>4. \A x \in M : f[x] \in 1..Cardinality(M)
  <2> TAKE x \in M
  <2>1. IsFiniteSet(upTo(x)) /\ Cardinality(upTo(x)) <= Cardinality(M)
    BY <1>1, <1>3, FS_Subset
  <2>2. Cardinality(upTo(x)) \in Nat /\ Cardinality(upTo(x)) # 0
    BY <1>3, <2>1, FS_CardinalityType, FS_EmptySet
  <2> QED BY <1>2, <1>3, <2>1, <2>2
<1>5. ASSUME NEW x \in M, NEW y \in M, x < y PROVE f[x] # f[y]
  <2>1. upTo(x) \subseteq upTo(y) /\ y \in upTo(y) \ upTo(x)
    <3>1. x \in Int /\ y \in Int /\ ~(y <= x) /\ \A m \in M : m <= x => m <= y
      BY <1>5
    <3> QED BY <1>3, <3>1
  <2>2. IsFiniteSet(upTo(y))
    BY <1>1, <1>3, FS_Subset
  <2>3. Cardinality(upTo(x)) < Cardinality(upTo(y))
    <3>1. Cardinality(upTo(x)) <= Cardinality(upTo(y)) /\ (Cardinality(upTo(x)) = Cardinality(upTo(y)) => upTo(x) = upTo(y))
      BY <2>1, <2>2, FS_Subset
    <3>2. Cardinality(upTo(x)) \in Nat /\ Cardinality(upTo(y)) \in Nat
      BY <1>3, <1>4
    <3> QED BY <2>1, <3>1, <3>2
  <2>4. Cardinality(upTo(x)) \in Nat /\ Cardinality(upTo(y)) \in Nat
    BY <1>3, <1>4
  <2> HIDE DEF upTo
  <2> QED BY <1>3, <2>3, <2>4
<1>6. \A x, y \in M : f[x] = f[y] => x = y
  <2> TAKE x, y \in M
  <2>1. x < y \/ y < x \/ x = y
    OBVIOUS
  <2> QED BY <1>5, <2>1
<1> HIDE DEF upTo
<1>7. ASSUME NEW i \in 1..Cardinality(M), \A x \in M : f[x] # i PROVE FALSE
  <2> DEFINE T == (1..Cardinality(M)) \ {i}
  <2>1. IsFiniteSet(1..Cardinality(M)) /\ Cardinality(1..Cardinality(M)) = Cardinality(M)
    BY <1>2, FS_Interval
  <2>2. IsFiniteSet(T) /\ Cardinality(T) = Cardinality(M) - 1
    BY <1>7, <2>1, FS_RemoveElement
  <2>3. f \in [M -> T]
    <3>1. f = [x \in M |-> f[x]]
      BY DEF DvRank
    <3> HIDE DEF upTo
    <3> QED BY <1>4, <1>7, <3>1
  <2>4. Cardinality(T) < Cardinality(M)
    BY <1>2, <2>2
  <2> HIDE DEF T
  <2>5. \A g \in [M -> T] : \E x, y \in M : x # y /\ g[x] = g[y]
    BY <1>1, <2>2, <2>4, FS_PigeonHole
  <2> QED BY <1>6, <2>3, <2>5
<1>8. \A i \in 1..Cardinality(M) : \E x \in M : f[x] = i
  BY <1>7
<1> QED BY <1>2, <1>4, <1>6, <1>8, Zenon DEF DvEveryPlace

\* Of the present routing, a channel's AVG cell is its own: it has a place in the plan when it is measured
\* and there is a reference, and the position zipped with that place is in the average below the cap.
LEMMA AvgIsOwn ==
  ASSUME NEW role, NEW ch \in Nat, NEW q, q = DvPublished(role, ch), NEW c
  PROVE  DvAvg(routes(role, ch), q, c) = DvCellOf(role, ch, c)
<1> DEFINE M == {m \in 1..ch : role[m] = "Measurement"}
           R == {m \in 1..ch : role[m] = "Reference"}
           at(i) == CHOOSE x \in M : Cardinality({m \in M : m <= x}) = i
<1>1. PICK plan : plan = routes(role, ch)
  OBVIOUS
<1>2. PICK f : f = DvRank(M)
  OBVIOUS
<1>3. plan = IF R = {} THEN <<>> ELSE [i \in 1..Cardinality(M) |-> at(i)]
  BY <1>1, Zenon DEF routes
<1>4. DvCellOf(role, ch, c) = IF R = {} \/ c \notin M THEN NotApplicable
                              ELSE IF f[c] <= DvSlots THEN "AVG" ELSE "CAP"
  <2>1. DvCellOf(role, ch, c) = IF R = {} \/ c \notin M THEN NotApplicable
                                ELSE IF Cardinality({m \in M : m <= c}) <= DvSlots THEN "AVG" ELSE "CAP"
    BY Zenon DEF DvCellOf
  <2>2. c \in M => f[c] = Cardinality({m \in M : m <= c})
    BY <1>2 DEF DvRank
  <2> HIDE DEF M, R
  <2> QED BY <2>1, <2>2
<1>5. q = [i \in 1..Len(plan) |->
             [of |-> plan[i], membership |-> IF i <= DvSlots THEN "Member" ELSE "ExcludedOverCapacity"]]
  BY <1>1, Zenon DEF DvPublished
<1>6. /\ Cardinality(M) \in Nat /\ \A x \in M : f[x] \in 1..Cardinality(M)
      /\ \A x, y \in M : f[x] = f[y] => x = y
      /\ \A i \in 1..Cardinality(M) : \E x \in M : f[x] = i
  <2>1. IsFiniteSet(1..ch)
    BY FS_Interval
  <2>2. IsFiniteSet(M) /\ M \subseteq Nat
    BY <2>1, FS_Subset
  <2> HIDE DEF M
  <2>3. DvEveryPlace(M, f)
    BY <1>2, <2>2, Ranks
  <2> QED BY <2>3, Zenon DEF DvEveryPlace
<1>7. \A i \in 1..Cardinality(M) : at(i) \in M /\ f[at(i)] = i
  <2> TAKE i \in 1..Cardinality(M)
  <2>1. \E x \in M : Cardinality({m \in M : m <= x}) = i
    BY <1>2, <1>6 DEF DvRank
  <2>2. at(i) \in M /\ Cardinality({m \in M : m <= at(i)}) = i
    BY <2>1
  <2> QED BY <1>2, <2>2 DEF DvRank
<1> HIDE DEF M, R, at
<1>8. PICK n : n = IF R = {} THEN 0 ELSE Cardinality(M)
  OBVIOUS
<1>9. n \in Nat /\ Len(plan) = n
  <2>1. CASE R = {}
    BY <1>3, <1>8, <2>1
  <2>2. CASE R # {}
    <3>1. plan = [i \in 1..n |-> at(i)] /\ n \in Nat
      BY <1>3, <1>6, <1>8, <2>2
    <3>2. plan \in [1..n -> M]
      BY <1>7, <1>8, <2>2, <3>1
    <3>3. plan \in Seq(M)
      BY <3>1, <3>2, SeqDef
    <3>4. DOMAIN plan = 1..n /\ DOMAIN plan = 1..Len(plan) /\ Len(plan) \in Nat
      BY <3>2, <3>3, LenProperties
    <3> QED BY <3>1, <3>4
  <2> QED BY <2>1, <2>2
<1>10. Min({Len(plan), Len(q)}) = n
  <2>1. Len(q) = n
    BY <1>5, <1>9
  <2>2. Min({n, n}) \in {n, n}
    <3>1. \E x \in {n, n} : \A y \in {n, n} : x <= y
      BY <1>9
    <3> QED BY <3>1 DEF Min
  <2> QED BY <1>9, <2>1, <2>2
<1>11. PICK S : S = DvOf(plan, q, c)
  OBVIOUS
<1>12. S = {i \in 1..n : plan[i] = c}
  BY <1>10, <1>11, Zenon DEF DvOf
<1>13. CASE R = {} \/ c \notin M
  <2>1. S = {}
    <3>1. CASE R = {}
      BY <1>8, <1>12, <3>1
    <3>2. CASE R # {} /\ c \notin M
      <4>1. \A i \in 1..n : plan[i] \in M
        BY <1>3, <1>7, <1>8, <3>2
      <4> QED BY <1>12, <3>2, <4>1
    <3> QED BY <1>13, <3>1, <3>2
  <2>2. DvAvg(plan, q, c) = NotApplicable
    BY <1>11, <2>1, Zenon DEF DvAvg
  <2> QED BY <1>1, <1>4, <1>13, <2>2
<1>14. CASE R # {} /\ c \in M
  <2>1. PICK k : k = f[c]
    OBVIOUS
  <2>2. k \in 1..n /\ n = Cardinality(M)
    BY <1>6, <1>8, <1>14, <2>1
  <2>3. \A i \in 1..n : plan[i] = at(i)
    BY <1>3, <1>14, <2>2
  <2>4. plan[k] = c
    BY <1>6, <1>7, <1>14, <2>1, <2>2, <2>3
  <2>5. \A i \in 1..n : plan[i] = c => i = k
    BY <1>7, <2>1, <2>2, <2>3
  <2>6. S = {k}
    BY <1>12, <2>2, <2>4, <2>5
  <2>7. Max(S) = k
    <3>1. Max(S) \in S
      <4>1. \E x \in S : \A y \in S : x >= y
        BY <2>2, <2>6
      <4> QED BY <4>1 DEF Max
    <3> QED BY <2>6, <3>1
  <2>8. DvAvg(plan, q, c) = membershipLabel(q[k].membership)
    BY <1>11, <2>6, <2>7, Zenon DEF DvAvg
  <2>9. q[k].membership = IF k <= DvSlots THEN "Member" ELSE "ExcludedOverCapacity"
    BY <1>5, <1>9, <2>2
  <2>10. membershipLabel(q[k].membership) = IF k <= DvSlots THEN "AVG" ELSE "CAP"
    BY <2>9 DEF membershipLabel
  <2> QED BY <1>1, <1>4, <1>14, <2>1, <2>8, <2>10
<1> QED BY <1>13, <1>14

\* The invariant is what the rail promises.
LEMMA DvKeepsItsPromises ==
  ASSUME DvIInv, DvCells(dvTable, dvRole, dvThread.positions)
  PROVE  DvInv
<1> USE DvTyped
<1>1. PICK s : s = DvSum(dvIo.fault, dvThread.fault, dvBus.timeouts)
  OBVIOUS
<1>2. currentFault.sequence = s
  BY <1>1, FaultCounts DEF currentFault
<1>3. DvFaultShown
  BY <1>1, <1>2, Zenon DEF DvFaultShown, DvIInv, DvLine, currentFault
<1>4. DvPanelFollows
  <2>1. DvFollows(dvPanel, dvIo, s)
    BY <1>1 DEF DvIInv
  <2> QED BY <1>2, <2>1, Zenon DEF DvPanelFollows, DvFollows, DvSame
<1>5. DvNoHiddenRole
  <2>1. DvCleared(dvTable, dvRole, dvMode)
    BY DEF DvIInv
  <2>2. inputChannelNames(dvIo)[2] = dvIo.device.inputs
    BY NamesFit
  <2> QED BY <2>1, <2>2, Zenon DEF DvNoHiddenRole, DvCleared
<1>6. DvRowsAreOwn
  <2> SUFFICES ASSUME dvTable.asOf = dvBus.channels, NEW c \in 1..dvTable.rows
               PROVE  /\ dvTable.text[c] = dvRole[c]
                      /\ dvThread.positions = DvPublished(dvRole, dvBus.channels) =>
                            dvTable.avg[c] = DvCellOf(dvRole, dvBus.channels, c)
    BY Zenon DEF DvRowsAreOwn
  <2>1. dvBus.channels \in Nat /\ dvTable.asOf # Stale
    BY DvAssumption DEF DvBuses, Stale
  <2>2. /\ dvTable.text[c] = dvRole[c]
        /\ dvTable.avg[c] = DvAvg(routes(dvRole, dvBus.channels), dvThread.positions, c)
    BY <2>1, Zenon DEF DvCells
  <2>3. ASSUME dvThread.positions = DvPublished(dvRole, dvBus.channels)
        PROVE  dvTable.avg[c] = DvCellOf(dvRole, dvBus.channels, c)
    BY <2>1, <2>2, <2>3, AvgIsOwn
  <2> QED BY <2>2, <2>3
<1> QED BY <1>3, <1>4, <1>5, <1>6 DEF DvInv

\* DevicePanel.cpp, FaultLine.h, RoutingMatrix.cpp, MainComponent.cpp: whatever the handlers, the timers,
\* the device thread and the analysis thread do in whatever order, a fault line at the present count shows
\* the present fault, a button that was not left behind is AudioIo's, no channel without a row holds a
\* role, and the cells of the matrix are each of their own channel: AVG for a route that has an analyser,
\* CAP for one past the cap, and -- for a channel without a route.
THEOREM DvRailIsTrue == DvSpec => []DvInv
<1>1. DvInit => DvIInv /\ DvCells(dvTable, dvRole, dvThread.positions)
  <2>1. ASSUME DvInit PROVE dvTable.asOf = Stale
    <3>1. PICK n, e : dvTable = [names |-> n, rows |-> 0, text |-> e, avg |-> e, asOf |-> Stale]
      BY <2>1, Zenon DEF DvInit
    <3> QED BY <3>1
  <2> QED BY <2>1, DvInitOK DEF DvCells
<1>2. DvIInv /\ [DvNext]_dvVars => DvIInv'
  BY DvStep
<1>3. DvIInv /\ DvCells(dvTable, dvRole, dvThread.positions) /\ [DvNext]_dvVars =>
         DvCells(dvTable, dvRole, dvThread.positions)'
  BY DvCellsStep
<1>4. DvIInv /\ DvCells(dvTable, dvRole, dvThread.positions) => DvInv
  BY DvKeepsItsPromises
<1> QED BY <1>1, <1>2, <1>3, <1>4, PTL DEF DvSpec
===============================================================================
