------------------------------ MODULE PanelProofs -----------------------------
(***************************************************************************)
(* Proofs about the two panels whose answers come from elsewhere, and the  *)
(* library they keep, for every value of their constants: Generating (the  *)
(* agreement of the strip, the runner and the engine), Rt60 (the pane and  *)
(* its worker) and TraceStore (the traces, their impulse responses and the *)
(* session folder), each with the inductive invariant it needs.            *)
(***************************************************************************)
EXTENDS Generating, Rt60, TraceStore, WellFoundedInduction, SequenceTheorems, FiniteSetTheorems, TLAPS

\* The channels of some device, or of the synthetic one.
GnChannels == {c \in Nat : c < 2 \/ \E n \in GnOutputs : c < n}
GnLevels == 0..GnCeiling
GnSignals == {"Pink", "White", "Sine"}
GnHolders == {"", "LOCATE", "CAL"}
GnModes == {"Own", "FollowGen"}
GnReasons == {"", "busy", "noDevice", "engineBusy", "cancelled", "deviceRestarted", "deviceStopped",
              "didNotSettle", "notConfirmedSilent"}

GnSources == [by : {"none", "GEN", "LOCATE"}, signal : GnSignals, level : GnLevels, hz : Nat]
GnSettings == [signal : GnSignals, level : GnLevels, hz : GnHz,
               outputs : {s \in SUBSET GnChannels : s # {}}]
GnEngines == [epoch : Nat, armed : BOOLEAN, idle : BOOLEAN, rate : GnRates,
              routes : SUBSET GnChannels, slotEpoch : Nat, slot : GnSources]
GnDevices == [synthetic : BOOLEAN, running : BOOLEAN, outs : GnOutputs \cup {0}]
GnRuns == [state : {"Idle", "Playing", "Swapping", "Stopping"}, settings : GnSettings,
           armedEpoch : Nat, waited : 0..GnTimeout, reason : GnReasons, armedIn : BOOLEAN]
GnUis == [timer : BOOLEAN, mode : GnModes, own : GnLevels, refusal : GnHolders, menu : SUBSET GnChannels]
GnHolds == [by : GnHolders, mode : GnModes, drive : [level : GnLevels, outputs : SUBSET GnChannels]]

\* The type invariant.
GnTypeOK ==
  /\ gnEng \in GnEngines /\ gnDev \in GnDevices /\ gnRun \in GnRuns
  /\ gnUi \in GnUis /\ gnHold \in GnHolds
  /\ gnLeft \in [clicks : Nat, devices : Nat, presses : Nat]

GnModeKept(r, synthetic) == r.state # "Idle" => r.armedIn = synthetic

\* What a runner and an engine owe each other, in an input mode and beside a holder: the
\* form in which each of GeneratorRunner's operations preserves it.  A session's number only
\* grows, so one that differs from armedEpoch is a later one; a runner that is not idle was
\* started in the input mode of now; LOCATE and a busy generator exclude each other.
GnAgree(r, e, synthetic, h) ==
  /\ r \in GnRuns /\ e \in GnEngines
  /\ r.armedEpoch <= e.epoch
  /\ r.state = "Playing" /\ e.epoch = r.armedEpoch =>
        e.armed /\ e.slotEpoch = e.epoch /\ e.slot = makeSource(r.settings, e.rate)
  /\ GnSounding(r) /\ e.epoch = r.armedEpoch => e.routes = r.settings.outputs
  /\ r.state = "Idle" /\ r.reason = "" /\ e.slot.by # "LOCATE" => e.idle
  /\ e.armed => \/ e.slot.by = "GEN" /\ r.state = "Playing"
                \/ e.slot.by = "LOCATE" /\ h.by = "LOCATE"
  /\ GnModeKept(r, synthetic)
  /\ h.by = "LOCATE" =>
        r.state = "Idle" /\ e.slot.by = "LOCATE" /\ e.slot.level = h.drive.level

\* While LOCATE holds the output, the MEAS control is the one of its press.
GnShown(u, h) ==
  h.by = "LOCATE" => u.mode = h.mode /\ (u.mode = "Own" => u.own = h.drive.level)

\* The inductive invariant.
GnIInv == GnTypeOK /\ GnAgree(gnRun, gnEng, gnDev.synthetic, gnHold) /\ GnShown(gnUi, gnHold)

-------------------------------------------------------------------------------
\* Every nonempty set of naturals has a least element.
LEMMA LeastNat ==
  ASSUME NEW S \in SUBSET Nat, S # {}
  PROVE  \E x \in S : \A y \in S : x <= y
<1> DEFINE R == OpToRel(<, Nat)
<1>1. IsWellFoundedOn(R, Nat)
  BY NatLessThanWellFounded
<1>2. PICK x \in S : \A y \in S : ~ (<<y, x>> \in R)
  <2> HIDE DEF R
  <2> QED BY <1>1, WFMin
<1>3. ASSUME NEW y \in S PROVE x <= y
  <2>1. y \in Nat /\ x \in Nat
    OBVIOUS
  <2>2. ~(y < x)
    BY <1>2, <2>1 DEF OpToRel
  <2> QED BY <2>1, <2>2
<1> QED BY <1>3

\* Max and Min are what their names say where a largest or smallest member exists.
LEMMA MaxIsLargest ==
  ASSUME NEW S, \E m \in S : \A y \in S : m >= y
  PROVE  Max(S) \in S /\ \A y \in S : Max(S) >= y
BY DEF Max

\* Of two integers, Min is the smaller.
LEMMA MinOfTwo ==
  ASSUME NEW a \in Int, NEW b \in Int
  PROVE  Min({a, b}) = (IF a <= b THEN a ELSE b)
<1>1. Min({a, b}) \in {a, b} /\ Min({a, b}) <= a /\ Min({a, b}) <= b
  <2>1. \E m \in {a, b} : \A y \in {a, b} : m <= y
    OBVIOUS
  <2> QED BY <2>1 DEF Min
<1> QED BY <1>1

\* Of two integers, Max is the larger.
LEMMA MaxOfTwo ==
  ASSUME NEW a \in Int, NEW b \in Int
  PROVE  Max({a, b}) = (IF a >= b THEN a ELSE b)
<1>1. Max({a, b}) \in {a, b} /\ Max({a, b}) >= a /\ Max({a, b}) >= b
  <2>1. \E m \in {a, b} : \A y \in {a, b} : m >= y
    OBVIOUS
  <2> QED BY <2>1 DEF Max
<1> QED BY <1>1

\* clampGeneratorLevelDb lands between the floor and the ceiling, and leaves a level that
\* is already there alone.
LEMMA ClampLevel ==
  ASSUME NEW db \in Int
  PROVE  /\ clampGeneratorLevelDb(db) \in GnLevels
         /\ db \in GnLevels => clampGeneratorLevelDb(db) = db
<1> DEFINE m == Min({db, GnCeiling})
<1>1. GnCeiling \in Nat
  BY GnAssumption
<1>2. m = IF db <= GnCeiling THEN db ELSE GnCeiling
  BY <1>1, MinOfTwo
<1>3. m \in Int
  BY <1>1, <1>2
<1>4. Max({0, m}) = IF 0 >= m THEN 0 ELSE m
  <2> HIDE DEF m
  <2> QED BY <1>3, MaxOfTwo
<1>5. clampGeneratorLevelDb(db) = Max({0, m})
  BY DEF clampGeneratorLevelDb
<1> QED
  <2> HIDE DEF m
  <2> QED BY <1>1, <1>2, <1>3, <1>4, <1>5 DEF GnLevels

\* A set of channels that is not empty has a highest one.
LEMMA HighestChannel ==
  ASSUME NEW s \in SUBSET GnChannels, s # {}
  PROVE  Max(s) \in s
<1>1. PICK n \in GnOutputs : \A k \in GnOutputs : k <= n
  BY GnAssumption
<1>2. n \in Nat \ {0} /\ GnOutputs \subseteq Nat
  BY <1>1, GnAssumption
<1> DEFINE Above == {b \in Nat : \A c \in s : c <= b}
<1>3. n + 1 \in Above
  <2>1. \A c \in GnChannels : c \in Nat /\ c <= n + 1
    BY <1>1, <1>2 DEF GnChannels
  <2> QED BY <2>1, <1>2
<1>4. PICK b \in Above : \A d \in Above : b <= d
  <2>1. Above \in SUBSET Nat /\ Above # {}
    BY <1>3
  <2> HIDE DEF Above
  <2> QED BY <2>1, LeastNat
<1>5. s \subseteq Nat
  BY DEF GnChannels
<1>6. b \in s
  <2> SUFFICES ASSUME b \notin s PROVE FALSE
    OBVIOUS
  <2>1. \A c \in s : c < b
    BY <1>5
  <2>2. PICK c \in s : TRUE
    OBVIOUS
  <2>4. b # 0 /\ b - 1 \in Nat
    BY <2>1, <2>2, <1>5
  <2>3. b - 1 \in Above
    BY <2>1, <2>4, <1>5
  <2> QED BY <2>3, <1>4
<1> QED BY <1>5, <1>6, MaxIsLargest

-------------------------------------------------------------------------------
(* The operators the runner is built from, typed. *)

\* What pruneOutputs leaves ticked is channels of the list, or the first output: never nothing.
LEMMA PruneType ==
  ASSUME NEW s \in SUBSET GnChannels, NEW n \in Nat
  PROVE  pruneOutputs(s, n) \in SUBSET GnChannels /\ pruneOutputs(s, n) # {}
<1>1. 0 \in GnChannels
  BY DEF GnChannels
<1> QED BY <1>1 DEF pruneOutputs

\* makeSource makes a source of the generator's own, at a level inside the limits.
LEMMA SourceType ==
  ASSUME NEW s \in GnSettings, NEW rate \in GnRates
  PROVE  makeSource(s, rate) \in GnSources /\ makeSource(s, rate).by = "GEN"
<1>1. s.level \in GnLevels /\ s.hz \in GnHz /\ s.signal \in GnSignals
  BY DEF GnSettings
<1>2. GnHz \subseteq Nat /\ GnRates \subseteq Nat /\ GnLevels \subseteq Int
  BY GnAssumption DEF GnLevels
<1>3. clampGeneratorLevelDb(s.level) \in GnLevels
  BY <1>1, <1>2, ClampLevel
<1>4. Min({s.hz, rate}) = IF s.hz <= rate THEN s.hz ELSE rate
  <2>1. s.hz \in Nat
    BY <1>1, <1>2
  <2>2. rate \in Nat
    BY <1>2
  <2>3. s.hz \in Int /\ rate \in Int
    BY <2>1, <2>2
  <2> QED BY <2>3, MinOfTwo
<1>5. (IF s.signal = "Sine" THEN Min({s.hz, rate}) ELSE 0) \in Nat
  BY <1>1, <1>2, <1>4
<1> QED BY <1>1, <1>3, <1>5 DEF makeSource, GnSources

\* The source of two settings that sourceChanged() does not tell apart is the same.
LEMMA SameSource ==
  ASSUME NEW next, NEW rate, ~sourceChanged(next)
  PROVE  makeSource(next, rate) = makeSource(gnRun.settings, rate)
BY DEF makeSource, sourceChanged

\* The engine's operations, field by field.
LEMMA SetEffect ==
  ASSUME NEW e \in GnEngines, NEW s \in GnSources, NEW x, x = GnSet(e, s)
  PROVE  /\ x \in GnEngines
         /\ x.epoch = e.epoch /\ x.armed = e.armed /\ x.idle = e.idle /\ x.rate = e.rate
         /\ x.routes = e.routes /\ x.slotEpoch = e.epoch /\ x.slot = s
<1>1. x = [epoch |-> e.epoch, armed |-> e.armed, idle |-> e.idle, rate |-> e.rate,
           routes |-> e.routes, slotEpoch |-> e.epoch, slot |-> s]
  BY Zenon DEF GnSet, GnEngines
<1> QED BY <1>1 DEF GnEngines

\* What arm() changes and leaves alone.
LEMMA ArmEffect ==
  ASSUME NEW e \in GnEngines, NEW x, x = GnArm(e)
  PROVE  /\ x \in GnEngines
         /\ x.epoch = e.epoch /\ x.armed = TRUE /\ x.idle = e.idle /\ x.rate = e.rate
         /\ x.routes = e.routes /\ x.slotEpoch = e.slotEpoch /\ x.slot = e.slot
<1>1. x = [epoch |-> e.epoch, armed |-> TRUE, idle |-> e.idle, rate |-> e.rate,
           routes |-> e.routes, slotEpoch |-> e.slotEpoch, slot |-> e.slot]
  BY Zenon DEF GnArm, GnEngines
<1> QED BY <1>1 DEF GnEngines

\* What disarm() changes and leaves alone.
LEMMA DisarmEffect ==
  ASSUME NEW e \in GnEngines, NEW x, x = GnDisarm(e)
  PROVE  /\ x \in GnEngines
         /\ x.epoch = e.epoch /\ x.armed = FALSE /\ x.idle = e.idle /\ x.rate = e.rate
         /\ x.routes = e.routes /\ x.slotEpoch = e.slotEpoch /\ x.slot = e.slot
<1>1. x = [epoch |-> e.epoch, armed |-> FALSE, idle |-> e.idle, rate |-> e.rate,
           routes |-> e.routes, slotEpoch |-> e.slotEpoch, slot |-> e.slot]
  BY Zenon DEF GnDisarm, GnEngines
<1> QED BY <1>1 DEF GnEngines

\* What setRouted() on every output changes and leaves alone.
LEMMA RouteEffect ==
  ASSUME NEW e \in GnEngines, NEW s \in SUBSET GnChannels, NEW x, x = GnRoute(e, s)
  PROVE  /\ x \in GnEngines
         /\ x.epoch = e.epoch /\ x.armed = e.armed /\ x.idle = e.idle /\ x.rate = e.rate
         /\ x.routes = s /\ x.slotEpoch = e.slotEpoch /\ x.slot = e.slot
<1>1. x = [epoch |-> e.epoch, armed |-> e.armed, idle |-> e.idle, rate |-> e.rate,
           routes |-> s, slotEpoch |-> e.slotEpoch, slot |-> e.slot]
  BY Zenon DEF GnRoute, GnEngines
<1> QED BY <1>1 DEF GnEngines

-------------------------------------------------------------------------------
(* GeneratorRunner's operations keep the agreement. *)

GnPairs == [run : GnRuns, eng : GnEngines]

\* goIdle() disarms and says why; what is idle for a reason owes nothing to the input mode.
LEMMA GoIdleKeeps ==
  ASSUME NEW g \in GnPairs, NEW mode, NEW h, GnAgree(g.run, g.eng, mode, h),
         NEW why \in GnReasons, why # "", NEW x, x = goIdle(g, why), NEW m
  PROVE  /\ GnAgree(x.run, x.eng, m, h) /\ x \in GnPairs
         /\ ~x.eng.armed /\ x.run.state = "Idle"
<1>1. g.run \in GnRuns /\ g.eng \in GnEngines
  BY DEF GnPairs
<1>2. x.run = [g.run EXCEPT !.state = "Idle", !.reason = why] /\ x.eng = GnDisarm(g.eng) /\ x = [run |-> x.run, eng |-> x.eng]
  BY DEF goIdle
<1>3. x.run = [state |-> "Idle", settings |-> g.run.settings, armedEpoch |-> g.run.armedEpoch,
               waited |-> g.run.waited, reason |-> why, armedIn |-> g.run.armedIn]
  BY <1>1, <1>2, Zenon DEF GnRuns
<1>4. /\ x.run \in GnRuns
      /\ x.run.state = "Idle" /\ x.run.settings = g.run.settings /\ x.run.armedEpoch = g.run.armedEpoch
      /\ x.run.reason = why /\ x.run.armedIn = g.run.armedIn
  <2> DEFINE r == g.run
             y == x.run
  <2>1. r \in GnRuns
    BY <1>1
  <2>2. y = [state |-> "Idle", settings |-> r.settings, armedEpoch |-> r.armedEpoch,
             waited |-> r.waited, reason |-> why, armedIn |-> r.armedIn]
    BY <1>3
  <2> HIDE DEF r, y
  <2>3. y \in GnRuns
    BY <2>1, <2>2 DEF GnRuns
  <2>4. /\ y.state = "Idle" /\ y.settings = r.settings /\ y.armedEpoch = r.armedEpoch
        /\ y.reason = why /\ y.armedIn = r.armedIn
    BY <2>2
  <2> QED BY <2>3, <2>4 DEF r, y
<1>5. /\ x.eng \in GnEngines
      /\ x.eng.epoch = g.eng.epoch /\ x.eng.armed = FALSE /\ x.eng.idle = g.eng.idle /\ x.eng.rate = g.eng.rate
      /\ x.eng.routes = g.eng.routes /\ x.eng.slotEpoch = g.eng.slotEpoch /\ x.eng.slot = g.eng.slot
  BY <1>1, <1>2, DisarmEffect
<1>6. x \in GnPairs
  BY <1>2, <1>4, <1>5 DEF GnPairs
<1> QED BY <1>1, <1>4, <1>5, <1>6 DEF GnAgree, GnSounding, GnModeKept

\* GnNow is the pair of now.
LEMMA NowIsPair ==
  ASSUME gnRun \in GnRuns, gnEng \in GnEngines
  PROVE  GnNow \in GnPairs /\ GnNow.run = gnRun /\ GnNow.eng = gnEng
BY DEF GnNow, GnPairs

\* stop(): a sounding generator is disarmed and waits; the source stays in the slot.
LEMMA StopKeeps ==
  ASSUME NEW mode, NEW h, GnAgree(gnRun, gnEng, mode, h), NEW x, x = stop
  PROVE  GnAgree(x.run, x.eng, mode, h) /\ x \in GnPairs
<1>1. gnRun \in GnRuns /\ gnEng \in GnEngines
  BY DEF GnAgree
<1>2. CASE ~GnSounding(gnRun)
  BY <1>1, <1>2, NowIsPair DEF stop
<1>3. CASE GnSounding(gnRun)
  <2>1. x.run = [gnRun EXCEPT !.state = "Stopping", !.waited = 0] /\ x.eng = GnDisarm(gnEng) /\ x = [run |-> x.run, eng |-> x.eng]
    BY <1>3 DEF stop
  <2>2. x.run = [state |-> "Stopping", settings |-> gnRun.settings, armedEpoch |-> gnRun.armedEpoch,
                 waited |-> 0, reason |-> gnRun.reason, armedIn |-> gnRun.armedIn]
    BY <1>1, <2>1, Zenon DEF GnRuns
  <2>3. 0 \in 0..GnTimeout
    BY GnAssumption
  <2>4. /\ x.run \in GnRuns
        /\ x.run.state = "Stopping" /\ x.run.settings = gnRun.settings /\ x.run.armedEpoch = gnRun.armedEpoch
        /\ x.run.reason = gnRun.reason /\ x.run.armedIn = gnRun.armedIn
    BY <1>1, <2>2, <2>3 DEF GnRuns
  <2>5. /\ x.eng \in GnEngines
        /\ x.eng.epoch = gnEng.epoch /\ x.eng.armed = FALSE /\ x.eng.idle = gnEng.idle /\ x.eng.rate = gnEng.rate
        /\ x.eng.routes = gnEng.routes /\ x.eng.slotEpoch = gnEng.slotEpoch /\ x.eng.slot = gnEng.slot
    BY <1>1, <2>1, DisarmEffect
  <2>6. x \in GnPairs
    BY <2>1, <2>4, <2>5 DEF GnPairs
  <2> QED BY <1>1, <1>3, <2>4, <2>5, <2>6 DEF GnAgree, GnSounding, GnModeKept
<1> QED BY <1>2, <1>3

\* cancel(): idle, disarmed, in whatever input mode comes next.
LEMMA CancelKeeps ==
  ASSUME NEW mode, NEW h, GnAgree(gnRun, gnEng, mode, h), NEW x, x = genCancel, NEW m
  PROVE  GnAgree(x.run, x.eng, m, h) /\ x \in GnPairs /\ x.run.state = "Idle"
<1>1. gnRun \in GnRuns /\ gnEng \in GnEngines
  BY DEF GnAgree
<1>2. GnNow \in GnPairs /\ GnNow.run = gnRun /\ GnNow.eng = gnEng
  BY <1>1, NowIsPair
<1>3. CASE gnRun.state = "Idle"
  <2>1. x = GnNow
    BY <1>3 DEF genCancel
  <2> QED BY <1>2, <1>3, <2>1 DEF GnAgree, GnSounding, GnModeKept
<1>4. CASE gnRun.state # "Idle"
  <2>1. x = goIdle(GnNow, "cancelled")
    BY <1>4 DEF genCancel
  <2>2. "cancelled" \in GnReasons /\ "cancelled" # ""
    BY DEF GnReasons
  <2> QED BY <1>2, <2>1, <2>2, GoIdleKeeps
<1> QED BY <1>3, <1>4

\* The outputs of generatorEnvironment().
LEMMA NumOutputsType ==
  ASSUME gnDev \in GnDevices
  PROVE  GnNumOutputs \in Nat /\ (GnNumOutputs = 0 \/ GnNumOutputs = 2 \/ GnNumOutputs \in GnOutputs)
<1>1. gnDev.outs \in GnOutputs \cup {0}
  BY DEF GnDevices
<1>2. GnOutputs \subseteq Nat
  BY GnAssumption
<1>3. gnDev.outs \in Nat
  <2>1. \A n \in GnOutputs \cup {0} : n \in Nat
    BY <1>2
  <2> QED BY <1>1, <2>1
<1>4. CASE gnDev.synthetic
  BY <1>4 DEF GnNumOutputs
<1>5. CASE ~gnDev.synthetic
  BY <1>1, <1>3, <1>5 DEF GnNumOutputs
<1> QED BY <1>4, <1>5

\* Settings whose outputs are pruned.
LEMMA PrunedSettings ==
  ASSUME NEW s \in GnSettings, NEW n \in Nat, NEW y, y = [s EXCEPT !.outputs = pruneOutputs(@, n)]
  PROVE  /\ y \in GnSettings /\ y.outputs = pruneOutputs(s.outputs, n)
         /\ y.signal = s.signal /\ y.level = s.level /\ y.hz = s.hz
<1>1. s.outputs \in SUBSET GnChannels
  BY DEF GnSettings
<1>2. pruneOutputs(s.outputs, n) \in {t \in SUBSET GnChannels : t # {}}
  BY <1>1, PruneType
<1>3. y = [signal |-> s.signal, level |-> s.level, hz |-> s.hz, outputs |-> pruneOutputs(s.outputs, n)]
  BY Zenon DEF GnSettings
<1> QED BY <1>2, <1>3 DEF GnSettings

\* An idle runner that stays idle, with a reason, and leaves the engine alone, keeps the agreement.
LEMMA RefusalKeeps ==
  ASSUME NEW mode, NEW h, GnAgree(gnRun, gnEng, mode, h), gnRun.state = "Idle",
         NEW x \in GnPairs, x.eng = gnEng, x.run.state = "Idle",
         x.run.armedEpoch = gnRun.armedEpoch, x.run.reason # ""
  PROVE  GnAgree(x.run, x.eng, mode, h)
<1>1. x.run \in GnRuns
  BY DEF GnPairs
<1> QED BY <1>1 DEF GnAgree, GnSounding, GnModeKept

WithReason(g, why) == [g EXCEPT !.run.reason = why]
WithSettings(g, s) == [g EXCEPT !.run.settings = s]

\* A runner with another reason.
LEMMA ReasonEffect ==
  ASSUME NEW g \in GnPairs, NEW why \in GnReasons, NEW x, x = WithReason(g, why)
  PROVE  /\ x \in GnPairs /\ x.eng = g.eng /\ x.run.reason = why
         /\ x.run.state = g.run.state /\ x.run.settings = g.run.settings /\ x.run.armedEpoch = g.run.armedEpoch
         /\ x.run.armedIn = g.run.armedIn
<1> DEFINE r == g.run
<1>1. r \in GnRuns /\ g.eng \in GnEngines /\ g = [run |-> r, eng |-> g.eng]
  BY DEF GnPairs
<1>2. PICK y : y = [r EXCEPT !.reason = why]
  OBVIOUS
<1>0. x = [run |-> y, eng |-> g.eng]
  BY <1>2, Zenon DEF GnPairs, WithReason
<1> HIDE DEF r
<1>3. y = [state |-> r.state, settings |-> r.settings, armedEpoch |-> r.armedEpoch,
           waited |-> r.waited, reason |-> why, armedIn |-> r.armedIn]
  BY <1>1, <1>2, Zenon DEF GnRuns
<1>4. y \in GnRuns
  BY <1>1, <1>3 DEF GnRuns
<1>5. /\ y.state = r.state /\ y.settings = r.settings /\ y.armedEpoch = r.armedEpoch
      /\ y.reason = why /\ y.armedIn = r.armedIn
  BY <1>3
<1>6. x \in GnPairs /\ x.eng = g.eng /\ x.run = y
  BY <1>0, <1>1, <1>4 DEF GnPairs
<1> QED BY <1>5, <1>6 DEF r

\* A runner with other settings.
LEMMA SettingsEffect ==
  ASSUME NEW g \in GnPairs, NEW s \in GnSettings, NEW x, x = WithSettings(g, s)
  PROVE  /\ x \in GnPairs /\ x.eng = g.eng /\ x.run.settings = s
         /\ x.run.state = g.run.state /\ x.run.reason = g.run.reason /\ x.run.armedEpoch = g.run.armedEpoch
         /\ x.run.armedIn = g.run.armedIn
<1> DEFINE r == g.run
<1>1. r \in GnRuns /\ g.eng \in GnEngines /\ g = [run |-> r, eng |-> g.eng]
  BY DEF GnPairs
<1>2. PICK y : y = [r EXCEPT !.settings = s]
  OBVIOUS
<1>0. x = [run |-> y, eng |-> g.eng]
  BY <1>2, Zenon DEF GnPairs, WithSettings
<1> HIDE DEF r
<1>3. y = [state |-> r.state, settings |-> s, armedEpoch |-> r.armedEpoch,
           waited |-> r.waited, reason |-> r.reason, armedIn |-> r.armedIn]
  BY <1>1, <1>2, Zenon DEF GnRuns
<1>4. y \in GnRuns
  BY <1>1, <1>3 DEF GnRuns
<1>5. /\ y.state = r.state /\ y.settings = s /\ y.armedEpoch = r.armedEpoch
      /\ y.reason = r.reason /\ y.armedIn = r.armedIn
  BY <1>3
<1>6. x \in GnPairs /\ x.eng = g.eng /\ x.run = y
  BY <1>0, <1>1, <1>4 DEF GnPairs
<1> QED BY <1>5, <1>6 DEF r

\* routeSelected() routes exactly the ticked outputs.
LEMMA RouteSelectedEffect ==
  ASSUME NEW g \in GnPairs, NEW x, x = routeSelected(g)
  PROVE  /\ x \in GnPairs /\ x.run = g.run /\ x.eng.routes = g.run.settings.outputs
         /\ x.eng.epoch = g.eng.epoch /\ x.eng.armed = g.eng.armed /\ x.eng.idle = g.eng.idle
         /\ x.eng.rate = g.eng.rate /\ x.eng.slotEpoch = g.eng.slotEpoch /\ x.eng.slot = g.eng.slot
<1>1. g.run \in GnRuns /\ g.eng \in GnEngines
  BY DEF GnPairs
<1>2. g.run.settings.outputs \in SUBSET GnChannels
  <2>1. g.run.settings \in GnSettings
    BY <1>1 DEF GnRuns
  <2> QED BY <2>1 DEF GnSettings
<1>3. PICK e : e = GnRoute(g.eng, g.run.settings.outputs)
  OBVIOUS
<1>4. x = [run |-> g.run, eng |-> e]
  BY <1>3, Zenon DEF routeSelected, GnPairs
<1>5. /\ e \in GnEngines
      /\ e.epoch = g.eng.epoch /\ e.armed = g.eng.armed /\ e.idle = g.eng.idle /\ e.rate = g.eng.rate
      /\ e.routes = g.run.settings.outputs /\ e.slotEpoch = g.eng.slotEpoch /\ e.slot = g.eng.slot
  BY <1>1, <1>2, <1>3, RouteEffect
<1>6. x \in GnPairs /\ x.run = g.run /\ x.eng = e
  BY <1>1, <1>4, <1>5 DEF GnPairs
<1> QED BY <1>5, <1>6

\* start(): refused with a reason, or everything a playing generator owes, at once.
LEMMA StartKeeps ==
  ASSUME gnDev \in GnDevices, GnAgree(gnRun, gnEng, gnDev.synthetic, gnHold), gnHold \in GnHolds,
         NEW x, x = start
  PROVE  GnAgree(x.run, x.eng, gnDev.synthetic, gnHold) /\ x \in GnPairs
<1> DEFINE outs == pruneOutputs(gnRun.settings.outputs, GnNumOutputs)
<1>1. gnRun \in GnRuns /\ gnEng \in GnEngines
  BY DEF GnAgree
<1>2. GnNow \in GnPairs /\ GnNow.run = gnRun /\ GnNow.eng = gnEng
  BY <1>1, NowIsPair
<1>3. gnRun.settings \in GnSettings
  BY <1>1 DEF GnRuns
<1>4. PICK s : s = [gnRun.settings EXCEPT !.outputs = pruneOutputs(@, GnNumOutputs)]
  OBVIOUS
<1>5. s \in GnSettings
  BY <1>3, <1>4, PrunedSettings, NumOutputsType
<1>6. PICK p : p = [GnNow EXCEPT !.run.settings.outputs = pruneOutputs(@, GnNumOutputs)]
  OBVIOUS
<1>7. p = WithSettings(GnNow, s)
  BY <1>1, <1>4, <1>6, Zenon DEF GnNow, GnRuns, WithSettings
<1>8. /\ p \in GnPairs /\ p.eng = gnEng /\ p.run.settings = s
      /\ p.run.state = gnRun.state /\ p.run.reason = gnRun.reason /\ p.run.armedEpoch = gnRun.armedEpoch
      /\ p.run.armedIn = gnRun.armedIn
  BY <1>2, <1>5, <1>7, SettingsEffect
<1>9. CASE gnRun.state # "Idle"
  BY <1>2, <1>9 DEF start
<1>10. CASE gnRun.state = "Idle" /\ gnHold.by # ""
  <2>1. x = WithReason(GnNow, "busy") /\ "busy" \in GnReasons
    BY <1>10 DEF start, GnReasons, WithReason
  <2>2. /\ x \in GnPairs /\ x.eng = gnEng /\ x.run.reason = "busy"
        /\ x.run.state = gnRun.state /\ x.run.armedEpoch = gnRun.armedEpoch
    BY <1>2, <2>1, ReasonEffect
  <2> QED BY <1>10, <2>2, RefusalKeeps
<1>11. CASE gnRun.state = "Idle" /\ gnHold.by = "" /\ ~GnLive
  <2>1. x = WithReason(GnNow, "noDevice") /\ "noDevice" \in GnReasons
    BY <1>11 DEF start, GnReasons, WithReason
  <2>2. /\ x \in GnPairs /\ x.eng = gnEng /\ x.run.reason = "noDevice"
        /\ x.run.state = gnRun.state /\ x.run.armedEpoch = gnRun.armedEpoch
    BY <1>2, <2>1, ReasonEffect
  <2> QED BY <1>11, <2>2, RefusalKeeps
<1>12. CASE gnRun.state = "Idle" /\ gnHold.by = "" /\ GnLive /\ ~GnQuiescent(gnEng)
  <2>1. x = WithReason(p, "engineBusy") /\ "engineBusy" \in GnReasons
    BY <1>6, <1>12 DEF start, GnReasons, WithReason
  <2>2. /\ x \in GnPairs /\ x.eng = gnEng /\ x.run.reason = "engineBusy"
        /\ x.run.state = gnRun.state /\ x.run.armedEpoch = gnRun.armedEpoch
    BY <1>8, <2>1, ReasonEffect
  <2> QED BY <1>12, <2>2, RefusalKeeps
<1>13. CASE gnRun.state = "Idle" /\ gnHold.by = "" /\ GnLive /\ GnQuiescent(gnEng)
  <2>1. PICK e : e = GnSet(gnEng, makeSource(p.run.settings, gnEng.rate))
    OBVIOUS
  <2>2. PICK r : r = [p.run EXCEPT !.state = "Playing", !.armedEpoch = gnEng.epoch, !.reason = "",
                                   !.armedIn = gnDev.synthetic]
    OBVIOUS
  <2>3. PICK y : y = routeSelected([run |-> r, eng |-> e])
    OBVIOUS
  <2>4. x = [y EXCEPT !.eng = GnArm(@)]
    BY <1>6, <1>13, <2>1, <2>2, <2>3 DEF start
  <2>5. gnEng.rate \in GnRates /\ gnEng.epoch \in Nat
    BY <1>1 DEF GnEngines
  <2>6. makeSource(s, gnEng.rate) \in GnSources /\ makeSource(s, gnEng.rate).by = "GEN"
    BY <1>5, <2>5, SourceType
  <2>7. /\ e \in GnEngines
        /\ e.epoch = gnEng.epoch /\ e.armed = gnEng.armed /\ e.idle = gnEng.idle /\ e.rate = gnEng.rate
        /\ e.slotEpoch = gnEng.epoch /\ e.slot = makeSource(s, gnEng.rate)
    BY <1>1, <1>8, <2>1, <2>6, SetEffect
  <2>8. p.run \in GnRuns
    BY <1>8 DEF GnPairs
  <2>9. r = [state |-> "Playing", settings |-> s, armedEpoch |-> gnEng.epoch, waited |-> p.run.waited,
             reason |-> "", armedIn |-> gnDev.synthetic]
    BY <1>8, <2>2, <2>8, Zenon DEF GnRuns
  <2>10. "" \in GnReasons /\ gnDev.synthetic \in BOOLEAN /\ p.run.waited \in 0..GnTimeout
    BY <2>8 DEF GnReasons, GnDevices, GnRuns
  <2>11. r \in GnRuns /\ r.state = "Playing" /\ r.settings = s /\ r.armedEpoch = gnEng.epoch
    BY <1>5, <2>5, <2>9, <2>10 DEF GnRuns
  <2>12. r.armedIn = gnDev.synthetic
    BY <2>9, Zenon
  <2>13. [run |-> r, eng |-> e] \in GnPairs
    BY <2>7, <2>11 DEF GnPairs
  <2>14. /\ y \in GnPairs /\ y.run = r /\ y.eng.routes = s.outputs
         /\ y.eng.epoch = gnEng.epoch /\ y.eng.idle = gnEng.idle /\ y.eng.rate = gnEng.rate
         /\ y.eng.slotEpoch = gnEng.epoch /\ y.eng.slot = makeSource(s, gnEng.rate)
    BY <2>3, <2>7, <2>11, <2>13, RouteSelectedEffect
  <2>15. y.eng \in GnEngines /\ x = [run |-> r, eng |-> GnArm(y.eng)]
    BY <2>4, <2>14, Zenon DEF GnPairs
  <2>16. PICK z : z = GnArm(y.eng)
    OBVIOUS
  <2>17. /\ z \in GnEngines /\ z.armed = TRUE
         /\ z.epoch = gnEng.epoch /\ z.rate = gnEng.rate /\ z.routes = s.outputs
         /\ z.slotEpoch = gnEng.epoch /\ z.slot = makeSource(s, gnEng.rate)
    BY <2>14, <2>15, <2>16, ArmEffect
  <2>18. x.run = r /\ x.eng = z /\ x \in GnPairs
    BY <2>11, <2>15, <2>16, <2>17 DEF GnPairs
  <2>19. GnAgree(r, z, gnDev.synthetic, gnHold)
    <3>1. GnModeKept(r, gnDev.synthetic)
      BY <2>12 DEF GnModeKept
    <3>2. r.armedEpoch <= z.epoch
      BY <2>5, <2>11, <2>17
    <3>3. z.slot.by = "GEN" /\ z.slot = makeSource(r.settings, z.rate)
      BY <2>6, <2>11, <2>17
    <3>4. r.settings.outputs = z.routes
      BY <2>11, <2>17
    <3> QED BY <1>13, <2>11, <2>17, <3>1, <3>2, <3>3, <3>4 DEF GnAgree, GnSounding
  <2> QED BY <2>18, <2>19
<1> QED BY <1>9, <1>10, <1>11, <1>12, <1>13

\* What a strip's control may ask for: a level before the clamp, any ticks.
GnAsked == [signal : GnSignals, level : Int, hz : GnHz, outputs : SUBSET GnChannels]

\* The settings and routes after apply() and poll() have changed the settings of a runner:
\* the routes are the new ticks if it sounds, and nothing else of the engine moves.
LEMMA RoutedKeeps ==
  ASSUME gnRun \in GnRuns, gnEng \in GnEngines, NEW next \in GnSettings,
         GnSounding(gnRun) /\ gnEng.epoch = gnRun.armedEpoch => gnEng.routes = gnRun.settings.outputs,
         NEW x, x = IF GnSounding(gnRun) /\ next.outputs # gnRun.settings.outputs
                    THEN routeSelected(WithSettings(GnNow, next)) ELSE WithSettings(GnNow, next)
  PROVE  /\ x \in GnPairs /\ x.run \in GnRuns /\ x.eng \in GnEngines /\ x.run.settings = next
         /\ x.run.state = gnRun.state /\ x.run.reason = gnRun.reason
         /\ x.run.armedEpoch = gnRun.armedEpoch /\ x.run.armedIn = gnRun.armedIn
         /\ x.eng.epoch = gnEng.epoch /\ x.eng.armed = gnEng.armed /\ x.eng.idle = gnEng.idle
         /\ x.eng.rate = gnEng.rate /\ x.eng.slotEpoch = gnEng.slotEpoch /\ x.eng.slot = gnEng.slot
         /\ GnSounding(gnRun) /\ gnEng.epoch = gnRun.armedEpoch => x.eng.routes = next.outputs
<1>1. GnNow \in GnPairs /\ GnNow.run = gnRun /\ GnNow.eng = gnEng
  BY NowIsPair
<1>2. PICK p : p = WithSettings(GnNow, next)
  OBVIOUS
<1>3. /\ p \in GnPairs /\ p.eng = gnEng /\ p.run.settings = next
      /\ p.run.state = gnRun.state /\ p.run.reason = gnRun.reason /\ p.run.armedEpoch = gnRun.armedEpoch
      /\ p.run.armedIn = gnRun.armedIn
  BY <1>1, <1>2, SettingsEffect
<1>4. x \in GnPairs => x.run \in GnRuns /\ x.eng \in GnEngines
  BY DEF GnPairs
<1>5. CASE GnSounding(gnRun) /\ next.outputs # gnRun.settings.outputs
  <2>1. x = routeSelected(p)
    BY <1>2, <1>5
  <2>2. /\ x \in GnPairs /\ x.run = p.run /\ x.eng.routes = p.run.settings.outputs
        /\ x.eng.epoch = p.eng.epoch /\ x.eng.armed = p.eng.armed /\ x.eng.idle = p.eng.idle
        /\ x.eng.rate = p.eng.rate /\ x.eng.slotEpoch = p.eng.slotEpoch /\ x.eng.slot = p.eng.slot
    BY <1>3, <2>1, RouteSelectedEffect
  <2> QED BY <1>3, <1>4, <2>2
<1>6. CASE ~(GnSounding(gnRun) /\ next.outputs # gnRun.settings.outputs)
  <2>1. x = p
    BY <1>2, <1>6
  <2> QED BY <1>3, <1>4, <1>6, <2>1
<1> QED BY <1>5, <1>6

\* A runner that keeps its state, with settings whose source is the same while it plays.
LEMMA SameSoundKeeps ==
  ASSUME NEW mode, NEW h, GnAgree(gnRun, gnEng, mode, h),
         NEW x \in GnPairs, x.run \in GnRuns, x.eng \in GnEngines,
         x.run.state = gnRun.state, x.run.reason = gnRun.reason,
         x.run.armedEpoch = gnRun.armedEpoch, x.run.armedIn = gnRun.armedIn,
         x.eng.epoch = gnEng.epoch, x.eng.armed = gnEng.armed, x.eng.idle = gnEng.idle,
         x.eng.rate = gnEng.rate, x.eng.slotEpoch = gnEng.slotEpoch, x.eng.slot = gnEng.slot,
         GnSounding(gnRun) /\ gnEng.epoch = gnRun.armedEpoch => x.eng.routes = x.run.settings.outputs,
         gnRun.state = "Playing" =>
            makeSource(x.run.settings, gnEng.rate) = makeSource(gnRun.settings, gnEng.rate)
  PROVE  GnAgree(x.run, x.eng, mode, h)
<1>1. GnModeKept(x.run, mode)
  BY DEF GnAgree, GnModeKept
<1> QED BY <1>1 DEF GnAgree, GnSounding

\* apply(): the settings move at once, the routes with them; another source begins a swap.
LEMMA ApplyKeeps ==
  ASSUME gnDev \in GnDevices, GnAgree(gnRun, gnEng, gnDev.synthetic, gnHold),
         NEW asked \in GnAsked, NEW x, x = apply(asked)
  PROVE  GnAgree(x.run, x.eng, gnDev.synthetic, gnHold) /\ x \in GnPairs
<1>1. gnRun \in GnRuns /\ gnEng \in GnEngines
  BY DEF GnAgree
<1>2. GnNow \in GnPairs /\ GnNow.run = gnRun /\ GnNow.eng = gnEng
  BY <1>1, NowIsPair
<1>3. PICK next : next = [asked EXCEPT !.level = clampGeneratorLevelDb(@), !.outputs = pruneOutputs(@, GnNumOutputs)]
  OBVIOUS
<1>4. next \in GnSettings
  <2>1. asked.level \in Int /\ asked.outputs \in SUBSET GnChannels /\ asked.signal \in GnSignals /\ asked.hz \in GnHz
    BY DEF GnAsked
  <2>2. clampGeneratorLevelDb(asked.level) \in GnLevels
    BY <2>1, ClampLevel
  <2>3. pruneOutputs(asked.outputs, GnNumOutputs) \in {t \in SUBSET GnChannels : t # {}}
    BY <2>1, PruneType, NumOutputsType
  <2>4. next = [signal |-> asked.signal, level |-> clampGeneratorLevelDb(asked.level), hz |-> asked.hz,
                outputs |-> pruneOutputs(asked.outputs, GnNumOutputs)]
    BY <1>3, Zenon DEF GnAsked
  <2> QED BY <2>1, <2>2, <2>3, <2>4 DEF GnSettings
<1>5. CASE asked.outputs = {}
  BY <1>2, <1>5 DEF apply
<1>6. CASE asked.outputs # {}
  <2>1. PICK y : y = IF GnSounding(gnRun) /\ next.outputs # gnRun.settings.outputs
                     THEN routeSelected(WithSettings(GnNow, next)) ELSE WithSettings(GnNow, next)
    OBVIOUS
  <2>2. /\ y \in GnPairs /\ y.run \in GnRuns /\ y.eng \in GnEngines /\ y.run.settings = next
        /\ y.run.state = gnRun.state /\ y.run.reason = gnRun.reason
        /\ y.run.armedEpoch = gnRun.armedEpoch /\ y.run.armedIn = gnRun.armedIn
        /\ y.eng.epoch = gnEng.epoch /\ y.eng.armed = gnEng.armed /\ y.eng.idle = gnEng.idle
        /\ y.eng.rate = gnEng.rate /\ y.eng.slotEpoch = gnEng.slotEpoch /\ y.eng.slot = gnEng.slot
        /\ GnSounding(gnRun) /\ gnEng.epoch = gnRun.armedEpoch => y.eng.routes = next.outputs
    <3>1. GnSounding(gnRun) /\ gnEng.epoch = gnRun.armedEpoch => gnEng.routes = gnRun.settings.outputs
      BY DEF GnAgree
    <3> QED BY <1>1, <1>4, <2>1, <3>1, RoutedKeeps
  <2>3. x = IF gnRun.state = "Playing" /\ sourceChanged(next)
            THEN [run |-> [y.run EXCEPT !.state = "Swapping", !.waited = 0], eng |-> GnDisarm(y.eng)] ELSE y
    BY <1>3, <1>6, <2>1 DEF apply, WithSettings
  <2>4. CASE gnRun.state = "Playing" /\ sourceChanged(next)
    <3>1. PICK r : r = [y.run EXCEPT !.state = "Swapping", !.waited = 0]
      OBVIOUS
    <3>2. PICK e : e = GnDisarm(y.eng)
      OBVIOUS
    <3>3. r = [state |-> "Swapping", settings |-> y.run.settings, armedEpoch |-> y.run.armedEpoch,
               waited |-> 0, reason |-> y.run.reason, armedIn |-> y.run.armedIn]
      BY <2>2, <3>1, Zenon DEF GnRuns
    <3>4. /\ y.run.settings \in GnSettings /\ y.run.armedEpoch \in Nat /\ y.run.reason \in GnReasons
          /\ y.run.armedIn \in BOOLEAN /\ 0 \in 0..GnTimeout
      BY <2>2, GnAssumption DEF GnRuns
    <3>5. r \in GnRuns
      BY <3>3, <3>4 DEF GnRuns
    <3>6. r.state = "Swapping" /\ r.settings = next /\ r.armedEpoch = gnRun.armedEpoch /\ r.reason = gnRun.reason
      BY <2>2, <3>3
    <3>7. r.armedIn = gnRun.armedIn
      BY <2>2, <3>3
    <3>8. /\ e \in GnEngines
          /\ e.epoch = gnEng.epoch /\ e.armed = FALSE /\ e.idle = gnEng.idle /\ e.rate = gnEng.rate
          /\ e.routes = y.eng.routes /\ e.slotEpoch = gnEng.slotEpoch /\ e.slot = gnEng.slot
      BY <2>2, <3>2, DisarmEffect
    <3>9. x = [run |-> r, eng |-> e]
      BY <2>3, <2>4, <3>1, <3>2
    <3>10. x.run = r /\ x.eng = e /\ x \in GnPairs
      BY <3>5, <3>8, <3>9 DEF GnPairs
    <3>11. GnModeKept(r, gnDev.synthetic)
      BY <2>4, <3>7 DEF GnAgree, GnModeKept
    <3>12. gnHold.by # "LOCATE" /\ gnEng.epoch >= gnRun.armedEpoch
      BY <2>4 DEF GnAgree
    <3>13. gnEng.epoch = gnRun.armedEpoch => e.routes = next.outputs
      BY <2>2, <2>4, <3>8 DEF GnSounding
    <3>14. GnAgree(r, e, gnDev.synthetic, gnHold)
      BY <3>5, <3>6, <3>8, <3>11, <3>12, <3>13 DEF GnAgree, GnSounding
    <3> QED BY <3>10, <3>14
  <2>5. CASE ~(gnRun.state = "Playing" /\ sourceChanged(next))
    <3>1. x = y
      BY <2>3, <2>5
    <3>2. gnRun.state = "Playing" => makeSource(next, gnEng.rate) = makeSource(gnRun.settings, gnEng.rate)
      BY <2>5, SameSource
    <3> QED BY <2>2, <3>1, <3>2, SameSoundKeeps
  <2> QED BY <2>4, <2>5
<1> QED BY <1>5, <1>6

\* poll()'s first part: an output that disappeared is no longer ticked, and not routed either.
LEMMA PrunedKeeps ==
  ASSUME gnDev \in GnDevices, GnAgree(gnRun, gnEng, gnDev.synthetic, gnHold), NEW x, x = GnPruned
  PROVE  /\ GnAgree(x.run, x.eng, gnDev.synthetic, gnHold) /\ x \in GnPairs
<1>1. gnRun \in GnRuns /\ gnEng \in GnEngines
  BY DEF GnAgree
<1>2. GnNow \in GnPairs /\ GnNow.run = gnRun /\ GnNow.eng = gnEng
  BY <1>1, NowIsPair
<1>3. gnRun.settings \in GnSettings
  BY <1>1 DEF GnRuns
<1>4. PICK s : s = [gnRun.settings EXCEPT !.outputs = pruneOutputs(@, GnNumOutputs)]
  OBVIOUS
<1>5. /\ s \in GnSettings /\ s.outputs = pruneOutputs(gnRun.settings.outputs, GnNumOutputs)
      /\ s.signal = gnRun.settings.signal /\ s.level = gnRun.settings.level /\ s.hz = gnRun.settings.hz
  BY <1>3, <1>4, PrunedSettings, NumOutputsType
<1>6. PICK p : p = [GnNow EXCEPT !.run.settings.outputs = pruneOutputs(gnRun.settings.outputs, GnNumOutputs)]
  OBVIOUS
<1>7. p = WithSettings(GnNow, s)
  BY <1>1, <1>4, <1>6, Zenon DEF GnNow, GnRuns, WithSettings
<1>8. CASE GnNumOutputs = 0 \/ s.outputs = gnRun.settings.outputs
  <2>1. x = GnNow
    BY <1>5, <1>8 DEF GnPruned
  <2> QED BY <1>2, <2>1
<1>9. CASE ~(GnNumOutputs = 0 \/ s.outputs = gnRun.settings.outputs)
  <2>1. x = IF GnSounding(gnRun) THEN routeSelected(p) ELSE p
    BY <1>5, <1>6, <1>9 DEF GnPruned
  <2>2. x = IF GnSounding(gnRun) /\ s.outputs # gnRun.settings.outputs
            THEN routeSelected(WithSettings(GnNow, s)) ELSE WithSettings(GnNow, s)
    BY <1>7, <1>9, <2>1
  <2>3. GnSounding(gnRun) /\ gnEng.epoch = gnRun.armedEpoch => gnEng.routes = gnRun.settings.outputs
    BY DEF GnAgree
  <2>4. /\ x \in GnPairs /\ x.run \in GnRuns /\ x.eng \in GnEngines /\ x.run.settings = s
        /\ x.run.state = gnRun.state /\ x.run.reason = gnRun.reason
        /\ x.run.armedEpoch = gnRun.armedEpoch /\ x.run.armedIn = gnRun.armedIn
        /\ x.eng.epoch = gnEng.epoch /\ x.eng.armed = gnEng.armed /\ x.eng.idle = gnEng.idle
        /\ x.eng.rate = gnEng.rate /\ x.eng.slotEpoch = gnEng.slotEpoch /\ x.eng.slot = gnEng.slot
        /\ GnSounding(gnRun) /\ gnEng.epoch = gnRun.armedEpoch => x.eng.routes = s.outputs
    BY <1>1, <1>5, <2>2, <2>3, RoutedKeeps
  <2>5. makeSource(s, gnEng.rate) = makeSource(gnRun.settings, gnEng.rate)
    BY <1>5 DEF makeSource
  <2> QED BY <2>4, <2>5, SameSoundKeeps
<1> QED BY <1>8, <1>9

\* The end of a swap: the new source, labelled with this session, armed on the routed outputs.
LEMMA SwappedKeeps ==
  ASSUME NEW g \in GnPairs, NEW mode, NEW h, GnAgree(g.run, g.eng, mode, h),
         g.run.state = "Swapping", g.eng.epoch = g.run.armedEpoch, NEW x, x = GnSwapped(g)
  PROVE  GnAgree(x.run, x.eng, mode, h) /\ x \in GnPairs
<1>1. PICK q : q = g.run
  OBVIOUS
<1>2. PICK o : o = g.eng
  OBVIOUS
<1>3. q \in GnRuns /\ o \in GnEngines /\ GnAgree(q, o, mode, h) /\ q.state = "Swapping" /\ o.epoch = q.armedEpoch
  BY <1>1, <1>2 DEF GnPairs
<1>4. PICK r : r = [q EXCEPT !.state = "Playing"]
  OBVIOUS
<1>5. PICK s : s = makeSource(q.settings, o.rate)
  OBVIOUS
<1>6. PICK e : e = GnSet(o, s)
  OBVIOUS
<1>7. PICK z : z = GnArm(e)
  OBVIOUS
<1>8. x = [run |-> r, eng |-> z]
  BY <1>1, <1>2, <1>4, <1>5, <1>6, <1>7 DEF GnSwapped
<1>9. q.settings \in GnSettings /\ o.rate \in GnRates /\ q.armedEpoch \in Nat
  BY <1>3 DEF GnRuns, GnEngines
<1>10. s \in GnSources /\ s.by = "GEN"
  BY <1>5, <1>9, SourceType
<1>11. /\ e \in GnEngines /\ e.epoch = o.epoch /\ e.rate = o.rate
       /\ e.routes = o.routes /\ e.slotEpoch = o.epoch /\ e.slot = s
  BY <1>3, <1>6, <1>10, SetEffect
<1>12. /\ z \in GnEngines /\ z.epoch = o.epoch /\ z.armed = TRUE /\ z.rate = o.rate
       /\ z.routes = o.routes /\ z.slotEpoch = o.epoch /\ z.slot = s
  BY <1>7, <1>11, ArmEffect
<1>13. r = [state |-> "Playing", settings |-> q.settings, armedEpoch |-> q.armedEpoch,
            waited |-> q.waited, reason |-> q.reason, armedIn |-> q.armedIn]
  BY <1>3, <1>4, Zenon DEF GnRuns
<1>14. r \in GnRuns
  BY <1>3, <1>13 DEF GnRuns
<1>15. r.state = "Playing" /\ r.settings = q.settings /\ r.armedEpoch = q.armedEpoch /\ r.armedIn = q.armedIn
  BY <1>13
<1>16. x.run = r /\ x.eng = z /\ x \in GnPairs
  BY <1>8, <1>12, <1>14 DEF GnPairs
<1>17. GnModeKept(r, mode)
  BY <1>3, <1>15 DEF GnAgree, GnModeKept
<1>18. h.by # "LOCATE" /\ o.routes = q.settings.outputs
  BY <1>3 DEF GnAgree, GnSounding
<1>19. z.slot = makeSource(r.settings, z.rate) /\ z.slot.by = "GEN" /\ r.armedEpoch <= z.epoch
  BY <1>3, <1>5, <1>9, <1>10, <1>12, <1>15
<1>20. GnAgree(r, z, mode, h)
  BY <1>3, <1>12, <1>14, <1>15, <1>17, <1>18, <1>19 DEF GnAgree, GnSounding
<1> QED BY <1>16, <1>20

NoReason == ""
Ended(g, why) == [g EXCEPT !.run.state = "Idle", !.run.reason = why]

\* The end of a stop: idle, without a reason only if the engine is quiet.
LEMMA StoppedKeeps ==
  ASSUME NEW g \in GnPairs, NEW mode, NEW h, GnAgree(g.run, g.eng, mode, h),
         g.run.state = "Stopping", NEW why \in GnReasons, why = NoReason => GnQuiescent(g.eng),
         NEW x, x = Ended(g, why)
  PROVE  GnAgree(x.run, x.eng, mode, h) /\ x \in GnPairs
<1>1. PICK q : q = g.run
  OBVIOUS
<1>2. PICK o : o = g.eng
  OBVIOUS
<1>3. q \in GnRuns /\ o \in GnEngines /\ GnAgree(q, o, mode, h) /\ q.state = "Stopping" /\ (why = NoReason => GnQuiescent(o))
  BY <1>1, <1>2 DEF GnPairs
<1>4. PICK r : r = [q EXCEPT !.state = "Idle", !.reason = why]
  OBVIOUS
<1>5. x = [run |-> r, eng |-> o]
  BY <1>1, <1>2, <1>4, Zenon DEF GnPairs, Ended
<1>6. r = [state |-> "Idle", settings |-> q.settings, armedEpoch |-> q.armedEpoch,
           waited |-> q.waited, reason |-> why, armedIn |-> q.armedIn]
  BY <1>3, <1>4, Zenon DEF GnRuns
<1>7. r \in GnRuns
  BY <1>3, <1>6 DEF GnRuns
<1>8. r.state = "Idle" /\ r.reason = why /\ r.armedEpoch = q.armedEpoch
  BY <1>6
<1>9. x.run = r /\ x.eng = o /\ x \in GnPairs
  BY <1>3, <1>5, <1>7 DEF GnPairs
<1>10. GnAgree(r, o, mode, h)
  BY <1>3, <1>7, <1>8 DEF GnAgree, GnSounding, GnModeKept, GnQuiescent, NoReason
<1> QED BY <1>9, <1>10

\* poll()'s wait: a swap or a stop that went quiet, one that timed out, or one that goes on.
LEMMA WaitedKeeps ==
  ASSUME NEW g \in GnPairs, NEW mode, NEW h, GnAgree(g.run, g.eng, mode, h),
         g.eng.epoch = g.run.armedEpoch, NEW x, x = GnWaited(g)
  PROVE  GnAgree(x.run, x.eng, mode, h) /\ x \in GnPairs
<1>1. CASE g.run.state = "Swapping" /\ GnQuiescent(g.eng)
  <2>1. x = GnSwapped(g)
    BY <1>1 DEF GnWaited
  <2> QED BY <1>1, <2>1, SwappedKeeps
<1>2. CASE g.run.state = "Swapping" /\ ~GnQuiescent(g.eng) /\ g.run.waited >= GnTimeout
  <2>1. x = goIdle(g, "didNotSettle")
    BY <1>2 DEF GnWaited
  <2>2. "didNotSettle" \in GnReasons /\ "didNotSettle" # ""
    BY DEF GnReasons
  <2> QED BY <2>1, <2>2, GoIdleKeeps
<1>3. CASE g.run.state = "Stopping" /\ GnQuiescent(g.eng)
  <2>1. x = Ended(g, "")
    BY <1>3 DEF GnWaited, Ended
  <2>2. "" \in GnReasons
    BY DEF GnReasons
  <2> QED BY <1>3, <2>1, <2>2, StoppedKeeps
<1>4. CASE g.run.state = "Stopping" /\ ~GnQuiescent(g.eng) /\ g.run.waited >= GnTimeout
  <2>1. x = Ended(g, "notConfirmedSilent")
    BY <1>4 DEF GnWaited, Ended
  <2>2. "notConfirmedSilent" \in GnReasons /\ "notConfirmedSilent" # NoReason
    BY DEF GnReasons, NoReason
  <2> QED BY <1>4, <2>1, <2>2, StoppedKeeps
<1>5. CASE /\ ~(g.run.state = "Swapping" /\ (GnQuiescent(g.eng) \/ g.run.waited >= GnTimeout))
           /\ ~(g.run.state = "Stopping" /\ (GnQuiescent(g.eng) \/ g.run.waited >= GnTimeout))
  <2>1. x = g
    BY <1>5 DEF GnWaited
  <2> QED BY <2>1
<1> QED BY <1>1, <1>2, <1>3, <1>4, <1>5

\* poll().
LEMMA PollKeeps ==
  ASSUME gnDev \in GnDevices, GnAgree(gnRun, gnEng, gnDev.synthetic, gnHold), NEW x, x = genPoll
  PROVE  GnAgree(x.run, x.eng, gnDev.synthetic, gnHold) /\ x \in GnPairs
<1>1. PICK g : g = GnPruned
  OBVIOUS
<1>2. GnAgree(g.run, g.eng, gnDev.synthetic, gnHold) /\ g \in GnPairs
  BY <1>1, PrunedKeeps
<1>3. CASE g.run.state = "Idle"
  <2>1. x = g
    BY <1>1, <1>3 DEF genPoll
  <2> QED BY <1>2, <2>1
<1>4. CASE g.run.state # "Idle" /\ g.eng.epoch # g.run.armedEpoch
  <2>1. x = goIdle(g, "deviceRestarted")
    BY <1>1, <1>4 DEF genPoll
  <2>2. "deviceRestarted" \in GnReasons /\ "deviceRestarted" # ""
    BY DEF GnReasons
  <2> QED BY <1>2, <2>1, <2>2, GoIdleKeeps
<1>5. CASE g.run.state # "Idle" /\ g.eng.epoch = g.run.armedEpoch /\ ~GnLive /\ GnSounding(g.run)
  <2>1. x = goIdle(g, "deviceStopped")
    BY <1>1, <1>5 DEF genPoll
  <2>2. "deviceStopped" \in GnReasons /\ "deviceStopped" # ""
    BY DEF GnReasons
  <2> QED BY <1>2, <2>1, <2>2, GoIdleKeeps
<1>6. CASE g.run.state # "Idle" /\ g.eng.epoch = g.run.armedEpoch /\ (GnLive \/ ~GnSounding(g.run))
  <2>1. x = GnWaited(g)
    BY <1>1, <1>6 DEF genPoll
  <2> QED BY <1>2, <1>6, <2>1, WaitedKeeps
<1> QED BY <1>3, <1>4, <1>5, <1>6

-------------------------------------------------------------------------------
(* The strip's handlers, the others, the device. *)

GnLefts == [clicks : Nat, devices : Nat, presses : Nat]

\* refresh() moves neither the MEAS control nor the menu.
LEMMA RefreshEffect ==
  ASSUME gnHold \in GnHolds, NEW u \in GnUis, NEW r \in GnRuns, NEW x, x = refresh(u, r)
  PROVE  x \in GnUis /\ x.mode = u.mode /\ x.own = u.own /\ x.menu = u.menu
<1>1. PICK why : why = IF u.refusal # gnHold.by THEN "" ELSE u.refusal
  OBVIOUS
<1>2. why \in GnHolders
  BY <1>1 DEF GnUis, GnHolders
<1>3. needsFastPoll(r) \in BOOLEAN
  BY DEF needsFastPoll
<1>4. x = [timer |-> needsFastPoll(r), mode |-> u.mode, own |-> u.own, refusal |-> why, menu |-> u.menu]
  BY <1>1, Zenon DEF refresh, GnUis
<1> HIDE DEF needsFastPoll
<1> QED BY <1>2, <1>3, <1>4 DEF GnUis

\* GnUnrefused is the strip without its note.
LEMMA UnrefusedEffect ==
  ASSUME gnUi \in GnUis, NEW x, x = GnUnrefused
  PROVE  x \in GnUis /\ x.mode = gnUi.mode /\ x.own = gnUi.own /\ x.menu = gnUi.menu /\ x.timer = gnUi.timer
<1>0. PICK why : why = ""
  OBVIOUS
<1>1. x = [timer |-> gnUi.timer, mode |-> gnUi.mode, own |-> gnUi.own, refusal |-> why, menu |-> gnUi.menu]
  BY <1>0, Zenon DEF GnUnrefused, GnUis
<1>2. why \in GnHolders
  BY <1>0 DEF GnHolders
<1> QED BY <1>1, <1>2 DEF GnUis

\* The bounds count down.
LEMMA ClickLeft ==
  ASSUME gnLeft \in GnLefts, GnClick
  PROVE  gnLeft' \in GnLefts
<1>1. gnLeft.clicks \in Nat /\ gnLeft.clicks > 0
  BY DEF GnClick, GnLefts
<1>2. gnLeft.clicks - 1 \in Nat
  BY <1>1
<1> QED BY <1>2 DEF GnClick, GnLefts

\* A change of the device uses one of those left.
LEMMA ReconfigureLeft ==
  ASSUME gnLeft \in GnLefts, GnReconfigure
  PROVE  gnLeft' \in GnLefts
<1>1. gnLeft.devices \in Nat /\ gnLeft.devices > 0
  BY DEF GnReconfigure, GnLefts
<1>2. gnLeft.devices - 1 \in Nat
  BY <1>1
<1> QED BY <1>2 DEF GnReconfigure, GnLefts

\* A handler that hands its result over: what the operation owes, the strip keeps.
LEMMA DoneKeeps ==
  ASSUME GnIInv, NEW g \in GnPairs, GnAgree(g.run, g.eng, gnDev.synthetic, gnHold),
         NEW u \in GnUis, u.mode = gnUi.mode, u.own = gnUi.own, GnDone(g, u),
         gnDev' = gnDev, gnHold' = gnHold, gnLeft' \in GnLefts
  PROVE  GnIInv'
<1>1. gnRun' = g.run /\ gnEng' = g.eng /\ gnUi' = refresh(u, g.run)
  BY DEF GnDone
<1>2. g.run \in GnRuns /\ g.eng \in GnEngines
  BY DEF GnPairs
<1>3. gnUi' \in GnUis /\ gnUi'.mode = gnUi.mode /\ gnUi'.own = gnUi.own
  <2>1. gnHold \in GnHolds
    BY DEF GnIInv, GnTypeOK
  <2> QED BY <1>1, <1>2, <2>1, RefreshEffect
<1>4. GnShown(gnUi', gnHold')
  BY <1>3 DEF GnIInv, GnShown
<1>5. GnAgree(gnRun', gnEng', gnDev'.synthetic, gnHold')
  BY <1>1
<1>6. GnTypeOK'
  BY <1>1, <1>2, <1>3 DEF GnIInv, GnTypeOK, GnLefts
<1> QED BY <1>4, <1>5, <1>6 DEF GnIInv

\* The GEN button starts an idle generator and stops a sounding one.
LEMMA GenClickedStep == GnIInv /\ genClicked => GnIInv'
<1> SUFFICES ASSUME GnIInv, genClicked PROVE GnIInv'
  OBVIOUS
<1>1. /\ gnDev \in GnDevices /\ gnUi \in GnUis /\ gnHold \in GnHolds /\ gnLeft \in GnLefts
      /\ GnAgree(gnRun, gnEng, gnDev.synthetic, gnHold)
  BY DEF GnIInv, GnTypeOK, GnLefts
<1>2. PICK g : g = IF gnRun.state # "Idle" THEN stop ELSE start
  OBVIOUS
<1>3. g \in GnPairs /\ GnAgree(g.run, g.eng, gnDev.synthetic, gnHold)
  BY <1>1, <1>2, StopKeeps, StartKeeps
<1>4. PICK u : u = GnUnrefused
  OBVIOUS
<1>5. u \in GnUis /\ u.mode = gnUi.mode /\ u.own = gnUi.own
  BY <1>1, <1>4, UnrefusedEffect
<1>6. GnDone(g, u) /\ gnDev' = gnDev /\ gnHold' = gnHold /\ GnClick
  BY <1>2, <1>4 DEF genClicked
<1> QED BY <1>1, <1>3, <1>5, <1>6, DoneKeeps, ClickLeft

\* The four controls of the strip that end in apply().
LEMMA AppliedStep ==
  ASSUME GnIInv, NEW asked \in GnAsked, NEW u \in GnUis, u.mode = gnUi.mode, u.own = gnUi.own,
         GnDone(apply(asked), u), GnClick, gnDev' = gnDev, gnHold' = gnHold
  PROVE  GnIInv'
<1>1. /\ gnDev \in GnDevices /\ gnHold \in GnHolds /\ gnLeft \in GnLefts
      /\ GnAgree(gnRun, gnEng, gnDev.synthetic, gnHold)
  BY DEF GnIInv, GnTypeOK, GnLefts
<1>2. PICK g : g = apply(asked)
  OBVIOUS
<1>3. g \in GnPairs /\ GnAgree(g.run, g.eng, gnDev.synthetic, gnHold)
  BY <1>1, <1>2, ApplyKeeps
<1>4. GnDone(g, u)
  BY <1>2
<1> QED BY <1>1, <1>3, <1>4, DoneKeeps, ClickLeft

\* Each control of the strip asks apply() for settings of the right shape.
LEMMA SettingsAreAsked ==
  ASSUME GnIInv
  PROVE  /\ gnRun.settings \in GnSettings /\ gnRun.settings.level \in Int
         /\ gnRun.settings.outputs \in SUBSET GnChannels /\ gnRun.settings.outputs # {}
         /\ \A signal \in GnSignals : [gnRun.settings EXCEPT !.signal = signal] \in GnAsked
         /\ \A hz \in GnHz : [gnRun.settings EXCEPT !.hz = hz] \in GnAsked
         /\ \A level \in Int : [gnRun.settings EXCEPT !.level = level] \in GnAsked
         /\ \A outputs \in SUBSET GnChannels : [gnRun.settings EXCEPT !.outputs = outputs] \in GnAsked
<1>1. PICK s : s = gnRun.settings
  OBVIOUS
<1>2. s \in GnSettings
  BY <1>1 DEF GnIInv, GnTypeOK, GnRuns
<1>3. s.level \in GnLevels /\ s.signal \in GnSignals /\ s.hz \in GnHz /\ s.outputs \in SUBSET GnChannels /\ s.outputs # {}
  BY <1>2 DEF GnSettings
<1>4. GnLevels \subseteq Int
  BY DEF GnLevels
<1>5. s.level \in Int
  BY <1>3, <1>4
<1>6. s = [signal |-> s.signal, level |-> s.level, hz |-> s.hz, outputs |-> s.outputs]
  BY <1>2 DEF GnSettings
<1>7. s \in GnAsked
  BY <1>3, <1>5, <1>6 DEF GnAsked
<1>8. \A signal \in GnSignals : [s EXCEPT !.signal = signal] \in GnAsked
  BY <1>7 DEF GnAsked
<1>9. \A hz \in GnHz : [s EXCEPT !.hz = hz] \in GnAsked
  BY <1>7 DEF GnAsked
<1>10. \A level \in Int : [s EXCEPT !.level = level] \in GnAsked
  BY <1>7 DEF GnAsked
<1>11. \A outputs \in SUBSET GnChannels : [s EXCEPT !.outputs = outputs] \in GnAsked
  BY <1>7 DEF GnAsked
<1> QED BY <1>1, <1>2, <1>3, <1>5, <1>8, <1>9, <1>10, <1>11

\* A step of the level goes through apply().
LEMMA StepClickedStep == ASSUME NEW n \in {-1, 1} PROVE GnIInv /\ stepClicked(n) => GnIInv'
<1> SUFFICES ASSUME GnIInv, stepClicked(n) PROVE GnIInv'
  OBVIOUS
<1>1. PICK level : level = stepGeneratorLevelDb(gnRun.settings.level, n)
  OBVIOUS
<1>2. level \in Int
  <2>1. gnRun.settings.level + n \in Int
    BY SettingsAreAsked
  <2>2. level \in GnLevels
    BY <1>1, <2>1, ClampLevel DEF stepGeneratorLevelDb
  <2> QED BY <2>2 DEF GnLevels
<1>3. PICK asked : asked = [gnRun.settings EXCEPT !.level = level]
  OBVIOUS
<1>4. asked \in GnAsked
  BY <1>2, <1>3, SettingsAreAsked
<1>5. PICK u : u = GnUnrefused
  OBVIOUS
<1>6. u \in GnUis /\ u.mode = gnUi.mode /\ u.own = gnUi.own
  BY <1>5, UnrefusedEffect DEF GnIInv, GnTypeOK
<1>7. GnDone(apply(asked), u) /\ gnDev' = gnDev /\ gnHold' = gnHold /\ GnClick
  BY <1>1, <1>3, <1>5 DEF stepClicked
<1> QED BY <1>4, <1>6, <1>7, AppliedStep

\* A new signal goes through apply().
LEMMA SignalSelectedStep == ASSUME NEW signal \in GnSignals PROVE GnIInv /\ signalSelected(signal) => GnIInv'
<1> SUFFICES ASSUME GnIInv, signalSelected(signal) PROVE GnIInv'
  OBVIOUS
<1>3. PICK asked : asked = [gnRun.settings EXCEPT !.signal = signal]
  OBVIOUS
<1>4. asked \in GnAsked
  BY <1>3, SettingsAreAsked
<1>5. PICK u : u = GnUnrefused
  OBVIOUS
<1>6. u \in GnUis /\ u.mode = gnUi.mode /\ u.own = gnUi.own
  BY <1>5, UnrefusedEffect DEF GnIInv, GnTypeOK
<1>7. GnDone(apply(asked), u) /\ gnDev' = gnDev /\ gnHold' = gnHold /\ GnClick
  BY <1>3, <1>5 DEF signalSelected
<1> QED BY <1>4, <1>6, <1>7, AppliedStep

\* A new frequency goes through apply().
LEMMA FrequencySelectedStep == ASSUME NEW hz \in GnHz PROVE GnIInv /\ frequencySelected(hz) => GnIInv'
<1> SUFFICES ASSUME GnIInv, frequencySelected(hz) PROVE GnIInv'
  OBVIOUS
<1>3. PICK asked : asked = [gnRun.settings EXCEPT !.hz = hz]
  OBVIOUS
<1>4. asked \in GnAsked
  BY <1>3, SettingsAreAsked
<1>5. PICK u : u = GnUnrefused
  OBVIOUS
<1>6. u \in GnUis /\ u.mode = gnUi.mode /\ u.own = gnUi.own
  BY <1>5, UnrefusedEffect DEF GnIInv, GnTypeOK
<1>7. GnDone(apply(asked), u) /\ gnDev' = gnDev /\ gnHold' = gnHold /\ GnClick
  BY <1>3, <1>5 DEF frequencySelected
<1> QED BY <1>4, <1>6, <1>7, AppliedStep

\* A row of the OUT menu, however old, goes through apply().
LEMMA OutputToggledStep == ASSUME NEW ch \in gnUi.menu PROVE GnIInv /\ outputToggled(ch) => GnIInv'
<1> SUFFICES ASSUME GnIInv, outputToggled(ch) PROVE GnIInv'
  OBVIOUS
<1>1. gnUi \in GnUis /\ ch \in GnChannels
  BY DEF GnIInv, GnTypeOK, GnUis
<1>2. PICK outputs : outputs = IF ch \in gnRun.settings.outputs THEN gnRun.settings.outputs \ {ch}
                               ELSE gnRun.settings.outputs \cup {ch}
  OBVIOUS
<1>3. outputs \in SUBSET GnChannels
  <2>1. gnRun.settings.outputs \in SUBSET GnChannels
    BY SettingsAreAsked
  <2> QED BY <1>1, <1>2, <2>1
<1>4. PICK asked : asked = [gnRun.settings EXCEPT !.outputs = outputs]
  OBVIOUS
<1>5. asked \in GnAsked
  BY <1>3, <1>4, SettingsAreAsked
<1>6. PICK v : v = GnUnrefused
  OBVIOUS
<1>7. v \in GnUis /\ v.mode = gnUi.mode /\ v.own = gnUi.own
  BY <1>1, <1>6, UnrefusedEffect
<1>8. PICK u : u = [v EXCEPT !.menu = {}]
  OBVIOUS
<1>9. u = [timer |-> v.timer, mode |-> v.mode, own |-> v.own, refusal |-> v.refusal, menu |-> {}]
  BY <1>7, <1>8, Zenon DEF GnUis
<1>10. u \in GnUis /\ u.mode = gnUi.mode /\ u.own = gnUi.own
  BY <1>7, <1>9 DEF GnUis
<1>11. GnDone(apply(asked), u) /\ gnDev' = gnDev /\ gnHold' = gnHold /\ GnClick
  BY <1>2, <1>4, <1>6, <1>8 DEF outputToggled
<1> QED BY <1>5, <1>10, <1>11, AppliedStep

\* The rows of the OUT menu are channels.
LEMMA ChoicesType ==
  ASSUME GnIInv
  PROVE  outputChoices \in SUBSET GnChannels
<1>1. gnDev \in GnDevices
  BY DEF GnIInv, GnTypeOK
<1>2. PICK t : t = gnRun.settings.outputs
  OBVIOUS
<1>3. t \in SUBSET GnChannels /\ t # {}
  BY <1>2, SettingsAreAsked
<1>4. Max(t) \in t
  BY <1>3, HighestChannel
<1>5. PICK m : m = Max(t)
  OBVIOUS
<1>6. m \in Nat /\ (m < 2 \/ \E n \in GnOutputs : m < n)
  BY <1>3, <1>4, <1>5 DEF GnChannels
<1>7. GnOutputs \subseteq Nat
  BY GnAssumption
<1>8. 0..m \subseteq GnChannels
  <2> SUFFICES ASSUME NEW c \in 0..m PROVE c \in Nat /\ (c < 2 \/ \E n \in GnOutputs : c < n)
    BY DEF GnChannels
  <2>1. c \in Nat /\ c <= m
    BY <1>6
  <2>2. CASE m < 2
    BY <1>6, <2>1, <2>2
  <2>3. CASE \E n \in GnOutputs : m < n
    <3>1. PICK n \in GnOutputs : m < n
      BY <2>3
    <3>2. n \in Nat
      BY <1>7
    <3>3. c < n
      BY <1>6, <2>1, <3>1, <3>2
    <3> QED BY <2>1, <3>3
  <2> QED BY <1>6, <2>2, <2>3
<1>9. GnNumOutputs > 0 => 0..(GnNumOutputs - 1) \subseteq GnChannels
  <2> SUFFICES ASSUME GnNumOutputs > 0, NEW c \in 0..(GnNumOutputs - 1)
               PROVE  c \in Nat /\ (c < 2 \/ \E n \in GnOutputs : c < n)
    BY DEF GnChannels
  <2>1. GnNumOutputs \in Nat /\ (GnNumOutputs = 2 \/ GnNumOutputs \in GnOutputs)
    BY <1>1, NumOutputsType
  <2>2. c \in Nat /\ c < GnNumOutputs
    BY <2>1
  <2> QED BY <2>1, <2>2
<1>10. outputChoices \subseteq IF GnNumOutputs > 0 THEN 0..(GnNumOutputs - 1) ELSE 0..m
  BY <1>2, <1>5 DEF outputChoices
<1> QED BY <1>8, <1>9, <1>10

\* A step of the strip alone.
LEMMA UiStep ==
  ASSUME GnIInv, gnUi' \in GnUis, gnLeft' \in GnLefts, UNCHANGED <<gnEng, gnDev, gnRun, gnHold>>,
         GnShown(gnUi', gnHold)
  PROVE  GnIInv'
BY DEF GnIInv, GnTypeOK, GnLefts

\* Opening the OUT menu touches the strip only.
LEMMA ShowOutputMenuStep == GnIInv /\ showOutputMenu => GnIInv'
<1> SUFFICES ASSUME GnIInv, showOutputMenu PROVE GnIInv'
  OBVIOUS
<1>1. gnUi \in GnUis /\ gnLeft \in GnLefts /\ GnShown(gnUi, gnHold)
  BY DEF GnIInv, GnTypeOK, GnLefts
<1>2. PICK rows : rows = outputChoices
  OBVIOUS
<1>3. gnUi' = [gnUi EXCEPT !.menu = rows] /\ UNCHANGED <<gnEng, gnDev, gnRun, gnHold, gnLeft>>
  BY <1>2 DEF showOutputMenu
<1>4. gnUi' = [timer |-> gnUi.timer, mode |-> gnUi.mode, own |-> gnUi.own, refusal |-> gnUi.refusal, menu |-> rows]
  BY <1>1, <1>3, Zenon DEF GnUis
<1>5. rows \in SUBSET GnChannels
  BY <1>2, ChoicesType
<1>6. gnUi' \in GnUis /\ gnUi'.mode = gnUi.mode /\ gnUi'.own = gnUi.own
  BY <1>1, <1>4, <1>5 DEF GnUis
<1>7. GnShown(gnUi', gnHold)
  BY <1>1, <1>6 DEF GnShown
<1> QED BY <1>1, <1>3, <1>6, <1>7, UiStep

\* A refusal leaves the MEAS control alone.
LEMMA RefusedStep ==
  ASSUME GnIInv, GnRefused
  PROVE  gnUi' \in GnUis /\ gnUi'.mode = gnUi.mode /\ gnUi'.own = gnUi.own
<1>1. gnUi \in GnUis /\ gnHold \in GnHolds /\ gnRun \in GnRuns /\ gnHold.by \in GnHolders
  BY DEF GnIInv, GnTypeOK, GnHolds
<1>2. PICK u : u = [gnUi EXCEPT !.refusal = gnHold.by]
  OBVIOUS
<1>3. u = [timer |-> gnUi.timer, mode |-> gnUi.mode, own |-> gnUi.own, refusal |-> gnHold.by, menu |-> gnUi.menu]
  BY <1>1, <1>2, Zenon DEF GnUis
<1>4. u \in GnUis /\ u.mode = gnUi.mode /\ u.own = gnUi.own
  BY <1>1, <1>3 DEF GnUis
<1>5. gnUi' = refresh(u, gnRun)
  BY <1>2 DEF GnRefused
<1> QED BY <1>1, <1>4, <1>5, RefreshEffect

\* The MEAS mode is refused while a measurement runs, or changes while none does.
LEMMA MeasurementModeStep == GnIInv /\ measurementModeClicked => GnIInv'
<1> SUFFICES ASSUME GnIInv, measurementModeClicked PROVE GnIInv'
  OBVIOUS
<1>1. /\ gnUi \in GnUis /\ gnLeft \in GnLefts /\ GnShown(gnUi, gnHold) /\ gnRun \in GnRuns /\ gnHold \in GnHolds
      /\ GnClick /\ UNCHANGED <<gnEng, gnDev, gnRun, gnHold>>
  BY DEF GnIInv, GnTypeOK, GnLefts, measurementModeClicked
<1>2. CASE refuseWhileMeasuring
  <2>1. gnUi' \in GnUis /\ gnUi'.mode = gnUi.mode /\ gnUi'.own = gnUi.own
    BY <1>2, RefusedStep DEF measurementModeClicked
  <2>2. GnShown(gnUi', gnHold)
    BY <1>1, <2>1 DEF GnShown
  <2> QED BY <1>1, <2>1, <2>2, UiStep, ClickLeft
<1>3. CASE ~refuseWhileMeasuring
  <2>1. PICK v : v = GnUnrefused
    OBVIOUS
  <2>2. v \in GnUis /\ v.mode = gnUi.mode /\ v.own = gnUi.own
    BY <1>1, <2>1, UnrefusedEffect
  <2>3. PICK u : u = [v EXCEPT !.mode = IF @ = "Own" THEN "FollowGen" ELSE "Own"]
    OBVIOUS
  <2>4. PICK m : m = IF v.mode = "Own" THEN "FollowGen" ELSE "Own"
    OBVIOUS
  <2>5. u = [timer |-> v.timer, mode |-> m, own |-> v.own, refusal |-> v.refusal, menu |-> v.menu]
    BY <2>2, <2>3, <2>4, Zenon DEF GnUis
  <2>6. m \in GnModes
    BY <2>4 DEF GnModes
  <2>7. u \in GnUis
    BY <2>2, <2>5, <2>6 DEF GnUis
  <2>8. gnUi' = refresh(u, gnRun)
    BY <1>3, <2>1, <2>3 DEF measurementModeClicked
  <2>9. gnUi' \in GnUis
    BY <1>1, <2>7, <2>8, RefreshEffect
  <2>10. GnShown(gnUi', gnHold)
    BY <1>3 DEF GnShown, refuseWhileMeasuring
  <2> QED BY <1>1, <2>9, <2>10, UiStep, ClickLeft
<1> QED BY <1>2, <1>3

\* So is a step of its own level.
LEMMA OwnStepClickedStep == ASSUME NEW n \in {-1, 1} PROVE GnIInv /\ ownStepClicked(n) => GnIInv'
<1> SUFFICES ASSUME GnIInv, ownStepClicked(n) PROVE GnIInv'
  OBVIOUS
<1>1. /\ gnUi \in GnUis /\ gnLeft \in GnLefts /\ GnShown(gnUi, gnHold) /\ gnRun \in GnRuns /\ gnHold \in GnHolds
      /\ GnClick /\ UNCHANGED <<gnEng, gnDev, gnRun, gnHold>>
  BY DEF GnIInv, GnTypeOK, GnLefts, ownStepClicked
<1>2. CASE refuseWhileMeasuring
  <2>1. gnUi' \in GnUis /\ gnUi'.mode = gnUi.mode /\ gnUi'.own = gnUi.own
    BY <1>2, RefusedStep DEF ownStepClicked
  <2>2. GnShown(gnUi', gnHold)
    BY <1>1, <2>1 DEF GnShown
  <2> QED BY <1>1, <2>1, <2>2, UiStep, ClickLeft
<1>3. CASE ~refuseWhileMeasuring
  <2>1. PICK v : v = GnUnrefused
    OBVIOUS
  <2>2. v \in GnUis /\ v.mode = gnUi.mode /\ v.own = gnUi.own
    BY <1>1, <2>1, UnrefusedEffect
  <2>3. PICK u : u = [v EXCEPT !.own = stepGeneratorLevelDb(@, n)]
    OBVIOUS
  <2>4. PICK l : l = stepGeneratorLevelDb(v.own, n)
    OBVIOUS
  <2>5. u = [timer |-> v.timer, mode |-> v.mode, own |-> l, refusal |-> v.refusal, menu |-> v.menu]
    BY <2>2, <2>3, <2>4, Zenon DEF GnUis
  <2>6. l \in GnLevels
    <3>1. v.own \in GnLevels
      BY <2>2 DEF GnUis
    <3>2. v.own + n \in Int
      BY <3>1 DEF GnLevels
    <3> QED BY <2>4, <3>2, ClampLevel DEF stepGeneratorLevelDb
  <2>7. u \in GnUis
    BY <2>2, <2>5, <2>6 DEF GnUis
  <2>8. gnUi' = refresh(u, gnRun)
    BY <1>3, <2>1, <2>3 DEF ownStepClicked
  <2>9. gnUi' \in GnUis
    BY <1>1, <2>7, <2>8, RefreshEffect
  <2>10. GnShown(gnUi', gnHold)
    BY <1>3 DEF GnShown, refuseWhileMeasuring
  <2> QED BY <1>1, <2>9, <2>10, UiStep, ClickLeft
<1> QED BY <1>2, <1>3

\* poll() from either timer.
LEMMA MainPollStep == GnIInv /\ GnMainPoll => GnIInv'
<1> SUFFICES ASSUME GnIInv, GnMainPoll PROVE GnIInv'
  OBVIOUS
<1>1. /\ gnDev \in GnDevices /\ gnUi \in GnUis /\ gnLeft \in GnLefts
      /\ GnAgree(gnRun, gnEng, gnDev.synthetic, gnHold)
  BY DEF GnIInv, GnTypeOK, GnLefts
<1>2. PICK g : g = genPoll
  OBVIOUS
<1>3. g \in GnPairs /\ GnAgree(g.run, g.eng, gnDev.synthetic, gnHold)
  BY <1>1, <1>2, PollKeeps
<1>4. GnDone(g, gnUi) /\ gnDev' = gnDev /\ gnHold' = gnHold /\ gnLeft' = gnLeft
  BY <1>2 DEF GnMainPoll
<1> QED BY <1>1, <1>3, <1>4, DoneKeeps

\* measurementDrive() is a level of the scale and channels; in OWN it is the level on screen.
LEMMA DriveType ==
  ASSUME GnIInv, NEW d, d = measurementDrive(gnUi.mode, gnRun.settings, GnNumOutputs, gnUi.own)
  PROVE  /\ d.level \in GnLevels /\ d.outputs \in SUBSET GnChannels
         /\ gnUi.mode = "Own" => d.level = gnUi.own
<1>1. gnUi.own \in GnLevels /\ gnDev \in GnDevices
  BY DEF GnIInv, GnTypeOK, GnUis
<1>2. gnUi.own \in Int
  BY <1>1 DEF GnLevels
<1>3. /\ clampGeneratorLevelDb(gnUi.own) = gnUi.own
      /\ clampGeneratorLevelDb(gnRun.settings.level) \in GnLevels
  BY <1>1, <1>2, ClampLevel, SettingsAreAsked
<1>4. pruneOutputs(gnRun.settings.outputs, GnNumOutputs) \in SUBSET GnChannels
  BY <1>1, NumOutputsType, PruneType, SettingsAreAsked
<1>5. CASE gnUi.mode = "Own"
  <2>1. d = [level |-> clampGeneratorLevelDb(gnUi.own), outputs |-> {}]
    BY <1>5 DEF measurementDrive
  <2> QED BY <1>1, <1>3, <2>1
<1>6. CASE gnUi.mode # "Own"
  <2>1. d = [level |-> clampGeneratorLevelDb(gnRun.settings.level),
             outputs |-> pruneOutputs(gnRun.settings.outputs, GnNumOutputs)]
    BY <1>6 DEF measurementDrive
  <2> QED BY <1>3, <1>4, <1>6, <2>1
<1> QED BY <1>5, <1>6

\* LOCATE takes the output of an idle generator, with the drive the MEAS control shows.
LEMMA LocateStep == GnIInv /\ GnLocate => GnIInv'
<1> SUFFICES ASSUME GnIInv, GnLocate PROVE GnIInv'
  OBVIOUS
<1>1. /\ gnRun \in GnRuns /\ gnEng \in GnEngines /\ gnUi \in GnUis /\ gnHold \in GnHolds /\ gnLeft \in GnLefts
      /\ GnAgree(gnRun, gnEng, gnDev.synthetic, gnHold)
  BY DEF GnIInv, GnTypeOK, GnLefts
<1>2. gnLeft' \in GnLefts
  <2>1. gnLeft.presses \in Nat /\ gnLeft.presses > 0
    BY <1>1 DEF GnLocate, GnLefts
  <2>2. gnLeft.presses - 1 \in Nat
    BY <2>1
  <2> QED BY <1>1, <2>2 DEF GnLocate, GnLefts
<1>3. gnRun.state = "Idle" /\ UNCHANGED <<gnDev, gnRun, gnUi>>
  BY DEF GnLocate, GnOutputBusy
<1>4. PICK d : d = measurementDrive(gnUi.mode, gnRun.settings, GnNumOutputs, gnUi.own)
  OBVIOUS
<1>5. /\ d.level \in GnLevels /\ d.outputs \in SUBSET GnChannels
      /\ gnUi.mode = "Own" => d.level = gnUi.own
  BY <1>4, DriveType
<1>6. PICK outs : outs = IF d.outputs = {} THEN {0} ELSE d.outputs
  OBVIOUS
<1>7. outs \in SUBSET GnChannels
  <2>1. 0 \in GnChannels
    BY DEF GnChannels
  <2> QED BY <1>5, <1>6, <2>1
<1>8. CASE ~GnQuiescent(gnEng)
  <2>1. UNCHANGED <<gnEng, gnHold>>
    BY <1>8 DEF GnLocate
  <2> QED BY <1>2, <1>3, <2>1 DEF GnIInv, GnTypeOK, GnLefts
<1>9. CASE GnQuiescent(gnEng)
  <2>1. PICK source : source = [by |-> "LOCATE", signal |-> "Pink", level |-> d.level, hz |-> 0]
    OBVIOUS
  <2>2. source \in GnSources /\ source.by = "LOCATE" /\ source.level = d.level
    BY <1>5, <2>1 DEF GnSources, GnSignals
  <2>3. PICK e : e = GnSet(gnEng, source)
    OBVIOUS
  <2>4. PICK f : f = GnRoute(e, outs)
    OBVIOUS
  <2>5. /\ gnEng' = GnArm(f)
        /\ gnHold' = [by |-> "LOCATE", mode |-> gnUi.mode, drive |-> [level |-> d.level, outputs |-> outs]]
    BY <1>4, <1>6, <1>9, <2>1, <2>3, <2>4 DEF GnLocate
  <2>6. e \in GnEngines /\ e.epoch = gnEng.epoch /\ e.slot = source
    BY <1>1, <2>2, <2>3, SetEffect
  <2>7. f \in GnEngines /\ f.epoch = gnEng.epoch /\ f.slot = source
    BY <1>7, <2>4, <2>6, RouteEffect
  <2>8. gnEng' \in GnEngines /\ gnEng'.epoch = gnEng.epoch /\ gnEng'.slot = source
    BY <2>5, <2>7, ArmEffect
  <2>9. gnUi.mode \in GnModes
    BY <1>1 DEF GnUis
  <2>10. "LOCATE" \in GnHolders
    BY DEF GnHolders
  <2>11. /\ gnHold' \in GnHolds /\ gnHold'.by = "LOCATE" /\ gnHold'.mode = gnUi.mode
         /\ gnHold'.drive.level = d.level
    BY <1>5, <1>7, <2>5, <2>9, <2>10 DEF GnHolds
  <2>12. GnShown(gnUi', gnHold')
    BY <1>3, <1>5, <2>11 DEF GnShown
  <2>13. GnAgree(gnRun', gnEng', gnDev'.synthetic, gnHold')
    <3>1. gnRun' = gnRun /\ gnRun.armedEpoch <= gnEng'.epoch
      BY <1>1, <1>3, <2>8 DEF GnAgree
    <3>2. gnEng'.slot.by = "LOCATE" /\ gnEng'.slot.level = gnHold'.drive.level
      BY <2>2, <2>8, <2>11
    <3> QED BY <1>1, <1>3, <2>8, <2>11, <3>1, <3>2 DEF GnAgree, GnSounding, GnModeKept
  <2> QED BY <1>2, <1>3, <2>8, <2>11, <2>12, <2>13 DEF GnIInv, GnTypeOK, GnLefts
<1> QED BY <1>8, <1>9

\* GnFree holds nothing.
LEMMA FreeType ==
  ASSUME gnUi \in GnUis
  PROVE  GnFree \in GnHolds /\ GnFree.by # "LOCATE" /\ [GnFree EXCEPT !.by = "CAL"] \in GnHolds
<1>1. gnUi.mode \in GnModes
  BY DEF GnUis
<1>2. GnNoDrive \in [level : GnLevels, outputs : SUBSET GnChannels]
  BY GnAssumption DEF GnNoDrive, GnLevels
<1>3. "" \in GnHolders /\ "CAL" \in GnHolders
  BY DEF GnHolders
<1>4. GnFree \in GnHolds /\ GnFree.by = ""
  BY <1>1, <1>2, <1>3 DEF GnFree, GnHolds
<1> QED BY <1>3, <1>4 DEF GnHolds

\* LOCATE ends disarmed.
LEMMA LocateOverStep == GnIInv /\ GnLocateOver => GnIInv'
<1> SUFFICES ASSUME GnIInv, GnLocateOver PROVE GnIInv'
  OBVIOUS
<1>1. /\ gnRun \in GnRuns /\ gnEng \in GnEngines /\ gnUi \in GnUis
      /\ GnAgree(gnRun, gnEng, gnDev.synthetic, gnHold)
  BY DEF GnIInv, GnTypeOK
<1>2. /\ gnHold.by = "LOCATE" /\ gnHold' = GnFree /\ gnEng' = GnDisarm(gnEng)
      /\ UNCHANGED <<gnDev, gnRun, gnUi, gnLeft>>
  BY DEF GnLocateOver
<1>3. gnHold' \in GnHolds /\ gnHold'.by # "LOCATE"
  BY <1>1, <1>2, FreeType
<1>4. gnEng' \in GnEngines /\ gnEng'.epoch = gnEng.epoch /\ gnEng'.armed = FALSE /\ gnEng'.slot = gnEng.slot
  BY <1>1, <1>2, DisarmEffect
<1>5. GnAgree(gnRun', gnEng', gnDev'.synthetic, gnHold')
  BY <1>1, <1>2, <1>3, <1>4 DEF GnAgree, GnSounding, GnModeKept
<1>6. GnShown(gnUi', gnHold')
  BY <1>3 DEF GnShown
<1> QED BY <1>2, <1>3, <1>4, <1>5, <1>6 DEF GnIInv, GnTypeOK

\* CAL holds the measurement channel and plays nothing.
LEMMA CalibrateStep == GnIInv /\ (GnCalibrate \/ GnCalibrated) => GnIInv'
<1> SUFFICES ASSUME GnIInv, GnCalibrate \/ GnCalibrated PROVE GnIInv'
  OBVIOUS
<1>1. /\ gnUi \in GnUis /\ gnLeft \in GnLefts
      /\ GnAgree(gnRun, gnEng, gnDev.synthetic, gnHold)
  BY DEF GnIInv, GnTypeOK, GnLefts
<1>2. gnHold.by # "LOCATE" /\ UNCHANGED <<gnEng, gnDev, gnRun, gnUi>>
  BY DEF GnCalibrate, GnCalibrated, GnOutputBusy
<1>3. gnHold' \in GnHolds /\ gnHold'.by # "LOCATE"
  <2>1. CASE GnCalibrate
    <3>1. gnHold' = [GnFree EXCEPT !.by = "CAL"]
      BY <2>1 DEF GnCalibrate
    <3>2. gnHold' \in GnHolds
      BY <1>1, <3>1, FreeType
    <3>3. gnHold'.by = "CAL"
      BY <3>1 DEF GnFree
    <3> QED BY <3>2, <3>3
  <2>2. CASE GnCalibrated
    BY <1>1, <2>2, FreeType DEF GnCalibrated
  <2> QED BY <2>1, <2>2
<1>4. gnLeft' \in GnLefts
  <2>1. CASE GnCalibrate
    <3>1. gnLeft.presses \in Nat /\ gnLeft.presses > 0
      BY <1>1, <2>1 DEF GnCalibrate, GnLefts
    <3>2. gnLeft.presses - 1 \in Nat
      BY <3>1
    <3> QED BY <1>1, <2>1, <3>2 DEF GnCalibrate, GnLefts
  <2>2. CASE GnCalibrated
    BY <1>1, <2>2 DEF GnCalibrated
  <2> QED BY <2>1, <2>2
<1>5. GnAgree(gnRun', gnEng', gnDev'.synthetic, gnHold')
  BY <1>1, <1>2, <1>3 DEF GnAgree
<1>6. GnShown(gnUi', gnHold')
  BY <1>3 DEF GnShown
<1> QED BY <1>2, <1>3, <1>4, <1>5, <1>6 DEF GnIInv, GnTypeOK, GnLefts

\* prepare() begins a session nobody is armed for.
LEMMA PrepareKeeps ==
  ASSUME NEW r, NEW e, NEW mode, NEW h, GnAgree(r, e, mode, h), NEW rate \in GnRates,
         NEW x, x = GnPrepare(e, rate)
  PROVE  GnAgree(r, x, mode, h) /\ x \in GnEngines
<1>1. r \in GnRuns /\ e \in GnEngines /\ r.armedEpoch <= e.epoch
  BY DEF GnAgree
<1>2. /\ x \in GnEngines
      /\ x.epoch = e.epoch + 1 /\ x.armed = FALSE /\ x.idle = TRUE /\ x.slot = e.slot
  <2>1. x = [epoch |-> e.epoch + 1, armed |-> FALSE, idle |-> TRUE, rate |-> rate,
             routes |-> e.routes, slotEpoch |-> e.slotEpoch, slot |-> e.slot]
    BY <1>1, Zenon DEF GnPrepare, GnEngines
  <2>2. e.epoch + 1 \in Nat
    BY <1>1 DEF GnEngines
  <2> QED BY <1>1, <2>1, <2>2 DEF GnEngines
<1>3. r.armedEpoch < x.epoch
  BY <1>1, <1>2 DEF GnRuns, GnEngines
<1>4. GnModeKept(r, mode)
  BY DEF GnAgree
<1>5. r.armedEpoch <= x.epoch /\ x.epoch # r.armedEpoch
  BY <1>1, <1>2, <1>3 DEF GnRuns, GnEngines
<1> QED BY <1>1, <1>2, <1>4, <1>5 DEF GnAgree, GnSounding

\* A device starts: the engine is prepared for a new session.
LEMMA DeviceStartStep ==
  ASSUME NEW outs \in GnOutputs, NEW rate \in GnRates
  PROVE  GnIInv /\ GnDeviceStart(outs, rate) => GnIInv'
<1> SUFFICES ASSUME GnIInv, GnDeviceStart(outs, rate) PROVE GnIInv'
  OBVIOUS
<1>1. /\ gnDev \in GnDevices /\ gnLeft \in GnLefts
      /\ GnAgree(gnRun, gnEng, gnDev.synthetic, gnHold)
  BY DEF GnIInv, GnTypeOK, GnLefts
<1>2. /\ GnReconfigure /\ gnDev' = [gnDev EXCEPT !.running = TRUE, !.outs = outs]
      /\ gnEng' = GnPrepare(gnEng, rate) /\ UNCHANGED <<gnRun, gnUi, gnHold>>
  BY DEF GnDeviceStart
<1>3. gnDev' = [synthetic |-> gnDev.synthetic, running |-> TRUE, outs |-> outs]
  BY <1>1, <1>2, Zenon DEF GnDevices
<1>4. gnDev' \in GnDevices
  BY <1>1, <1>3 DEF GnDevices
<1>5. gnDev'.synthetic = gnDev.synthetic
  BY <1>3, Zenon
<1>6. GnAgree(gnRun, gnEng', gnDev.synthetic, gnHold) /\ gnEng' \in GnEngines
  BY <1>1, <1>2, PrepareKeeps
<1>7. gnLeft' \in GnLefts
  BY <1>1, <1>2, ReconfigureLeft
<1>8. GnAgree(gnRun', gnEng', gnDev'.synthetic, gnHold')
  BY <1>2, <1>5, <1>6
<1> QED BY <1>2, <1>4, <1>6, <1>7, <1>8 DEF GnIInv, GnTypeOK, GnLefts, GnShown

\* A device stops: the engine hears nothing of it.
LEMMA DeviceStopStep ==
  ASSUME NEW outs \in {0, gnDev.outs}
  PROVE  GnIInv /\ GnDeviceStop(outs) => GnIInv'
<1> SUFFICES ASSUME GnIInv, GnDeviceStop(outs) PROVE GnIInv'
  OBVIOUS
<1>1. /\ gnDev \in GnDevices /\ gnLeft \in GnLefts
      /\ GnAgree(gnRun, gnEng, gnDev.synthetic, gnHold)
  BY DEF GnIInv, GnTypeOK, GnLefts
<1>2. /\ GnReconfigure /\ gnDev' = [gnDev EXCEPT !.running = FALSE, !.outs = outs]
      /\ UNCHANGED <<gnEng, gnRun, gnUi, gnHold>>
  BY DEF GnDeviceStop
<1>3. gnDev' = [synthetic |-> gnDev.synthetic, running |-> FALSE, outs |-> outs]
  BY <1>1, <1>2, Zenon DEF GnDevices
<1>4. outs \in GnOutputs \cup {0}
  BY <1>1 DEF GnDevices
<1>5. gnDev' \in GnDevices
  BY <1>1, <1>3, <1>4 DEF GnDevices
<1>6. gnDev'.synthetic = gnDev.synthetic
  BY <1>3, Zenon
<1>7. gnLeft' \in GnLefts
  BY <1>1, <1>2, ReconfigureLeft
<1>8. GnAgree(gnRun', gnEng', gnDev'.synthetic, gnHold')
  BY <1>1, <1>2, <1>6
<1> QED BY <1>2, <1>5, <1>7, <1>8 DEF GnIInv, GnTypeOK, GnLefts, GnShown

\* setSyntheticMode() cancels LOCATE and the generator before the mode changes.
LEMMA SetSyntheticStep ==
  ASSUME NEW rate \in GnRates
  PROVE  GnIInv /\ GnSetSynthetic(rate) => GnIInv'
<1> SUFFICES ASSUME GnIInv, GnSetSynthetic(rate) PROVE GnIInv'
  OBVIOUS
<1>1. /\ gnDev \in GnDevices /\ gnLeft \in GnLefts /\ gnUi \in GnUis /\ gnHold \in GnHolds
      /\ GnAgree(gnRun, gnEng, gnDev.synthetic, gnHold) /\ GnShown(gnUi, gnHold)
  BY DEF GnIInv, GnTypeOK, GnLefts
<1>2. PICK g : g = genCancel
  OBVIOUS
<1>3. PICK m : m = ~gnDev.synthetic
  OBVIOUS
<1>4. GnAgree(g.run, g.eng, m, gnHold) /\ g \in GnPairs /\ g.run.state = "Idle"
  BY <1>1, <1>2, CancelKeeps
<1>5. PICK quiet : quiet = IF gnHold.by = "LOCATE" THEN GnDisarm(g.eng) ELSE g.eng
  OBVIOUS
<1>6. PICK h : h = IF gnHold.by = "LOCATE" THEN GnFree ELSE gnHold
  OBVIOUS
<1>7. /\ gnRun' = g.run /\ gnUi' = refresh(gnUi, g.run)
      /\ gnEng' = (IF gnDev.synthetic THEN quiet ELSE GnPrepare(quiet, rate))
      /\ gnHold' = h /\ GnReconfigure
      /\ gnDev' = [gnDev EXCEPT !.synthetic = ~@, !.running = FALSE, !.outs = 0]
  BY <1>2, <1>5, <1>6 DEF GnSetSynthetic, GnModeChanged
<1>8. g.run \in GnRuns /\ g.eng \in GnEngines
  BY <1>4 DEF GnPairs
<1>9. h \in GnHolds /\ h.by # "LOCATE"
  <2>1. GnFree \in GnHolds /\ GnFree.by # "LOCATE"
    BY <1>1, FreeType
  <2>2. CASE gnHold.by = "LOCATE"
    BY <1>6, <2>1, <2>2
  <2>3. CASE gnHold.by # "LOCATE"
    BY <1>1, <1>6, <2>3
  <2> QED BY <2>2, <2>3
<1>10. GnAgree(g.run, quiet, m, h)
  <2>1. CASE gnHold.by = "LOCATE"
    <3>1. quiet \in GnEngines /\ quiet.epoch = g.eng.epoch /\ quiet.armed = FALSE /\ quiet.slot = g.eng.slot
      BY <1>5, <1>8, <2>1, DisarmEffect
    <3> QED BY <1>4, <1>9, <2>1, <3>1 DEF GnAgree, GnSounding, GnModeKept
  <2>2. CASE gnHold.by # "LOCATE"
    <3>1. quiet = g.eng /\ h = gnHold
      BY <1>5, <1>6, <2>2
    <3> QED BY <1>4, <3>1
  <2> QED BY <2>1, <2>2
<1>11. GnAgree(g.run, gnEng', m, h)
  <2>1. CASE gnDev.synthetic
    <3>1. gnEng' = quiet
      BY <1>7, <2>1
    <3> QED BY <1>10, <3>1
  <2>2. CASE ~gnDev.synthetic
    <3>1. gnEng' = GnPrepare(quiet, rate)
      BY <1>7, <2>2
    <3> QED BY <1>10, <3>1, PrepareKeeps
  <2> QED BY <2>1, <2>2
<1>12. gnEng' \in GnEngines
  BY <1>11 DEF GnAgree
<1>13. gnDev' = [synthetic |-> m, running |-> FALSE, outs |-> 0]
  BY <1>1, <1>3, <1>7, Zenon DEF GnDevices
<1>14. m \in BOOLEAN
  BY <1>3
<1>15. gnDev' \in GnDevices
  BY <1>13, <1>14 DEF GnDevices
<1>16. gnDev'.synthetic = m
  BY <1>13, Zenon
<1>17. GnAgree(gnRun', gnEng', gnDev'.synthetic, gnHold')
  BY <1>7, <1>11, <1>16
<1>18. gnUi' \in GnUis
  BY <1>1, <1>7, <1>8, RefreshEffect
<1>19. GnShown(gnUi', gnHold')
  BY <1>7, <1>9 DEF GnShown
<1>20. gnLeft' \in GnLefts
  BY <1>1, <1>7, ReconfigureLeft
<1> QED BY <1>7, <1>8, <1>9, <1>12, <1>15, <1>17, <1>18, <1>19, <1>20 DEF GnIInv, GnTypeOK, GnLefts

\* A callback settles a source that is not armed, or starts one that is.
LEMMA RenderStep ==
  ASSUME NEW settled \in BOOLEAN
  PROVE  GnIInv /\ GnRender(settled) => GnIInv'
<1> SUFFICES ASSUME GnIInv, GnRender(settled) PROVE GnIInv'
  OBVIOUS
<1>1. gnEng \in GnEngines /\ gnRun \in GnRuns /\ GnAgree(gnRun, gnEng, gnDev.synthetic, gnHold)
  BY DEF GnIInv, GnTypeOK
<1>2. PICK i : i = IF gnEng.armed /\ gnEng.slotEpoch = gnEng.epoch THEN FALSE ELSE gnEng.idle \/ settled
  OBVIOUS
<1>3. gnEng' = [gnEng EXCEPT !.idle = i] /\ UNCHANGED <<gnDev, gnRun, gnUi, gnHold, gnLeft>>
  <2>1. CASE gnEng.armed /\ gnEng.slotEpoch = gnEng.epoch
    BY <1>2, <2>1 DEF GnRender
  <2>2. CASE ~(gnEng.armed /\ gnEng.slotEpoch = gnEng.epoch)
    BY <1>2, <2>2 DEF GnRender
  <2> QED BY <2>1, <2>2
<1>4. i \in BOOLEAN
  BY <1>1, <1>2 DEF GnEngines
<1>5. gnEng' = [epoch |-> gnEng.epoch, armed |-> gnEng.armed, idle |-> i, rate |-> gnEng.rate,
                routes |-> gnEng.routes, slotEpoch |-> gnEng.slotEpoch, slot |-> gnEng.slot]
  BY <1>1, <1>3, Zenon DEF GnEngines
<1>6. gnEng' \in GnEngines
  BY <1>1, <1>4, <1>5 DEF GnEngines
<1>7. /\ gnEng'.epoch = gnEng.epoch /\ gnEng'.rate = gnEng.rate /\ gnEng'.routes = gnEng.routes
      /\ gnEng'.slotEpoch = gnEng.slotEpoch /\ gnEng'.slot = gnEng.slot
  BY <1>5
<1>8. gnEng'.armed = gnEng.armed /\ gnEng'.idle = i
  BY <1>5, Zenon
<1>9. gnRun.state = "Idle" /\ gnRun.reason = "" /\ gnEng.slot.by # "LOCATE" => i
  <2> SUFFICES ASSUME gnRun.state = "Idle", gnRun.reason = "", gnEng.slot.by # "LOCATE" PROVE i
    OBVIOUS
  <2>1. ~gnEng.armed /\ gnEng.idle
    BY <1>1 DEF GnAgree
  <2> QED BY <1>2, <2>1
<1>10. GnAgree(gnRun, gnEng', gnDev.synthetic, gnHold)
  <2>1. gnEng'.armed <=> gnEng.armed
    BY <1>8
  <2>2. gnRun.state = "Idle" /\ gnRun.reason = "" /\ gnEng'.slot.by # "LOCATE" => gnEng'.idle
    BY <1>7, <1>8, <1>9
  <2> QED BY <1>1, <1>6, <1>7, <2>1, <2>2 DEF GnAgree
<1> QED BY <1>3, <1>6, <1>10 DEF GnIInv, GnTypeOK, GnShown

\* A wait counts no further than the time-out.
LEMMA ClockStep == GnIInv /\ GnClock => GnIInv'
<1> SUFFICES ASSUME GnIInv, GnClock PROVE GnIInv'
  OBVIOUS
<1>1. gnRun \in GnRuns /\ GnAgree(gnRun, gnEng, gnDev.synthetic, gnHold)
  BY DEF GnIInv, GnTypeOK
<1>2. /\ gnRun' = [gnRun EXCEPT !.waited = @ + 1] /\ gnRun.waited < GnTimeout
      /\ UNCHANGED <<gnEng, gnDev, gnUi, gnHold, gnLeft>>
  BY DEF GnClock
<1>3. PICK w : w = gnRun.waited + 1
  OBVIOUS
<1>4. w \in 0..GnTimeout
  BY <1>1, <1>2, <1>3, GnAssumption DEF GnRuns
<1>5. gnRun' = [state |-> gnRun.state, settings |-> gnRun.settings, armedEpoch |-> gnRun.armedEpoch,
                waited |-> w, reason |-> gnRun.reason, armedIn |-> gnRun.armedIn]
  BY <1>1, <1>2, <1>3, Zenon DEF GnRuns
<1>6. gnRun' \in GnRuns
  BY <1>1, <1>4, <1>5 DEF GnRuns
<1>7. /\ gnRun'.state = gnRun.state /\ gnRun'.settings = gnRun.settings
      /\ gnRun'.armedEpoch = gnRun.armedEpoch /\ gnRun'.reason = gnRun.reason
  BY <1>5
<1>8. gnRun'.armedIn = gnRun.armedIn
  BY <1>5, Zenon
<1>9. GnModeKept(gnRun', gnDev.synthetic)
  BY <1>1, <1>7, <1>8 DEF GnAgree, GnModeKept
<1>10. GnAgree(gnRun', gnEng, gnDev.synthetic, gnHold)
  BY <1>1, <1>6, <1>7, <1>9 DEF GnAgree, GnSounding
<1> QED BY <1>2, <1>6, <1>10 DEF GnIInv, GnTypeOK, GnShown

-------------------------------------------------------------------------------
(* The specification. *)

\* The constructors' state: nothing armed, nothing held, the first output ticked.
LEMMA GnInitIInv == GnInit => GnIInv
<1> SUFFICES ASSUME GnInit PROVE GnIInv
  OBVIOUS
<1>1. PICK none : none = ""
  OBVIOUS
<1>2. none \in GnReasons /\ none \in GnHolders /\ none # "LOCATE"
  BY <1>1, Zenon DEF GnReasons, GnHolders
<1>3. PICK rate \in GnRates, bound \in GnBounds :
        /\ gnEng = [epoch |-> 1, armed |-> FALSE, idle |-> TRUE, rate |-> rate, routes |-> {}, slotEpoch |-> 0,
                    slot |-> [by |-> "none", signal |-> "Pink", level |-> 0, hz |-> 0]]
        /\ gnDev = [synthetic |-> FALSE, running |-> TRUE, outs |-> Max(GnOutputs)]
        /\ gnRun = [state |-> "Idle", settings |-> GnDefault, armedEpoch |-> 0, waited |-> 0, reason |-> none,
                    armedIn |-> FALSE]
        /\ gnUi = [timer |-> FALSE, mode |-> "FollowGen", own |-> GnCeiling, refusal |-> none, menu |-> {}]
        /\ gnHold = [by |-> none, mode |-> "FollowGen", drive |-> GnNoDrive]
        /\ gnLeft = bound
  BY <1>1, Zenon DEF GnInit
<1>4. GnCeiling \in Nat \ {0} /\ GnTimeout \in Nat \ {0} /\ 0 \in GnLevels /\ 1 \in GnLevels /\ GnCeiling \in GnLevels
  BY GnAssumption DEF GnLevels
<1>5. Max(GnOutputs) \in GnOutputs
  <2>1. GnOutputs \subseteq Nat /\ \E m \in GnOutputs : \A k \in GnOutputs : k <= m
    BY GnAssumption
  <2>2. \E m \in GnOutputs : \A k \in GnOutputs : m >= k
    BY <2>1
  <2> QED BY <2>2, MaxIsLargest
<1>6. Max(GnHz) \in GnHz
  <2>1. GnHz \subseteq Nat /\ \E m \in GnHz : \A k \in GnHz : k <= m
    BY GnAssumption
  <2>2. \E m \in GnHz : \A k \in GnHz : m >= k
    BY <2>1
  <2> QED BY <2>2, MaxIsLargest
<1>7. GnDefault \in GnSettings
  <2>1. 0 \in GnChannels
    BY DEF GnChannels
  <2>2. {0} \in {s \in SUBSET GnChannels : s # {}}
    BY <2>1
  <2> QED BY <1>4, <1>6, <2>2 DEF GnDefault, GnSettings, GnSignals
<1>8. gnEng \in GnEngines
  BY <1>3, <1>4 DEF GnEngines, GnSources, GnSignals
<1>9. gnDev \in GnDevices
  BY <1>3, <1>5 DEF GnDevices
<1>10. gnRun \in GnRuns
  BY <1>2, <1>3, <1>4, <1>7 DEF GnRuns
<1>11. gnUi \in GnUis
  BY <1>2, <1>3, <1>4 DEF GnUis, GnModes
<1>12. gnHold \in GnHolds
  BY <1>2, <1>3, <1>4 DEF GnHolds, GnModes, GnNoDrive
<1>13. gnLeft \in [clicks : Nat, devices : Nat, presses : Nat]
  BY <1>3, GnAssumption
<1>14. /\ gnRun.state = "Idle" /\ gnRun.armedEpoch = 0 /\ gnEng.epoch = 1 /\ gnEng.idle = TRUE
       /\ gnEng.armed = FALSE /\ gnHold.by # "LOCATE"
  BY <1>2, <1>3
<1>15. GnModeKept(gnRun, gnDev.synthetic)
  BY <1>14 DEF GnModeKept
<1>16. GnAgree(gnRun, gnEng, gnDev.synthetic, gnHold)
  <2>1. gnRun.armedEpoch <= gnEng.epoch /\ gnRun.state # "Playing" /\ ~GnSounding(gnRun) /\ ~gnEng.armed
    BY <1>14 DEF GnSounding
  <2> QED BY <1>8, <1>10, <1>14, <1>15, <2>1, Zenon DEF GnAgree
<1>17. GnShown(gnUi, gnHold)
  BY <1>14 DEF GnShown
<1> QED BY <1>8, <1>9, <1>10, <1>11, <1>12, <1>13, <1>16, <1>17 DEF GnIInv, GnTypeOK

\* Every handler, every callback and every tick preserves the invariant.
LEMMA GnStepIInv == GnIInv /\ [GnNext]_gnVars => GnIInv'
<1> SUFFICES ASSUME GnIInv, [GnNext]_gnVars PROVE GnIInv'
  OBVIOUS
<1>1. CASE genClicked \/ showOutputMenu \/ measurementModeClicked \/ GnMainPoll
  BY <1>1, GenClickedStep, ShowOutputMenuStep, MeasurementModeStep, MainPollStep
<1>2. CASE \E s \in {-1, 1} : stepClicked(s) \/ ownStepClicked(s)
  BY <1>2, StepClickedStep, OwnStepClickedStep
<1>3. CASE \E s \in {"Pink", "White", "Sine"} : signalSelected(s)
  BY <1>3, SignalSelectedStep DEF GnSignals
<1>4. CASE \E hz \in GnHz : frequencySelected(hz)
  BY <1>4, FrequencySelectedStep
<1>5. CASE \E ch \in gnUi.menu : outputToggled(ch)
  BY <1>5, OutputToggledStep
<1>6. CASE GnLocate \/ GnLocateOver \/ GnCalibrate \/ GnCalibrated
  BY <1>6, LocateStep, LocateOverStep, CalibrateStep
<1>7. CASE \E outs \in GnOutputs, rate \in GnRates : GnDeviceStart(outs, rate)
  BY <1>7, DeviceStartStep
<1>8. CASE \E outs \in {0, gnDev.outs} : GnDeviceStop(outs)
  BY <1>8, DeviceStopStep
<1>9. CASE \E rate \in GnRates : GnSetSynthetic(rate)
  BY <1>9, SetSyntheticStep
<1>10. CASE \E settled \in BOOLEAN : GnRender(settled)
  BY <1>10, RenderStep
<1>11. CASE GnClock
  BY <1>11, ClockStep
<1>12. CASE UNCHANGED gnVars
  <2>1. /\ gnEng' = gnEng /\ gnDev' = gnDev /\ gnRun' = gnRun /\ gnUi' = gnUi
        /\ gnHold' = gnHold /\ gnLeft' = gnLeft
    BY <1>12 DEF gnVars
  <2> QED BY <2>1, Zenon DEF GnIInv, GnTypeOK
<1> QED
  BY <1>1, <1>2, <1>3, <1>4, <1>5, <1>6, <1>7, <1>8, <1>9, <1>10, <1>11, <1>12, Zenon DEF GnNext

\* The invariant is enough for the four promises of the pane.
LEMMA GnIInvInv == GnIInv => GnInv
<1> SUFFICES ASSUME GnIInv PROVE GnInv
  OBVIOUS
<1>1. /\ GnAgree(gnRun, gnEng, gnDev.synthetic, gnHold) /\ GnShown(gnUi, gnHold)
      /\ gnRun \in GnRuns /\ gnEng \in GnEngines
  BY DEF GnIInv, GnTypeOK
<1>2. gnRun.settings.outputs # {}
  BY <1>1 DEF GnRuns, GnSettings
<1>3. GnPlaysWhatItShows
  BY <1>1, <1>2 DEF GnPlaysWhatItShows, GnAgree, GnSounding
<1>4. GnStoppedIsSilent
  <2> SUFFICES ASSUME gnRun.state = "Idle", gnRun.reason = "", gnEng.slot.by # "LOCATE"
               PROVE  GnQuiescent(gnEng)
    BY Zenon DEF GnStoppedIsSilent
  <2>1. gnEng.idle
    BY <1>1, Zenon DEF GnAgree
  <2>2. gnEng.armed => gnRun.state = "Playing" \/ gnEng.slot.by = "LOCATE"
    BY <1>1, Zenon DEF GnAgree
  <2> QED BY <2>1, <2>2 DEF GnQuiescent
<1>5. GnArmedIsHeld
  <2>1. gnEng.armed => \/ gnEng.slot.by = "GEN" /\ gnRun.state = "Playing"
                       \/ gnEng.slot.by = "LOCATE" /\ gnHold.by = "LOCATE"
    BY <1>1, Zenon DEF GnAgree
  <2>2. gnRun.state = "Playing" => gnRun.armedIn = gnDev.synthetic
    <3>1. GnModeKept(gnRun, gnDev.synthetic)
      BY <1>1, Zenon DEF GnAgree
    <3>2. "Playing" # "Idle"
      OBVIOUS
    <3> QED BY <3>1, <3>2, Zenon DEF GnModeKept
  <2> QED BY <2>1, <2>2, Zenon DEF GnArmedIsHeld
<1>6. GnDriveIsShown
  BY <1>1, Zenon DEF GnDriveIsShown, GnAgree, GnShown
<1> QED BY <1>3, <1>4, <1>5, <1>6 DEF GnInv

\* The engine, the runner, the strip and the holder keep their types: the ticked outputs are never
\* none and are channels of some device, a level never leaves floor..ceiling, and a wait never
\* passes the time-out (GeneratorRunner::apply and pruneOutputs, clampGeneratorLevelDb).
THEOREM GnTypesHold == GnSpec => []GnTypeOK
<1>1. GnIInv => GnTypeOK
  BY DEF GnIInv
<1> QED BY <1>1, GnInitIInv, GnStepIInv, PTL DEF GnSpec

\* For every ceiling, set of frequencies, rates and devices, and every time-out: a playing generator
\* plays and routes what the strip shows, a clean "stopped" is a quiet engine, what is armed belongs
\* to whoever holds the output in the input mode of its start, and a measurement's drive is the one
\* on screen (GeneratorRunner::start, stop, apply and poll, setSyntheticMode, refuseWhileMeasuring).
THEOREM GnAgrees == GnSpec => []GnInv
BY GnInitIInv, GnStepIInv, GnIInvInv, PTL DEF GnSpec

-------------------------------------------------------------------------------
(* Rt60: types and the inductive invariant. *)

\* A value that is there or not.
RtMaybe(S) == {<<>>} \cup {<<x>> : x \in S}
RtRefusals == {"None", "NoIr", "NoTail", "NoLeadIn", "NoDecayFound"}
RtFigures == Seq([band : Nat, trusted : BOOLEAN])
RtResults == [id : RtIds \cup {NoId}, set : RtSets, refusal : RtRefusals, bands : RtFigures]
RtEnsembles == [ids : Seq(RtIds), set : RtSets, refusal : RtRefusals, bands : RtFigures]
RtRequests == [ticket : Nat, set : RtSets, primary : RtIds \cup {NoId}, ensemble : Seq(RtIds)]
RtOutcomes == [ticket : Nat, single : RtMaybe(RtResults), ens : RtMaybe(RtEnsembles)]
RtUis == [sel : RtIds \cup {NoId}, set : RtSets, ens : Seq(RtIds), res : RtMaybe(RtResults),
          ensRes : RtMaybe(RtEnsembles), analysing : BOOLEAN, ticket : Nat, rev : Nat,
          swept : SUBSET RtIds, asks : Nat]
RtPcs == {"none", "wait", "asleep", "single", "ensemble", "publish", "ended"}
RtWorks == [pc : RtPcs, owed : BOOLEAN, pending : RtMaybe(RtRequests),
            done : RtMaybe(RtOutcomes), newest : Nat, running : BOOLEAN, stop : BOOLEAN, cancel : BOOLEAN,
            req : RtMaybe(RtRequests), single : RtMaybe(RtResults), ens : RtMaybe(RtEnsembles)]

\* The type invariant.
RtTypeOK == rtIrs \in Seq(RtIds) /\ Len(rtIrs) <= RtStoreSize /\ rtUi \in RtUis /\ rtWork \in RtWorks

\* What an ensemble reports, each of its captures would report alone; it has no band twice.
RtTrusts(e) ==
  e.refusal = "None" =>
    /\ Len(e.bands) <= Len(RtBands[e.set])
    /\ \A i \in DOMAIN e.ids : RtIrOf[e.ids[i]].rate = RtIrOf[e.ids[1]].rate
    /\ \A j \in DOMAIN e.bands, i \in DOMAIN e.ids :
         e.bands[j].trusted =>
           insideTrustedBand(RtBands[e.set][e.bands[j].band], RtIrOf[e.ids[i]].low, RtIrOf[e.ids[i]].high)

\* A whole analysis of what the pane selects, or a failure; and of the captures it ticks.
RtFits(r, set) == r.set = set \/ r.refusal \in {"NoIr", "NoTail"}
RtAnswersOne(u, r) == r.id \in {u.sel, NoId} /\ (RtFits(r, u.set) \/ r = Failure) /\ Finished(r)
RtAnswersAll(u, e) == e.ids = u.ens /\ e.set = u.set /\ Finished(e)
RtNothingDue(u) == u.sel = NoId \/ u.res # <<>>

\* The pane by itself.
RtPane(u) ==
  /\ u.res # <<>> => RtAnswersOne(u, u.res[1])
  /\ u.ensRes # <<>> => RtTrusts(u.ensRes[1])
  /\ u.analysing => u.ensRes = <<>> /\ u.res # <<Failure>>
  /\ ~u.analysing => RtNothingDue(u)
  /\ ~u.analysing /\ (Len(u.ens) < 2 \/ u.res = <<Failure>>) => u.ensRes = <<>>
  /\ ~u.analysing /\ Len(u.ens) >= 2 /\ u.res # <<Failure>> =>
       u.ensRes # <<>> /\ RtAnswersAll(u, u.ensRes[1])

\* A request is the pane's present question; an outcome answers it.
RtAsks(u, q) ==
  /\ q.set = u.set /\ q.primary \in {u.sel, NoId}
  /\ q.ensemble = IF Len(u.ens) >= 2 THEN u.ens ELSE <<>>
  /\ q.primary = NoId => RtNothingDue(u)
RtAnswersAsked(u, d) ==
  /\ d.single # <<>> => RtAnswersOne(u, d.single[1])
  /\ d.single = <<>> => RtNothingDue(u)
  /\ Len(u.ens) < 2 \/ d.single = <<Failure>> => d.ens = <<>>
  /\ Len(u.ens) >= 2 /\ d.single # <<Failure>> => d.ens # <<>> /\ RtAnswersAll(u, d.ens[1])

\* The worker by itself: what it builds belongs to the request it took, is whole when it is
\* published and nobody cancelled it, and no ticket is newer than the newest.
RtBusy(w) == w.pc \in {"single", "ensemble", "publish"}
RtBuilds(w) ==
  RtBusy(w) =>
    /\ w.req # <<>>
    /\ w.single = <<Failure>> => w.pc = "publish" /\ w.ens = <<>>
    /\ w.single # <<Failure>> => (w.single = <<>> <=> w.req[1].primary = NoId)
    /\ w.single # <<>> /\ w.single # <<Failure>> =>
         w.single[1].id = w.req[1].primary /\ RtFits(w.single[1], w.req[1].set)
    /\ w.ens # <<>> => w.ens[1].ids = w.req[1].ensemble /\ w.ens[1].set = w.req[1].set
    /\ w.pc = "single" => w.ens = <<>>
    /\ w.pc = "ensemble" => w.ens # <<>> /\ Len(w.req[1].ensemble) >= 2
    /\ w.pc # "single" /\ ~w.cancel /\ w.single # <<>> => Finished(w.single[1])
    /\ w.pc = "publish" /\ ~w.cancel /\ Len(w.req[1].ensemble) >= 2 /\ w.single # <<Failure>> =>
         w.ens # <<>> /\ Finished(w.ens[1])
    /\ w.pc = "publish" /\ Len(w.req[1].ensemble) < 2 => w.ens = <<>>
RtTickets(w) ==
  /\ w.pending # <<>> => w.pending[1].ticket <= w.newest
  /\ w.req # <<>> => w.req[1].ticket <= w.newest
  /\ w.done # <<>> => w.done[1].ticket <= w.newest
RtJob(w) ==
  /\ RtBuilds(w) /\ RtTickets(w)
  /\ w.ens # <<>> => RtTrusts(w.ens[1])
  /\ w.done # <<>> => (w.done[1].ens # <<>> => RtTrusts(w.done[1].ens[1]))

\* The pane and the worker: a ticket that is the pane's carries the pane's question, or its answer.
RtLink(u, w) ==
  /\ w.newest = u.ticket
  /\ u.analysing =>
       /\ w.pending # <<>> => RtAsks(u, w.pending[1])
       /\ w.req # <<>> /\ w.req[1].ticket = u.ticket => RtAsks(u, w.req[1])
       /\ w.done # <<>> /\ w.done[1].ticket = u.ticket => RtAnswersAsked(u, w.done[1])

\* The inductive invariant.
RtIInv == RtTypeOK /\ RtPane(rtUi) /\ RtJob(rtWork) /\ RtLink(rtUi, rtWork)

-------------------------------------------------------------------------------
(* What a value that may be there is. *)

\* A value that is there is a value of its set.
LEMMA MaybeIs ==
  ASSUME NEW S, NEW s \in RtMaybe(S)
  PROVE  s # <<>> => s[1] \in S /\ s = <<s[1]>>
BY DEF RtMaybe

\* A value put there is there.
LEMMA MaybeMade ==
  ASSUME NEW S
  PROVE  <<>> \in RtMaybe(S) /\ \A x \in S : <<x>> \in RtMaybe(S) /\ <<x>>[1] = x /\ <<x>> # <<>>
BY DEF RtMaybe

-------------------------------------------------------------------------------
(* remove_if, and the largest and smallest of what an ensemble's captures state. *)

\* Of the places that are kept, one is the k-th.
LEMMA KthPlace ==
  ASSUME NEW n \in Nat, NEW P \in SUBSET (1..n), NEW k \in 1..Cardinality(P)
  PROVE  \E i \in P : Cardinality({j \in P : j <= i}) = k
<1> DEFINE UpTo(i) == {j \in P : j <= i}
           T == {i \in Nat : Cardinality(UpTo(i)) >= k}
<1>0. \A j \in P : j \in Int /\ 1 <= j /\ j <= n
  OBVIOUS
<1>1. IsFiniteSet(P) /\ Cardinality(P) \in Nat /\ k \in Nat /\ k >= 1 /\ k <= Cardinality(P)
  <2>1. IsFiniteSet(1..n)
    BY FS_Interval
  <2>2. IsFiniteSet(P)
    BY <2>1, FS_Subset
  <2>3. Cardinality(P) \in Nat
    BY <2>2, FS_CardinalityType
  <2> QED BY <2>2, <2>3
<1>2. ASSUME NEW i \in Nat PROVE IsFiniteSet(UpTo(i)) /\ Cardinality(UpTo(i)) \in Nat
  <2>1. UpTo(i) \in SUBSET P
    OBVIOUS
  <2>2. IsFiniteSet(UpTo(i))
    BY <1>1, <2>1, FS_Subset
  <2> QED BY <2>2, FS_CardinalityType
<1>3. UpTo(n) = P
  BY <1>0
<1>4. n \in T
  BY <1>1, <1>3
<1>5. PICK i \in T : \A j \in T : i <= j
  <2>1. T \in SUBSET Nat /\ T # {}
    BY <1>4
  <2> HIDE DEF T
  <2> QED BY <2>1, LeastNat
<1>6. i # 0
  <2>1. SUFFICES ASSUME i = 0 PROVE FALSE
    OBVIOUS
  <2>2. UpTo(0) = {}
    <3>1. \A j \in P : ~(j <= 0)
      BY <1>0
    <3> QED BY <3>1
  <2>3. Cardinality(UpTo(0)) = 0
    BY <2>2, FS_EmptySet
  <2> QED BY <1>1, <1>5, <2>1, <2>3
<1>7. Cardinality(UpTo(i - 1)) < k /\ i - 1 \in Nat /\ i \in Nat
  <2>1. i \in Nat /\ i - 1 \in Nat
    BY <1>5, <1>6
  <2>2. i - 1 \notin T
    <3> HIDE DEF T
    <3> QED BY <1>5, <2>1
  <2>3. Cardinality(UpTo(i - 1)) \in Nat
    BY <1>2, <2>1
  <2>4. k \in Nat
    BY <1>1
  <2>5. ~(Cardinality(UpTo(i - 1)) >= k)
    BY <2>1, <2>2
  <2> HIDE DEF UpTo
  <2> QED BY <2>1, <2>3, <2>4, <2>5
<1>8. i \in P
  <2>1. SUFFICES ASSUME i \notin P PROVE FALSE
    OBVIOUS
  <2>2. UpTo(i) = UpTo(i - 1)
    <3>1. \A j \in P : j <= i <=> j <= i - 1
      BY <1>0, <1>7, <2>1
    <3> QED BY <3>1
  <2>3. Cardinality(UpTo(i)) >= k
    BY <1>5
  <2>4. Cardinality(UpTo(i - 1)) \in Nat /\ k \in Nat
    <3> HIDE DEF UpTo
    <3> QED BY <1>1, <1>2, <1>7
  <2> HIDE DEF UpTo
  <2> QED BY <1>7, <2>2, <2>3, <2>4
<1>9. Cardinality(UpTo(i)) = Cardinality(UpTo(i - 1)) + 1
  <2>1. UpTo(i) = UpTo(i - 1) \cup {i}
    <3>1. \A j \in P : j <= i <=> (j <= i - 1 \/ j = i)
      BY <1>0, <1>7
    <3> QED BY <1>8, <3>1
  <2>2. i \notin UpTo(i - 1)
    BY <1>7
  <2>3. IsFiniteSet(UpTo(i - 1))
    BY <1>2, <1>7
  <2> HIDE DEF UpTo
  <2> QED BY <2>1, <2>2, <2>3, FS_AddElement
<1>10. Cardinality(UpTo(i)) = k
  <2>1. Cardinality(UpTo(i)) >= k
    BY <1>5
  <2>2. Cardinality(UpTo(i - 1)) \in Nat /\ k \in Nat
    <3> HIDE DEF UpTo
    <3> QED BY <1>1, <1>2, <1>7
  <2> HIDE DEF UpTo
  <2> QED BY <1>7, <1>9, <2>1, <2>2
<1> QED BY <1>8, <1>10

\* What is kept of a list is a list of the same things.
LEMMA KeptType ==
  ASSUME NEW S, NEW s \in Seq(S), NEW W
  PROVE  Kept(s, W) \in Seq(S)
<1> DEFINE places == {i \in DOMAIN s : s[i] \in W}
           at(k) == CHOOSE i \in places : Cardinality({j \in places : j <= i}) = k
<1>1. Kept(s, W) = [k \in 1..Cardinality(places) |-> s[at(k)]]
  BY DEF Kept
<1>2. Len(s) \in Nat /\ DOMAIN s = 1..Len(s) /\ places \in SUBSET (1..Len(s))
  OBVIOUS
<1>3. ASSUME NEW k \in 1..Cardinality(places) PROVE s[at(k)] \in S
  <2>1. \E i \in places : Cardinality({j \in places : j <= i}) = k
    <3> HIDE DEF places
    <3> QED BY <1>2, KthPlace
  <2>2. at(k) \in places
    <3> HIDE DEF places
    <3> QED BY <2>1
  <2> QED BY <1>2, <2>2
<1>4. Cardinality(places) \in Nat
  <2>1. IsFiniteSet(1..Len(s))
    BY <1>2, FS_Interval
  <2>2. IsFiniteSet(places)
    BY <1>2, <2>1, FS_Subset
  <2> QED BY <2>2, FS_CardinalityType
<1> HIDE DEF places, at
<1> QED BY <1>1, <1>3, <1>4

\* Finitely many naturals have a bound.
LEMMA ListBounded ==
  ASSUME NEW n \in Nat, NEW f \in [1..n -> Nat]
  PROVE  \E b \in Nat : \A i \in 1..n : f[i] <= b
<1> DEFINE T == {m \in Nat : \E g \in [1..m -> Nat] : \A b \in Nat : \E i \in 1..m : ~(g[i] <= b)}
<1>1. SUFFICES ASSUME n \in T PROVE FALSE
  OBVIOUS
<1>2. PICK m \in T : \A y \in T : m <= y
  <2>1. T \in SUBSET Nat /\ T # {}
    BY <1>1
  <2> HIDE DEF T
  <2> QED BY <2>1, LeastNat
<1>3. PICK g \in [1..m -> Nat] : \A b \in Nat : \E i \in 1..m : ~(g[i] <= b)
  BY <1>2
<1>4. m \in Nat /\ m # 0
  BY <1>2, <1>3
<1>5. m - 1 \in Nat /\ m - 1 \notin T
  <2>1. m - 1 \in Nat
    BY <1>4
  <2> HIDE DEF T
  <2> QED BY <1>2, <1>4, <2>1
<1> DEFINE h == [i \in 1..(m - 1) |-> g[i]]
<1>6. h \in [1..(m - 1) -> Nat]
  <2>1. \A i \in 1..(m - 1) : i \in 1..m
    BY <1>4
  <2> QED BY <1>3, <2>1
<1>7. PICK b \in Nat : \A i \in 1..(m - 1) : h[i] <= b
  BY <1>5, <1>6
<1>8. b \in Nat /\ g[m] \in Nat
  BY <1>3, <1>4, <1>7
<1>9. PICK c \in Nat : b <= c /\ g[m] <= c
  <2>1. PICK x \in Nat : x = g[m]
    BY <1>8
  <2>2. b + x \in Nat /\ b <= b + x /\ x <= b + x
    BY <1>8
  <2> QED BY <2>1, <2>2
<1>10. ASSUME NEW i \in 1..m PROVE g[i] <= c
  <2>1. CASE i = m
    BY <1>9, <2>1
  <2>2. CASE i # m
    <3>1. i \in 1..(m - 1)
      BY <1>4, <2>2
    <3>2. g[i] <= b /\ g[i] \in Nat
      BY <1>3, <1>7, <3>1
    <3> QED BY <1>8, <1>9, <3>2
  <2> QED BY <2>1, <2>2
<1> QED BY <1>3, <1>10

\* A set of naturals that has a bound has a largest member, and Max is it.
LEMMA MaxOfBounded ==
  ASSUME NEW S \in SUBSET Nat, S # {}, NEW b \in Nat, \A y \in S : y <= b
  PROVE  Max(S) \in S /\ \A y \in S : Max(S) >= y
<1> DEFINE T == {m \in Nat : \A y \in S : y <= m}
<1>1. PICK m \in T : \A y \in T : m <= y
  <2>1. T \in SUBSET Nat /\ b \in T
    OBVIOUS
  <2> HIDE DEF T
  <2> QED BY <2>1, LeastNat
<1>2. m \in Nat /\ \A y \in S : y <= m
  BY <1>1
<1>3. m \in S
  <2>1. SUFFICES ASSUME m \notin S PROVE FALSE
    OBVIOUS
  <2>2. \A y \in S : y \in Nat /\ y < m
    BY <1>2, <2>1
  <2>3. m - 1 \in Nat
    <3>1. PICK y \in S : TRUE
      OBVIOUS
    <3>2. y \in Nat /\ y < m
      BY <2>2
    <3> QED BY <1>2, <3>2
  <2>4. m - 1 \in T
    BY <1>2, <2>2, <2>3
  <2> HIDE DEF T
  <2> QED BY <1>1, <1>2, <2>4
<1>4. \E z \in S : \A y \in S : z >= y
  BY <1>2, <1>3
<1> QED BY <1>4 DEF Max

\* A nonempty set of naturals has a smallest member, and Min is it.
LEMMA MinOfNats ==
  ASSUME NEW S \in SUBSET Nat, S # {}
  PROVE  Min(S) \in S /\ \A y \in S : Min(S) <= y
<1>1. \E x \in S : \A y \in S : x <= y
  BY LeastNat
<1> QED BY <1>1 DEF Min

-------------------------------------------------------------------------------
(* Rt60Analysis. *)

RtIrs == [rate : Nat, origin : Nat, arrival : Int, tail : Nat, size : Nat, spacing : Nat,
          low : Nat, high : Nat]

\* A capture and a band are what RtAssumption says.
LEMMA RtGiven ==
  /\ \A id \in RtIds : id \in Nat \ {0} /\ RtIrOf[id] \in RtIrs
  /\ NoId \notin RtIds
  /\ \A set \in RtSets : RtBands[set] \in Seq([low : Nat, high : Nat])
<1>1. RtIrOf \in Seq(RtIrs)
  BY RtAssumption DEF RtIrs
<1>2. DOMAIN RtIrOf = 1..Len(RtIrOf) /\ Len(RtIrOf) \in Nat /\ \A id \in 1..Len(RtIrOf) : RtIrOf[id] \in RtIrs
  BY <1>1
<1>3. \A set \in RtSets : RtBands[set] \in Seq([low : Nat, high : Nat])
  BY RtAssumption
<1> QED BY <1>2, <1>3 DEF RtIds, NoId

\* cropWindow: the window is inside the record, around the arrival and its lead-in.
LEMMA CropInside ==
  ASSUME NEW ir \in RtIrs
  PROVE  /\ cropWindow(ir).refusal \in {"None", "NoLeadIn", "NoTail"}
         /\ cropWindow(ir).refusal = "None" =>
              /\ 0 <= cropWindow(ir).start /\ cropWindow(ir).start <= ir.origin + ir.arrival
              /\ ir.origin + ir.arrival < cropWindow(ir).end /\ cropWindow(ir).end <= ir.size
<1> DEFINE lead == rt60LeadInSamples(ir)
           last == Min({ir.size, ir.origin + ir.tail})
           arr == ir.origin + ir.arrival
<1>1. lead \in Nat
  <2>1. ir.spacing \in Nat /\ RtMaxLeadIn \in Nat
    BY RtAssumption DEF RtIrs
  <2>2. ir.spacing \div 2 \in Nat
    BY <2>1
  <2> QED BY <2>1, <2>2 DEF rt60LeadInSamples
<1>2. ir.size \in Nat /\ ir.origin \in Nat /\ ir.tail \in Nat /\ ir.arrival \in Int
  BY DEF RtIrs
<1>3. last \in Nat /\ last <= ir.size
  <2>1. Min({ir.size, ir.origin + ir.tail}) \in {ir.size, ir.origin + ir.tail}
        /\ \A y \in {ir.size, ir.origin + ir.tail} : Min({ir.size, ir.origin + ir.tail}) <= y
    <3>1. {ir.size, ir.origin + ir.tail} \in SUBSET Nat /\ {ir.size, ir.origin + ir.tail} # {}
      BY <1>2
    <3> QED BY <3>1, MinOfNats
  <2> QED BY <1>2, <2>1
<1>4. cropWindow(ir) = CASE arr < lead -> [refusal |-> "NoLeadIn", start |-> 0, end |-> 0]
                         [] arr >= lead /\ last <= arr -> [refusal |-> "NoTail", start |-> 0, end |-> 0]
                         [] OTHER -> [refusal |-> "None", start |-> arr - lead, end |-> last]
  BY DEF cropWindow
<1>5. arr \in Int
  BY <1>2
<1> HIDE DEF lead, last, arr
<1>6. CASE arr < lead
  BY <1>4, <1>6
<1>7. CASE arr >= lead /\ last <= arr
  BY <1>1, <1>4, <1>5, <1>7
<1>8. CASE arr >= lead /\ ~(last <= arr)
  <2>1. cropWindow(ir) = [refusal |-> "None", start |-> arr - lead, end |-> last]
    BY <1>1, <1>4, <1>5, <1>8
  <2> QED BY <1>1, <1>2, <1>3, <1>5, <1>8, <2>1 DEF arr
<1> QED BY <1>1, <1>5, <1>6, <1>7, <1>8

\* A refusal is a result.
LEMMA RefusedIs ==
  ASSUME NEW id \in RtIds \cup {NoId}, NEW set \in RtSets, NEW why \in RtRefusals
  PROVE  /\ Refused(id, set, why) \in RtResults
         /\ Refused(id, set, why).id = id /\ Refused(id, set, why).set = set
         /\ Refused(id, set, why).refusal = why /\ Refused(id, set, why).bands = <<>>
         /\ why # "None" => Finished(Refused(id, set, why))
<1>1. <<>> \in RtFigures
  BY DEF RtFigures
<1> QED BY <1>1 DEF Refused, RtResults, Finished

\* A result refused before its set was written.
LEMMA WholeRefusal ==
  ASSUME NEW id \in RtIds \cup {NoId}, NEW set \in RtSets, NEW why \in {"NoIr", "NoTail"}
  PROVE  /\ refusedWhole(id, why) \in RtResults /\ refusedWhole(id, why).id = id
         /\ RtFits(refusedWhole(id, why), set) /\ Finished(refusedWhole(id, why))
         /\ refusedWhole(id, why).refusal = why
<1>1. "Octave" \in RtSets /\ why \in RtRefusals /\ why # "None"
  BY RtAssumption DEF RtRefusals
<1>2. PICK set0 \in RtSets : set0 = "Octave"
  BY <1>1
<1>3. refusedWhole(id, why) = Refused(id, set0, why)
  BY <1>2 DEF refusedWhole
<1> QED BY <1>1, <1>3, RefusedIs DEF RtFits

\* The worker's failure is a whole result, of no capture.
LEMMA FailureIs ==
  Failure \in RtResults /\ Failure.id = NoId /\ Finished(Failure) /\ NoId \notin RtIds
<1>1. "Octave" \in RtSets /\ "NoDecayFound" \in RtRefusals /\ "NoDecayFound" # "None"
  BY RtAssumption DEF RtRefusals
<1>2. PICK set0 \in RtSets : set0 = "Octave"
  BY <1>1
<1>3. PICK id \in RtIds \cup {NoId} : id = NoId
  OBVIOUS
<1>4. Failure = Refused(id, set0, "NoDecayFound")
  BY <1>2, <1>3 DEF Failure
<1>5. NoId \notin RtIds
  BY RtGiven DEF RtIds, NoId
<1> QED BY <1>1, <1>3, <1>4, <1>5, RefusedIs

\* What analyseRt60Bands begins with: a result without bands, refused unless there is a response.
LEMMA StartIs ==
  ASSUME NEW id \in RtIds \cup {NoId}, NEW set \in RtSets
  PROVE  \/ \E why \in {"NoIr", "NoTail"} : analyseStart(id, set) = refusedWhole(id, why)
         \/ \E why \in RtRefusals : /\ analyseStart(id, set) = Refused(id, set, why)
                                    /\ id \in RtIds
<1>1. CASE unusable(id)
  <2>1. analyseStart(id, set) = refusedWhole(id, "NoIr")
    BY <1>1 DEF analyseStart
  <2> QED BY <2>1
<1>2. CASE ~unusable(id) /\ RtIrOf[id].tail = 0
  <2>1. analyseStart(id, set) = refusedWhole(id, "NoTail")
    BY <1>2 DEF analyseStart
  <2> QED BY <2>1
<1>3. CASE ~unusable(id) /\ RtIrOf[id].tail # 0
  <2>1. analyseStart(id, set) = Refused(id, set, cropWindow(RtIrOf[id]).refusal)
    BY <1>3 DEF analyseStart
  <2>2. id \in RtIds
    BY <1>3 DEF unusable
  <2>3. cropWindow(RtIrOf[id]).refusal \in RtRefusals
    BY <2>2, RtGiven, CropInside DEF RtRefusals
  <2> QED BY <2>1, <2>2, <2>3
<1> QED BY <1>1, <1>2, <1>3

\* Whatever it begins with, it is of the capture, and of the set unless it is refused at once.
LEMMA StartFits ==
  ASSUME NEW id \in RtIds \cup {NoId}, NEW set \in RtSets, NEW r, r = analyseStart(id, set)
  PROVE  /\ r \in RtResults /\ r.id = id /\ RtFits(r, set)
         /\ r.refusal # "None" => Finished(r)
         /\ r.refusal = "None" => r.set = set /\ id \in RtIds
<1>1. CASE \E why \in {"NoIr", "NoTail"} : r = refusedWhole(id, why)
  <2>1. PICK why \in {"NoIr", "NoTail"} : r = refusedWhole(id, why)
    BY <1>1
  <2>2. r \in RtResults /\ r.id = id /\ RtFits(r, set) /\ Finished(r) /\ r.refusal = why
    BY <2>1, WholeRefusal
  <2> QED BY <2>2
<1>2. CASE \E why \in RtRefusals : r = Refused(id, set, why) /\ id \in RtIds
  <2>1. PICK why \in RtRefusals : r = Refused(id, set, why) /\ id \in RtIds
    BY <1>2
  <2>2. r \in RtResults /\ r.id = id /\ r.set = set /\ r.refusal = why /\ (why # "None" => Finished(r))
    BY <2>1, RefusedIs
  <2> QED BY <2>1, <2>2 DEF RtFits
<1> QED BY <1>1, <1>2, StartIs

\* One more band: of the same capture and set.
LEMMA BandIs ==
  ASSUME NEW r \in RtResults, NEW k \in Nat
  PROVE  /\ analyseBand(r, k) \in RtResults /\ analyseBand(r, k).id = r.id /\ analyseBand(r, k).set = r.set
<1> DEFINE trusted == insideTrustedBand(RtBands[r.set][k], RtIrOf[r.id].low, RtIrOf[r.id].high)
           grown == [r EXCEPT !.bands = Append(@, [band |-> k, trusted |-> trusted])]
           refused == Refused(r.id, r.set, "NoDecayFound")
<1>1. analyseBand(r, k) \in {grown, refused}
  BY DEF analyseBand
<1>2. refused \in RtResults /\ refused.id = r.id /\ refused.set = r.set
  <2>1. r.id \in RtIds \cup {NoId} /\ r.set \in RtSets /\ "NoDecayFound" \in RtRefusals
    BY DEF RtResults, RtRefusals
  <2> QED BY <2>1, RefusedIs
<1>3. grown \in RtResults /\ grown.id = r.id /\ grown.set = r.set
  <2>1. trusted \in BOOLEAN
    BY DEF insideTrustedBand
  <2> HIDE DEF trusted
  <2>2. PICK f : f = [band |-> k, trusted |-> trusted]
    OBVIOUS
  <2>3. f \in [band : Nat, trusted : BOOLEAN]
    BY <2>1, <2>2
  <2>4. Append(r.bands, f) \in RtFigures
    BY <2>3 DEF RtResults, RtFigures
  <2> QED BY <2>2, <2>4 DEF RtResults
<1> QED BY <1>1, <1>2, <1>3

\* The analysis in place is whole, and of what was asked.
LEMMA WholeIs ==
  ASSUME NEW id \in RtIds \cup {NoId}, NEW set \in RtSets
  PROVE  /\ analyseRt60(id, set) \in RtResults /\ analyseRt60(id, set).id = id
         /\ RtFits(analyseRt60(id, set), set) /\ Finished(analyseRt60(id, set))
<1> DEFINE begun == analyseStart(id, set)
           figure == [k \in DOMAIN RtBands[set] |->
                        [band |-> k,
                         trusted |-> insideTrustedBand(RtBands[set][k], RtIrOf[id].low, RtIrOf[id].high)]]
           fails == \E k \in DOMAIN RtBands[set] :
                      /\ insideTrustedBand(RtBands[set][k], RtIrOf[id].low, RtIrOf[id].high)
                      /\ Throws(RtBands[set][k], RtIrOf[id])
<1>2. /\ begun \in RtResults /\ begun.id = id /\ RtFits(begun, set)
      /\ begun.refusal # "None" => Finished(begun)
      /\ begun.refusal = "None" => begun.set = set
  <2> HIDE DEF begun
  <2>1. PICK r : r = analyseStart(id, set)
    OBVIOUS
  <2> QED BY <2>1, StartFits DEF begun
<1>3. CASE begun.refusal # "None"
  <2>1. analyseRt60(id, set) = begun
    BY <1>3 DEF analyseRt60
  <2> QED BY <1>2, <1>3, <2>1
<1>4. CASE begun.refusal = "None" /\ fails
  <2>1. analyseRt60(id, set) = Refused(id, set, "NoDecayFound")
    BY <1>4 DEF analyseRt60
  <2>2. "NoDecayFound" \in RtRefusals /\ "NoDecayFound" # "None"
    BY DEF RtRefusals
  <2> QED BY <2>1, <2>2, RefusedIs DEF RtFits
<1>5. CASE begun.refusal = "None" /\ ~fails
  <2>1. analyseRt60(id, set) = [begun EXCEPT !.bands = figure]
    BY <1>5 DEF analyseRt60
  <2>2. RtBands[set] \in Seq([low : Nat, high : Nat])
    BY RtGiven
  <2>3. figure \in RtFigures /\ Len(figure) = Len(RtBands[set])
    <3>1. \A k \in DOMAIN RtBands[set] :
            insideTrustedBand(RtBands[set][k], RtIrOf[id].low, RtIrOf[id].high) \in BOOLEAN
      BY DEF insideTrustedBand
    <3>2. DOMAIN RtBands[set] = 1..Len(RtBands[set]) /\ Len(RtBands[set]) \in Nat
      BY <2>2
    <3>3. figure \in [1..Len(RtBands[set]) -> [band : Nat, trusted : BOOLEAN]]
      BY <3>1, <3>2
    <3>4. PICK n \in Nat : n = Len(RtBands[set])
      BY <3>2
    <3> DEFINE S == [band : Nat, trusted : BOOLEAN]
    <3> HIDE DEF figure, S
    <3>5. figure \in [1..n -> S]
      BY <3>3, <3>4 DEF S
    <3>6. figure \in Seq(S) /\ Len(figure) = n
      BY <3>5
    <3> QED BY <3>4, <3>6 DEF RtFigures, S
  <2> HIDE DEF begun, figure
  <2>4. PICK r : r = [begun EXCEPT !.bands = figure]
    OBVIOUS
  <2>5. r \in RtResults /\ r.id = id /\ r.set = set /\ r.bands = figure
    BY <1>2, <1>5, <2>3, <2>4 DEF RtResults
  <2>6. Finished(r)
    BY <2>3, <2>5 DEF Finished
  <2> QED BY <2>1, <2>4, <2>5, <2>6 DEF RtFits
<1> QED BY <1>3, <1>4, <1>5

\* The band an ensemble trusts, each of its captures trusts.
LEMMA SpanIsCommon ==
  ASSUME NEW ids \in Seq(RtIds), NEW i \in DOMAIN ids, NEW band \in [low : Nat, high : Nat],
         insideTrustedBand(band, EnsembleBand(ids).low, EnsembleBand(ids).high)
  PROVE  insideTrustedBand(band, RtIrOf[ids[i]].low, RtIrOf[ids[i]].high)
<1> DEFINE lows == {RtIrOf[ids[j]].low : j \in DOMAIN ids}
           highs == {RtIrOf[ids[j]].high : j \in DOMAIN ids} \ {0}
           lo == RtIrOf[ids[i]].low
           hi == RtIrOf[ids[i]].high
<1>1. DOMAIN ids = 1..Len(ids) /\ Len(ids) \in Nat /\ \A j \in DOMAIN ids : ids[j] \in RtIds
  OBVIOUS
<1>2. \A j \in DOMAIN ids : RtIrOf[ids[j]].low \in Nat /\ RtIrOf[ids[j]].high \in Nat
  BY <1>1, RtGiven DEF RtIrs
<1>3. lo \in lows /\ lo \in Nat /\ lows \in SUBSET Nat
  BY <1>2
<1>4. PICK b \in Nat : \A y \in lows : y <= b
  <2> DEFINE f == [j \in 1..Len(ids) |-> RtIrOf[ids[j]].low]
  <2>1. f \in [1..Len(ids) -> Nat]
    BY <1>1, <1>2
  <2>2. PICK b \in Nat : \A j \in 1..Len(ids) : f[j] <= b
    <3> HIDE DEF f
    <3> QED BY <1>1, <2>1, ListBounded
  <2> QED BY <1>1, <2>2
<1>5. Max(lows) \in Nat /\ Max(lows) >= lo
  <2> HIDE DEF lows, lo
  <2> QED BY <1>3, <1>4, MaxOfBounded
<1>6. hi \in Nat /\ highs \in SUBSET Nat /\ 0 \notin highs /\ (hi > 0 => hi \in highs)
  BY <1>2
<1>7. hi > 0 => Min(highs) \in Nat /\ Min(highs) > 0 /\ Min(highs) <= hi /\ highs # {}
  <2> HIDE DEF highs, hi
  <2>1. SUFFICES ASSUME hi > 0 PROVE Min(highs) \in Nat /\ Min(highs) > 0 /\ Min(highs) <= hi /\ highs # {}
    OBVIOUS
  <2>2. Min(highs) \in highs /\ Min(highs) <= hi
    BY <1>6, <2>1, MinOfNats
  <2>3. Min(highs) \in Nat /\ Min(highs) # 0
    BY <1>6, <2>2
  <2> QED BY <1>6, <2>1, <2>2, <2>3
<1>8. EnsembleBand(ids).low = Max(lows) /\ EnsembleBand(ids).high = IF highs = {} THEN 0 ELSE Min(highs)
  BY DEF EnsembleBand
<1>9. band.low \in Nat /\ band.high \in Nat
  OBVIOUS
<1> HIDE DEF lows, highs, lo, hi
<1>10. (Max(lows) > 0 => band.low >= Max(lows)) /\ (hi > 0 => band.high <= Min(highs))
  BY <1>7, <1>8 DEF insideTrustedBand
<1>11. (lo > 0 => band.low >= lo) /\ (hi > 0 => band.high <= hi)
  BY <1>3, <1>5, <1>6, <1>7, <1>9, <1>10
<1> QED BY <1>11 DEF insideTrustedBand, lo, hi

\* What analyseRt60Ensemble begins with.  Without a refusal the captures share one rate.
LEMMA EnsembleStartIs ==
  ASSUME NEW ids \in Seq(RtIds), NEW set \in RtSets
  PROVE  /\ EnsembleStart(ids, set) \in RtEnsembles /\ EnsembleStart(ids, set).ids = ids
         /\ EnsembleStart(ids, set).set = set /\ RtTrusts(EnsembleStart(ids, set))
<1> DEFINE Why(i) == CASE unusable(ids[i]) -> "NoIr"
                       [] ~unusable(ids[i]) /\ RtIrOf[ids[i]].tail = 0 -> "NoTail"
                       [] ~unusable(ids[i]) /\ RtIrOf[ids[i]].tail # 0
                          /\ RtIrOf[ids[i]].rate # RtIrOf[ids[1]].rate -> "NoIr"
                       [] OTHER -> cropWindow(RtIrOf[ids[i]]).refusal
           bad == {i \in DOMAIN ids : Why(i) # "None"}
<1>1. EnsembleRefusal(ids) = IF bad = {} THEN "None" ELSE Why(Min(bad))
  BY DEF EnsembleRefusal
<1>2. DOMAIN ids = 1..Len(ids) /\ Len(ids) \in Nat /\ \A j \in DOMAIN ids : ids[j] \in RtIds
  OBVIOUS
<1>3. ASSUME NEW i \in DOMAIN ids
      PROVE  Why(i) \in RtRefusals /\ (Why(i) = "None" => RtIrOf[ids[i]].rate = RtIrOf[ids[1]].rate)
  <2>1. cropWindow(RtIrOf[ids[i]]).refusal \in RtRefusals
    BY <1>2, RtGiven, CropInside DEF RtRefusals
  <2> QED BY <2>1 DEF RtRefusals
<1>4. bad # {} => Min(bad) \in bad
  <2>1. bad \in SUBSET Nat
    BY <1>2
  <2> HIDE DEF bad
  <2> QED BY <2>1, MinOfNats
<1>5. EnsembleRefusal(ids) \in RtRefusals
  BY <1>1, <1>3, <1>4 DEF RtRefusals
<1>6. EnsembleRefusal(ids) = "None" => \A i \in DOMAIN ids : RtIrOf[ids[i]].rate = RtIrOf[ids[1]].rate
  <2>1. SUFFICES ASSUME EnsembleRefusal(ids) = "None" PROVE bad = {}
    BY <1>3
  <2> QED BY <1>1, <1>4, <2>1
<1>7. PICK e : e = EnsembleStart(ids, set)
  OBVIOUS
<1>8. e \in RtEnsembles /\ e.ids = ids /\ e.set = set /\ e.refusal = EnsembleRefusal(ids) /\ e.bands = <<>>
  <2>1. <<>> \in RtFigures
    BY DEF RtFigures
  <2> QED BY <1>5, <1>7, <2>1 DEF EnsembleStart, RtEnsembles
<1>9. RtTrusts(e)
  <2>1. Len(e.bands) = 0 /\ Len(RtBands[e.set]) \in Nat
    BY <1>8, RtGiven
  <2> QED BY <1>6, <1>8, <2>1 DEF RtTrusts
<1> QED BY <1>7, <1>8, <1>9

\* One more band of an ensemble.
LEMMA EnsembleBandIs ==
  ASSUME NEW e \in RtEnsembles, RtTrusts(e), NEW k \in DOMAIN RtBands[e.set], k = Len(e.bands) + 1,
         e.refusal = "None"
  PROVE  /\ EnsembleNextBand(e, k) \in RtEnsembles /\ EnsembleNextBand(e, k).ids = e.ids
         /\ EnsembleNextBand(e, k).set = e.set /\ RtTrusts(EnsembleNextBand(e, k))
<1> DEFINE trusted == insideTrustedBand(RtBands[e.set][k], EnsembleBand(e.ids).low, EnsembleBand(e.ids).high)
           grown == [e EXCEPT !.bands = Append(@, [band |-> k, trusted |-> trusted])]
           refused == [e EXCEPT !.bands = <<>>, !.refusal = "NoDecayFound"]
<1>1. EnsembleNextBand(e, k) \in {grown, refused}
  BY DEF EnsembleNextBand
<1>2. /\ e.ids \in Seq(RtIds) /\ e.set \in RtSets /\ e.refusal \in RtRefusals /\ e.bands \in RtFigures
  BY DEF RtEnsembles
<1>3. k \in Nat /\ RtBands[e.set][k] \in [low : Nat, high : Nat]
  <2>1. PICK s : s = RtBands[e.set]
    OBVIOUS
  <2>2. s \in Seq([low : Nat, high : Nat])
    BY <1>2, <2>1, RtGiven
  <2>3. k \in DOMAIN s
    BY <2>1
  <2>4. k \in Nat /\ s[k] \in [low : Nat, high : Nat]
    <3> DEFINE S == [low : Nat, high : Nat]
    <3> HIDE DEF S
    <3>1. s \in Seq(S)
      BY <2>2 DEF S
    <3>2. k \in Nat /\ s[k] \in S
      BY <2>3, <3>1
    <3> QED BY <3>2 DEF S
  <2> QED BY <2>1, <2>4
<1>4. refused \in RtEnsembles /\ refused.ids = e.ids /\ refused.set = e.set /\ RtTrusts(refused)
  <2>1. PICK r : r = refused
    OBVIOUS
  <2>2. <<>> \in RtFigures /\ "NoDecayFound" \in RtRefusals
    BY DEF RtFigures, RtRefusals
  <2>3. r \in RtEnsembles /\ r.ids = e.ids /\ r.set = e.set /\ r.refusal = "NoDecayFound"
    BY <2>1, <2>2 DEF RtEnsembles
  <2>4. RtTrusts(r)
    BY <2>3 DEF RtTrusts
  <2> HIDE DEF refused
  <2> QED BY <2>1, <2>3, <2>4
<1>5. grown \in RtEnsembles /\ grown.ids = e.ids /\ grown.set = e.set /\ RtTrusts(grown)
  <2>1. trusted \in BOOLEAN
    BY DEF insideTrustedBand
  <2>2. trusted => \A i \in DOMAIN e.ids :
          insideTrustedBand(RtBands[e.set][k], RtIrOf[e.ids[i]].low, RtIrOf[e.ids[i]].high)
    BY <1>2, <1>3, SpanIsCommon
  <2> HIDE DEF trusted
  <2>3. PICK f : f = [band |-> k, trusted |-> trusted]
    OBVIOUS
  <2>4. f \in [band : Nat, trusted : BOOLEAN] /\ f.band = k /\ f.trusted = trusted
    BY <1>3, <2>1, <2>3
  <2>5. PICK g : g = [e EXCEPT !.bands = Append(@, f)]
    OBVIOUS
  <2>6. /\ Append(e.bands, f) \in RtFigures
        /\ DOMAIN Append(e.bands, f) = 1..(Len(e.bands) + 1) /\ DOMAIN e.bands = 1..Len(e.bands)
        /\ Len(e.bands) \in Nat
        /\ Append(e.bands, f)[Len(e.bands) + 1] = f
        /\ \A j \in 1..Len(e.bands) : Append(e.bands, f)[j] = e.bands[j]
    BY <1>2, <2>4 DEF RtFigures
  <2>7. /\ g \in RtEnsembles /\ g.ids = e.ids /\ g.set = e.set /\ g.refusal = e.refusal
        /\ g.bands = Append(e.bands, f)
    BY <2>5, <2>6 DEF RtEnsembles
  <2>8. RtTrusts(g)
    <3>1. ASSUME NEW j \in DOMAIN g.bands, NEW i \in DOMAIN g.ids, g.bands[j].trusted
          PROVE  insideTrustedBand(RtBands[g.set][g.bands[j].band], RtIrOf[g.ids[i]].low, RtIrOf[g.ids[i]].high)
      <4>1. j \in 1..(Len(e.bands) + 1)
        BY <2>6, <2>7
      <4>2. CASE j = Len(e.bands) + 1
        <5>1. g.bands[j] = f
          BY <2>6, <2>7, <4>2
        <5>2. trusted
          BY <2>4, <3>1, <5>1
        <5> QED BY <2>2, <2>4, <2>7, <5>1, <5>2
      <4>3. CASE j # Len(e.bands) + 1
        <5>1. j \in DOMAIN e.bands /\ g.bands[j] = e.bands[j]
          BY <2>6, <2>7, <4>1, <4>3
        <5> QED BY <2>7, <3>1, <5>1 DEF RtTrusts
      <4> QED BY <4>2, <4>3
    <3>2. \A i \in DOMAIN g.ids : RtIrOf[g.ids[i]].rate = RtIrOf[g.ids[1]].rate
      BY <2>7 DEF RtTrusts
    <3>3. Len(g.bands) <= Len(RtBands[g.set])
      <4>1. PICK s : s = RtBands[e.set]
        OBVIOUS
      <4>2. s \in Seq([low : Nat, high : Nat])
        BY <1>2, <4>1, RtGiven
      <4>3. DOMAIN s = 1..Len(s)
        BY <4>2
      <4>4. k <= Len(s)
        BY <4>1, <4>3
      <4>5. Len(g.bands) = k
        BY <1>2, <2>4, <2>7 DEF RtFigures
      <4> QED BY <2>7, <4>1, <4>4, <4>5
    <3> QED BY <3>1, <3>2, <3>3 DEF RtTrusts
  <2> QED BY <2>3, <2>5, <2>7, <2>8
<1> QED BY <1>1, <1>4, <1>5

-------------------------------------------------------------------------------
(* The pane's own operations. *)

\* submit: the request waits under the newest ticket, and what the worker builds is untouched.
LEMMA SubmitIs ==
  ASSUME NEW w \in RtWorks, RtJob(w), NEW q \in RtRequests, w.newest <= q.ticket
  PROVE  /\ submit(w, q) \in RtWorks /\ RtJob(submit(w, q))
         /\ submit(w, q).newest = q.ticket /\ submit(w, q).pending = <<q>> /\ submit(w, q).done = <<>>
         /\ submit(w, q).req = w.req
<1> PICK v : v = submit(w, q)
  OBVIOUS
<1>1. /\ v \in RtWorks /\ v.newest = q.ticket /\ v.done = <<>> /\ v.pending = <<q>>
      /\ v.cancel = (w.cancel \/ w.running) /\ v.pc = (IF w.pc = "none" THEN "wait" ELSE w.pc)
      /\ v.req = w.req /\ v.single = w.single /\ v.ens = w.ens
  <2>1. <<>> \in RtMaybe(RtOutcomes) /\ <<q>> \in RtMaybe(RtRequests) /\ q.ticket \in Nat
    BY MaybeMade DEF RtRequests
  <2>2. (w.cancel \/ w.running) \in BOOLEAN
        /\ (IF w.pc = "none" THEN "wait" ELSE w.pc) \in RtPcs
    BY DEF RtWorks, RtPcs
  <2> QED BY <2>1, <2>2, Zenon DEF submit, RtWorks
<1>2. RtBuilds(v)
  <2>1. RtBuilds(w)
    BY DEF RtJob
  <2>2. RtBusy(v) <=> RtBusy(w)
    BY <1>1 DEF RtBusy
  <2>3. (v.pc = w.pc \/ ~RtBusy(v)) /\ (~v.cancel => ~w.cancel)
    BY <1>1 DEF RtBusy
  <2> QED BY <1>1, <2>1, <2>2, <2>3 DEF RtBuilds
<1>3. RtTickets(v)
  <2>1. w.newest \in Nat /\ q.ticket \in Nat
    BY DEF RtWorks, RtRequests
  <2>2. w.req # <<>> => w.req[1].ticket \in Nat
    <3>1. w.req \in RtMaybe(RtRequests)
      BY DEF RtWorks
    <3> QED BY <3>1, MaybeIs DEF RtRequests
  <2>3. w.req # <<>> => w.req[1].ticket <= w.newest
    BY DEF RtJob, RtTickets
  <2>4. v.pending[1] = q
    BY <1>1
  <2> QED BY <1>1, <2>1, <2>2, <2>3, <2>4 DEF RtTickets
<1>4. v.ens # <<>> => RtTrusts(v.ens[1])
  BY <1>1 DEF RtJob
<1>5. RtJob(v)
  BY <1>1, <1>2, <1>3, <1>4 DEF RtJob
<1> QED BY <1>1, <1>5

\* Whatever of the question was changed, reanalyse leaves the pane with the whole answer or with
\* a question the worker holds under the newest ticket.
LEMMA ReanalyseIs ==
  ASSUME NEW u \in RtUis, NEW w \in RtWorks, NEW held, RtJob(w), w.newest = u.ticket,
         NEW a, a = reanalyse(u, w, held)
  PROVE  /\ a.ui \in RtUis /\ a.work \in RtWorks
         /\ RtPane(a.ui) /\ RtJob(a.work) /\ RtLink(a.ui, a.work)
         /\ a.ui.rev = u.rev + 1 /\ a.ui.swept = u.swept
<1> DEFINE ens == Pruned(u.ens, held)
           primary == Primary(u, held)
           here == u.set = "Octave" /\ Len(ens) < 2
<1>1. /\ u.sel \in RtIds \cup {NoId} /\ u.set \in RtSets /\ u.ens \in Seq(RtIds)
      /\ u.ticket \in Nat /\ u.rev \in Nat
  BY DEF RtUis
<1>2. ens \in Seq(RtIds) /\ Len(ens) \in Nat
  <2>1. ens \in Seq(RtIds)
    BY <1>1, KeptType DEF Pruned
  <2> HIDE DEF ens
  <2> QED BY <2>1
<1>3. primary \in {u.sel, NoId} /\ primary \in RtIds \cup {NoId}
  BY <1>1 DEF Primary
<1>4. CASE here
  <2>1. PICK r : r = analyseRt60(primary, u.set)
    OBVIOUS
  <2>2. r \in RtResults /\ r.id = primary /\ RtFits(r, u.set) /\ Finished(r)
    <3> HIDE DEF primary
    <3> QED BY <1>1, <1>3, <2>1, WholeIs
  <2> PICK v : v = [u EXCEPT !.rev = @ + 1, !.ens = ens, !.ensRes = <<>>, !.analysing = FALSE, !.res = <<r>>]
    OBVIOUS
  <2>3. a = [ui |-> v, work |-> w]
    BY <1>4, <2>1 DEF reanalyse
  <2>4. a.ui = v /\ a.work = w
    BY <2>3
  <2>5. /\ v \in RtUis /\ v.rev = u.rev + 1 /\ v.ens = ens /\ v.ensRes = <<>> /\ v.analysing = FALSE
        /\ v.res = <<r>> /\ v.sel = u.sel /\ v.set = u.set /\ v.ticket = u.ticket /\ v.swept = u.swept
    <3>1. u.rev + 1 \in Nat /\ <<>> \in RtMaybe(RtEnsembles) /\ <<r>> \in RtMaybe(RtResults) /\ FALSE \in BOOLEAN
      BY <1>1, <2>2, MaybeMade
    <3> HIDE DEF ens
    <3> QED BY <1>2, <3>1, Zenon DEF RtUis
  <2>6. RtPane(v)
    <3>1. v.res # <<>> /\ v.res[1] = r
      BY <2>5
    <3> HIDE DEF ens, primary
    <3>2. RtAnswersOne(v, v.res[1])
      BY <1>3, <2>2, <2>5, <3>1 DEF RtAnswersOne
    <3>3. Len(v.ens) < 2 /\ Len(v.ens) \in Nat
      BY <1>2, <1>4, <2>5
    <3>4. ~(Len(v.ens) >= 2)
      BY <3>3
    <3> QED BY <2>5, <3>1, <3>2, <3>4 DEF RtPane, RtNothingDue
  <2>7. RtLink(v, w)
    BY <2>5 DEF RtLink
  <2> QED BY <2>4, <2>5, <2>6, <2>7
<1>5. CASE ~here
  <2> DEFINE q == Request(u, ens, held)
             res == IF primary = NoId /\ u.sel # NoId THEN <<refusedWhole(NoId, "NoIr")>> ELSE <<>>
  <2>1. PICK x : x = res
    OBVIOUS
  <2>2. x \in RtMaybe(RtResults) /\ (x # <<>> => x[1].id = NoId /\ RtFits(x[1], u.set) /\ Finished(x[1]))
        /\ x # <<Failure>>
        /\ (primary = NoId => u.sel = NoId \/ x # <<>>)
    <3>1. PICK r : r = refusedWhole(NoId, "NoIr")
      OBVIOUS
    <3>2. r \in RtResults /\ r.id = NoId /\ RtFits(r, u.set) /\ Finished(r) /\ r # Failure
      <4>1. PICK set \in RtSets : set = u.set
        BY <1>1
      <4>2. PICK id \in RtIds \cup {NoId} : id = NoId
        OBVIOUS
      <4>3. r = refusedWhole(id, "NoIr")
        BY <3>1, <4>2
      <4>4. r \in RtResults /\ r.id = id /\ RtFits(r, set) /\ Finished(r) /\ r.refusal = "NoIr"
        BY <4>3, WholeRefusal
      <4>5. Failure.refusal = "NoDecayFound"
        BY DEF Failure, Refused
      <4> QED BY <4>1, <4>2, <4>4, <4>5
    <3>3. <<r>> \in RtMaybe(RtResults) /\ <<>> \in RtMaybe(RtResults) /\ <<r>>[1] = r /\ <<r>> # <<>>
      BY <3>2, MaybeMade
    <3> HIDE DEF primary
    <3>4. x = IF primary = NoId /\ u.sel # NoId THEN <<r>> ELSE <<>>
      BY <2>1, <3>1
    <3>5. <<r>> # <<Failure>> /\ <<>> # <<Failure>>
      BY <3>2
    <3> QED BY <3>2, <3>3, <3>4, <3>5
  <2> PICK v : v = [u EXCEPT !.rev = @ + 1, !.ens = ens, !.ensRes = <<>>, !.analysing = TRUE,
                             !.ticket = @ + 1, !.res = x]
    OBVIOUS
  <2>3. a = [ui |-> v, work |-> submit(w, q)]
    BY <1>5, <2>1 DEF reanalyse
  <2>4. a.ui = v /\ a.work = submit(w, q)
    BY <2>3
  <2>5. /\ q \in RtRequests /\ q.ticket = u.ticket + 1 /\ q.set = u.set /\ q.primary = primary
        /\ q.ensemble = IF Len(ens) >= 2 THEN ens ELSE <<>>
    <3>1. (IF Len(ens) >= 2 THEN ens ELSE <<>>) \in Seq(RtIds) /\ u.ticket + 1 \in Nat
      <4> HIDE DEF ens
      <4> QED BY <1>1, <1>2
    <3> HIDE DEF ens
    <3> QED BY <1>1, <1>3, <3>1 DEF Request, RtRequests
  <2>6. w.newest <= q.ticket /\ u.ticket # u.ticket + 1
    BY <1>1, <2>5
  <2> HIDE DEF q
  <2> PICK z : z = submit(w, q)
    OBVIOUS
  <2>7. z \in RtWorks /\ RtJob(z) /\ z.newest = q.ticket /\ z.pending = <<q>> /\ z.done = <<>> /\ z.req = w.req
    BY <2>5, <2>6, SubmitIs
  <2>8. /\ v \in RtUis /\ v.rev = u.rev + 1 /\ v.ens = ens /\ v.ensRes = <<>> /\ v.analysing = TRUE
        /\ v.res = x /\ v.sel = u.sel /\ v.set = u.set /\ v.ticket = u.ticket + 1 /\ v.swept = u.swept
    <3>1. u.rev + 1 \in Nat /\ u.ticket + 1 \in Nat /\ <<>> \in RtMaybe(RtEnsembles) /\ TRUE \in BOOLEAN
      BY <1>1, MaybeMade
    <3> HIDE DEF ens
    <3> QED BY <1>2, <2>2, <3>1, Zenon DEF RtUis
  <2> HIDE DEF ens, primary
  <2>9. RtPane(v)
    <3>1. v.res # <<>> => RtAnswersOne(v, v.res[1])
      BY <2>2, <2>8 DEF RtAnswersOne
    <3> QED BY <2>2, <2>8, <3>1 DEF RtPane
  <2>10. RtLink(v, z)
    <3>1. RtAsks(v, q)
      BY <1>3, <2>2, <2>5, <2>8 DEF RtAsks, RtNothingDue
    <3>2. z.pending[1] = q
      BY <2>7
    <3>3. z.req # <<>> => z.req[1].ticket # v.ticket
      <4>1. w.req # <<>> => w.req[1].ticket <= u.ticket /\ w.req[1].ticket \in Nat
        <5>1. w.req \in RtMaybe(RtRequests)
          BY DEF RtWorks
        <5> QED BY <5>1, MaybeIs DEF RtJob, RtTickets, RtRequests
      <4> QED BY <1>1, <2>7, <2>8, <4>1
    <3>4. z.done = <<>> /\ z.newest = v.ticket
      BY <2>5, <2>7, <2>8
    <3> QED BY <3>1, <3>2, <3>3, <3>4 DEF RtLink
  <2> QED BY <2>4, <2>7, <2>8, <2>9, <2>10
<1> QED BY <1>4, <1>5

\* poll: what the slot held is shown if it is the answer to the present question.
LEMMA PollIs ==
  ASSUME NEW u \in RtUis, NEW w \in RtWorks, RtPane(u), RtJob(w), RtLink(u, w),
         NEW v, v = poll(u, w.done),
         NEW z, z = IF u.analysing THEN [w EXCEPT !.done = <<>>] ELSE w
  PROVE  /\ v \in RtUis /\ z \in RtWorks /\ RtPane(v) /\ RtJob(z) /\ RtLink(v, z)
         /\ v.ticket = u.ticket /\ v.swept = u.swept
         /\ v.rev = u.rev + 1 \/ v = u
<1>1. z \in RtWorks /\ RtJob(z) /\ z.newest = w.newest /\ z.pending = w.pending /\ z.req = w.req
      /\ (u.analysing => z.done = <<>>) /\ (~u.analysing => z = w)
  <2>1. CASE u.analysing
    <3>1. /\ z \in RtWorks /\ z.done = <<>> /\ z.pc = w.pc /\ z.pending = w.pending /\ z.newest = w.newest
          /\ z.running = w.running /\ z.stop = w.stop /\ z.cancel = w.cancel /\ z.req = w.req
          /\ z.single = w.single /\ z.ens = w.ens
      <4>1. <<>> \in RtMaybe(RtOutcomes)
        BY MaybeMade
      <4>2. z = [w EXCEPT !.done = <<>>]
        BY <2>1
      <4> QED BY <4>1, <4>2, Zenon DEF RtWorks
    <3>2. RtBuilds(z)
      BY <3>1 DEF RtJob, RtBuilds, RtBusy
    <3>3. RtTickets(z)
      BY <3>1 DEF RtJob, RtTickets
    <3> QED BY <2>1, <3>1, <3>2, <3>3 DEF RtJob
  <2>2. CASE ~u.analysing
    BY <2>2
  <2> QED BY <2>1, <2>2
<1>2. CASE ~u.analysing \/ w.done = <<>> \/ w.done[1].ticket # u.ticket
  <2>1. v = u
    BY <1>2 DEF poll
  <2>2. RtLink(u, z)
    BY <1>1 DEF RtLink
  <2> QED BY <1>1, <2>1, <2>2
<1>3. CASE u.analysing /\ w.done # <<>> /\ w.done[1].ticket = u.ticket
  <2> PICK d : d = w.done[1]
    OBVIOUS
  <2>1. d \in RtOutcomes
    <3>1. w.done \in RtMaybe(RtOutcomes)
      BY DEF RtWorks
    <3> QED BY <1>3, <3>1, MaybeIs
  <2>2. RtAnswersAsked(u, d) /\ (d.ens # <<>> => RtTrusts(d.ens[1]))
    BY <1>3 DEF RtLink, RtJob
  <2> DEFINE x == IF d.single # <<>> THEN d.single ELSE u.res
  <2>3. v = [u EXCEPT !.res = x, !.ensRes = d.ens, !.analysing = FALSE, !.rev = @ + 1]
    BY <1>3 DEF poll
  <2>4. x \in RtMaybe(RtResults) /\ d.ens \in RtMaybe(RtEnsembles) /\ u.rev + 1 \in Nat /\ FALSE \in BOOLEAN
    BY <2>1 DEF RtOutcomes, RtUis
  <2>5. /\ v \in RtUis /\ v.res = x /\ v.ensRes = d.ens /\ v.analysing = FALSE /\ v.rev = u.rev + 1
        /\ v.sel = u.sel /\ v.set = u.set /\ v.ens = u.ens /\ v.ticket = u.ticket /\ v.swept = u.swept
    <3> HIDE DEF x
    <3> QED BY <2>3, <2>4, Zenon DEF RtUis
  <2>6. RtPane(v)
    <3>1. v.res # <<>> => RtAnswersOne(v, v.res[1])
      <4>1. x # <<>> => RtAnswersOne(u, x[1])
        BY <2>2 DEF RtAnswersAsked, RtPane
      <4> HIDE DEF x
      <4> QED BY <2>5, <4>1 DEF RtAnswersOne
    <3>2. RtNothingDue(v)
      BY <2>2, <2>5 DEF RtAnswersAsked, RtNothingDue
    <3>5. v.res = <<Failure>> <=> d.single = <<Failure>>
      <4>1. u.res # <<Failure>> /\ <<>> # <<Failure>>
        BY <1>3 DEF RtPane
      <4> QED BY <2>5, <4>1
    <3>3. /\ Len(v.ens) < 2 \/ v.res = <<Failure>> => v.ensRes = <<>>
          /\ Len(v.ens) >= 2 /\ v.res # <<Failure>> => v.ensRes # <<>> /\ RtAnswersAll(v, v.ensRes[1])
      <4> HIDE DEF x
      <4> QED BY <2>2, <2>5, <3>5 DEF RtAnswersAsked, RtAnswersAll
    <3>4. v.ensRes # <<>> => RtTrusts(v.ensRes[1])
      <4> HIDE DEF x
      <4> QED BY <2>2, <2>5
    <3> HIDE DEF x
    <3> QED BY <2>5, <3>1, <3>2, <3>3, <3>4 DEF RtPane
  <2>7. RtLink(v, z)
    <3> HIDE DEF x
    <3> QED BY <1>1, <2>5 DEF RtLink
  <2> HIDE DEF x
  <2> QED BY <1>1, <2>5, <2>6, <2>7
<1> QED BY <1>2, <1>3

-------------------------------------------------------------------------------
(* The operator's handlers, the pane's timer and the destructor. *)

\* A handler that changes the question and calls reanalyse.
LEMMA RtAskedStep ==
  ASSUME RtIInv, NEW u \in RtUis, u.ticket = rtUi.ticket, NEW held, Shows(reanalyse(u, rtWork, held)),
         rtIrs' \in Seq(RtIds), Len(rtIrs') <= RtStoreSize
  PROVE  RtIInv' /\ rtUi'.rev = u.rev + 1
<1>1. PICK a : a = reanalyse(u, rtWork, held)
  OBVIOUS
<1>2. rtUi' = a.ui /\ rtWork' = a.work
  BY <1>1 DEF Shows
<1>3. rtWork \in RtWorks /\ RtJob(rtWork) /\ rtWork.newest = u.ticket
  BY DEF RtIInv, RtTypeOK, RtLink
<1>4. /\ a.ui \in RtUis /\ a.work \in RtWorks /\ RtPane(a.ui) /\ RtJob(a.work) /\ RtLink(a.ui, a.work)
      /\ a.ui.rev = u.rev + 1
  BY <1>1, <1>3, ReanalyseIs
<1> QED BY <1>2, <1>4 DEF RtIInv, RtTypeOK

\* The pane with one more request counted, and any part of its question changed.
LEMMA AskedIs ==
  ASSUME RtIInv
  PROVE  /\ Asked \in RtUis /\ Asked.ticket = rtUi.ticket /\ Asked.rev = rtUi.rev /\ Asked.swept = rtUi.swept
         /\ Asked.ens = rtUi.ens /\ Asked.sel = rtUi.sel /\ Asked.set = rtUi.set /\ Asked.res = rtUi.res
         /\ Asked.ensRes = rtUi.ensRes /\ Asked.analysing = rtUi.analysing
<1>1. rtUi \in RtUis
  BY DEF RtIInv, RtTypeOK
<1>2. rtUi.asks + 1 \in Nat
  BY <1>1 DEF RtUis
<1> QED BY <1>1, <1>2, Zenon DEF Asked, RtUis

\* Another sweep picked.
LEMMA RtSelectStep ==
  ASSUME RtIInv, NEW id \in RtIds, RtSelect(id)
  PROVE  RtIInv' /\ rtUi'.rev = rtUi.rev + 1
<1>1. PICK u : u = [Asked EXCEPT !.sel = id]
  OBVIOUS
<1>2. u \in RtUis /\ u.ticket = rtUi.ticket /\ u.rev = rtUi.rev
  BY <1>1, AskedIs DEF RtUis
<1>3. Shows(reanalyse(u, rtWork, rtIrs)) /\ rtIrs' = rtIrs
  BY <1>1 DEF RtSelect
<1>4. rtIrs' \in Seq(RtIds) /\ Len(rtIrs') <= RtStoreSize
  BY <1>3 DEF RtIInv, RtTypeOK
<1> QED BY <1>2, <1>3, <1>4, RtAskedStep

\* Another band set.
LEMMA SetBandSetStep ==
  ASSUME RtIInv, NEW set \in RtSets, setBandSet(set)
  PROVE  RtIInv' /\ rtUi'.rev = rtUi.rev + 1
<1>1. PICK u : u = [Asked EXCEPT !.set = set]
  OBVIOUS
<1>2. u \in RtUis /\ u.ticket = rtUi.ticket /\ u.rev = rtUi.rev
  BY <1>1, AskedIs DEF RtUis
<1>3. Shows(reanalyse(u, rtWork, rtIrs)) /\ rtIrs' = rtIrs
  BY <1>1 DEF setBandSet
<1>4. rtIrs' \in Seq(RtIds) /\ Len(rtIrs') <= RtStoreSize
  BY <1>3 DEF RtIInv, RtTypeOK
<1> QED BY <1>2, <1>3, <1>4, RtAskedStep

\* The ensemble dropped.
LEMMA ClearEnsembleStep ==
  ASSUME RtIInv, clearEnsemble
  PROVE  RtIInv' /\ rtUi'.rev = rtUi.rev + 1
<1>1. PICK u : u = [Asked EXCEPT !.ens = <<>>]
  OBVIOUS
<1>2. u \in RtUis /\ u.ticket = rtUi.ticket /\ u.rev = rtUi.rev
  <2>1. <<>> \in Seq(RtIds)
    OBVIOUS
  <2> QED BY <1>1, <2>1, AskedIs DEF RtUis
<1>3. Shows(reanalyse(u, rtWork, rtIrs)) /\ rtIrs' = rtIrs
  BY <1>1 DEF clearEnsemble
<1>4. rtIrs' \in Seq(RtIds) /\ Len(rtIrs') <= RtStoreSize
  BY <1>3 DEF RtIInv, RtTypeOK
<1> QED BY <1>2, <1>3, <1>4, RtAskedStep

\* A capture ticked, or unticked.
LEMMA ToggleEnsembleStep ==
  ASSUME RtIInv, NEW id \in RtIds, toggleEnsemble(id)
  PROVE  RtIInv' /\ rtUi'.rev = rtUi.rev + 1
<1> DEFINE kept == Kept(rtUi.ens, RtIds \ {id})
           ens == IF Len(kept) < Len(rtUi.ens) THEN kept ELSE Append(rtUi.ens, id)
<1>1. ens \in Seq(RtIds)
  <2>1. rtUi.ens \in Seq(RtIds)
    BY DEF RtIInv, RtTypeOK, RtUis
  <2>2. kept \in Seq(RtIds)
    BY <2>1, KeptType
  <2>3. Append(rtUi.ens, id) \in Seq(RtIds)
    BY <2>1
  <2> HIDE DEF kept
  <2> QED BY <2>2, <2>3
<1>2. PICK u : u = [Asked EXCEPT !.ens = ens]
  OBVIOUS
<1>3. u \in RtUis /\ u.ticket = rtUi.ticket /\ u.rev = rtUi.rev
  <2> HIDE DEF ens
  <2> QED BY <1>1, <1>2, AskedIs DEF RtUis
<1>4. Shows(reanalyse(u, rtWork, rtIrs)) /\ rtIrs' = rtIrs
  <2>1. Asked.ens = rtUi.ens
    BY AskedIs
  <2> QED BY <1>2, <2>1 DEF toggleEnsemble
<1>5. rtIrs' \in Seq(RtIds) /\ Len(rtIrs') <= RtStoreSize
  BY <1>4 DEF RtIInv, RtTypeOK
<1> QED BY <1>3, <1>4, <1>5, RtAskedStep

\* A sweep: the store keeps its bound, and the pane that did not ask for it keeps what it shows.
LEMMA RtSweptStep ==
  ASSUME RtIInv, NEW mine \in BOOLEAN, RtSwept(mine)
  PROVE  /\ RtIInv'
         /\ \/ rtUi'.rev = rtUi.rev + 1
            \/ /\ rtUi'.res = rtUi.res /\ rtUi'.ensRes = rtUi.ensRes
               /\ rtUi'.analysing = rtUi.analysing /\ rtUi'.rev = rtUi.rev
<1> PICK id : id = Cardinality(rtUi.swept) + 1
  OBVIOUS
<1> DEFINE held == IF Len(rtIrs) = RtStoreSize THEN Append(Tail(rtIrs), id) ELSE Append(rtIrs, id)
<1> PICK u : u = [Asked EXCEPT !.swept = @ \cup {id}]
  OBVIOUS
<1>1. id \in RtIds /\ rtIrs' = held
  BY DEF RtSwept
<1>2. held \in Seq(RtIds) /\ Len(held) <= RtStoreSize
  <2>1. rtIrs \in Seq(RtIds) /\ Len(rtIrs) \in Nat /\ Len(rtIrs) <= RtStoreSize /\ RtStoreSize \in Nat \ {0}
    BY RtAssumption DEF RtIInv, RtTypeOK
  <2>2. CASE Len(rtIrs) = RtStoreSize
    <3>1. rtIrs # <<>>
      BY <2>1, <2>2
    <3>2. Tail(rtIrs) \in Seq(RtIds) /\ Len(Tail(rtIrs)) = Len(rtIrs) - 1
      BY <2>1, <3>1
    <3>3. Append(Tail(rtIrs), id) \in Seq(RtIds) /\ Len(Append(Tail(rtIrs), id)) = Len(Tail(rtIrs)) + 1
      BY <1>1, <3>2
    <3> QED BY <2>1, <2>2, <3>2, <3>3
  <2>3. CASE Len(rtIrs) # RtStoreSize
    <3>1. Append(rtIrs, id) \in Seq(RtIds) /\ Len(Append(rtIrs, id)) = Len(rtIrs) + 1
      BY <1>1, <2>1
    <3> QED BY <2>1, <2>3, <3>1
  <2> QED BY <2>2, <2>3
<1>3. /\ u \in RtUis /\ u.ticket = rtUi.ticket /\ u.rev = rtUi.rev /\ u.ens = rtUi.ens /\ u.sel = rtUi.sel
      /\ u.set = rtUi.set /\ u.res = rtUi.res /\ u.ensRes = rtUi.ensRes /\ u.analysing = rtUi.analysing
  <2>1. Asked.swept \cup {id} \in SUBSET RtIds
    BY <1>1, AskedIs DEF RtUis
  <2> QED BY <2>1, AskedIs, Zenon DEF RtUis
<1>4. CASE mine
  <2>1. PICK v : v = [u EXCEPT !.sel = id]
    OBVIOUS
  <2>2. v \in RtUis /\ v.ticket = rtUi.ticket /\ v.rev = rtUi.rev
    BY <1>1, <1>3, <2>1 DEF RtUis
  <2>3. Shows(reanalyse(v, rtWork, held))
    BY <1>4, <2>1 DEF RtSwept
  <2> HIDE DEF held
  <2> QED BY <1>1, <1>2, <2>2, <2>3, RtAskedStep
<1>5. CASE ~mine
  <2>1. rtUi' = u /\ rtWork' = rtWork
    BY <1>5 DEF RtSwept
  <2>2. RtPane(rtUi) /\ RtLink(rtUi, rtWork) /\ RtJob(rtWork) /\ rtWork \in RtWorks
    BY DEF RtIInv, RtTypeOK
  <2>3. RtPane(u)
    BY <1>3, <2>2 DEF RtPane, RtAnswersOne, RtAnswersAll, RtNothingDue
  <2>4. RtLink(u, rtWork)
    BY <1>3, <2>2 DEF RtLink, RtAsks, RtAnswersAsked, RtAnswersOne, RtAnswersAll, RtNothingDue
  <2> HIDE DEF held
  <2> QED BY <1>1, <1>2, <1>3, <2>1, <2>2, <2>3, <2>4 DEF RtIInv, RtTypeOK
<1> QED BY <1>4, <1>5

\* The pane's timer: poll, and reanalyse if a ticked response was evicted.
LEMMA RtRevisionStep ==
  ASSUME RtIInv, RtRevision
  PROVE  /\ RtIInv'
         /\ rtUi'.rev > rtUi.rev \/ rtUi' = rtUi
<1>10. PICK v : v = poll(rtUi, rtWork.done)
  OBVIOUS
<1>11. PICK z : z = IF rtUi.analysing THEN [rtWork EXCEPT !.done = <<>>] ELSE rtWork
  OBVIOUS
<1>1. rtUi \in RtUis /\ rtWork \in RtWorks /\ RtPane(rtUi) /\ RtJob(rtWork) /\ RtLink(rtUi, rtWork)
  BY DEF RtIInv, RtTypeOK
<1>2. /\ v \in RtUis /\ z \in RtWorks /\ RtPane(v) /\ RtJob(z) /\ RtLink(v, z)
      /\ v.rev = rtUi.rev + 1 \/ v = rtUi
  BY <1>1, <1>10, <1>11, PollIs
<1>3. rtUi.rev \in Nat /\ v.rev \in Nat
  BY <1>1, <1>2 DEF RtUis
<1>4. rtIrs' = rtIrs /\ rtIrs \in Seq(RtIds) /\ Len(rtIrs) <= RtStoreSize
  BY DEF RtIInv, RtTypeOK, RtRevision
<1>5. PICK p : p = [ui |-> v, work |-> z]
  OBVIOUS
<1>6. Shows(IF Pruned(rtUi.ens, rtIrs) = rtUi.ens THEN p ELSE reanalyse(p.ui, p.work, rtIrs))
  BY <1>5, <1>10, <1>11 DEF RtRevision
<1>7. p.ui = v /\ p.work = z
  BY <1>5
<1>8. CASE Pruned(rtUi.ens, rtIrs) = rtUi.ens
  <2>1. rtUi' = v /\ rtWork' = z
    BY <1>6, <1>7, <1>8 DEF Shows
  <2> QED BY <1>2, <1>3, <1>4, <2>1 DEF RtIInv, RtTypeOK
<1>9. CASE Pruned(rtUi.ens, rtIrs) # rtUi.ens
  <2>1. PICK a : a = reanalyse(v, z, rtIrs)
    OBVIOUS
  <2>2. rtUi' = a.ui /\ rtWork' = a.work
    BY <1>6, <1>7, <1>9, <2>1 DEF Shows
  <2>3. z.newest = v.ticket
    BY <1>2 DEF RtLink
  <2>4. /\ a.ui \in RtUis /\ a.work \in RtWorks /\ RtPane(a.ui) /\ RtJob(a.work) /\ RtLink(a.ui, a.work)
        /\ a.ui.rev = v.rev + 1
    <3>1. v \in RtUis /\ z \in RtWorks /\ RtJob(z)
      BY <1>2
    <3> QED BY <2>1, <2>3, <3>1, ReanalyseIs
  <2>5. a.ui.rev > rtUi.rev
    BY <1>2, <1>3, <2>4
  <2> QED BY <1>4, <2>2, <2>4, <2>5 DEF RtIInv, RtTypeOK
<1> QED BY <1>8, <1>9

-------------------------------------------------------------------------------
(* The worker's steps. *)

\* A step of the thread, or of the destructor: the pane is as it was.
LEMMA RtWorkerMoves ==
  ASSUME RtIInv, UNCHANGED <<rtIrs, rtUi>>, rtWork' \in RtWorks, RtJob(rtWork'), RtLink(rtUi, rtWork')
  PROVE  RtIInv' /\ rtUi' = rtUi
BY DEF RtIInv, RtTypeOK

\* The destructor cancels: what is being built stays unpublished.
LEMMA RtDestroyStep ==
  ASSUME RtIInv, RtDestroy
  PROVE  RtIInv' /\ rtUi' = rtUi
<1>1. rtWork \in RtWorks /\ RtJob(rtWork) /\ RtLink(rtUi, rtWork)
  BY DEF RtIInv, RtTypeOK
<1> PICK w : w = rtWork
  OBVIOUS
<1> PICK v : v = rtWork'
  OBVIOUS
<1>2. v = [w EXCEPT !.stop = TRUE, !.cancel = TRUE, !.owed = TRUE] /\ UNCHANGED <<rtIrs, rtUi>>
  BY DEF RtDestroy
<1>3. /\ v \in RtWorks /\ v.pc = w.pc /\ v.pending = w.pending /\ v.done = w.done /\ v.newest = w.newest
      /\ v.cancel = TRUE /\ v.req = w.req /\ v.single = w.single /\ v.ens = w.ens
  BY <1>1, <1>2, Zenon DEF RtWorks
<1>4. RtJob(v)
  <2>1. RtBuilds(v)
    BY <1>1, <1>3 DEF RtJob, RtBuilds, RtBusy
  <2>2. RtTickets(v)
    BY <1>1, <1>3 DEF RtJob, RtTickets
  <2> QED BY <1>1, <1>3, <2>1, <2>2 DEF RtJob
<1>5. RtLink(rtUi, v)
  BY <1>1, <1>3 DEF RtLink
<1> QED BY <1>2, <1>3, <1>4, <1>5, RtWorkerMoves

\* The thread takes the request that waits and starts on its capture.
LEMMA RtTakeStep ==
  ASSUME RtIInv, RtTake
  PROVE  RtIInv' /\ rtUi' = rtUi
<1>1. rtWork \in RtWorks /\ RtJob(rtWork) /\ RtLink(rtUi, rtWork)
  BY DEF RtIInv, RtTypeOK
<1> PICK w : w = rtWork
  OBVIOUS
<1> PICK v : v = rtWork'
  OBVIOUS
<1> PICK q : q = w.pending[1]
  OBVIOUS
<1>2. w.pending # <<>> /\ w.pending = <<q>> /\ q \in RtRequests
  <2>1. w.pending \in RtMaybe(RtRequests) /\ w.pending # <<>>
    BY <1>1 DEF RtWorks, RtTake
  <2> QED BY <2>1, MaybeIs
<1>3. q.primary \in RtIds \cup {NoId} /\ q.set \in RtSets
  BY <1>2 DEF RtRequests
<1> DEFINE single == IF q.primary = NoId THEN <<>> ELSE <<analyseStart(q.primary, q.set)>>
<1>4. PICK x : x = single
  OBVIOUS
<1>5. /\ x \in RtMaybe(RtResults) /\ (x = <<>> <=> q.primary = NoId)
      /\ (x # <<>> => x[1].id = q.primary /\ RtFits(x[1], q.set)) /\ x # <<Failure>>
  <2>1. PICK r : r = analyseStart(q.primary, q.set)
    OBVIOUS
  <2>2. r \in RtResults /\ r.id = q.primary /\ RtFits(r, q.set)
    BY <1>3, <2>1, StartFits
  <2>3. x = IF q.primary = NoId THEN <<>> ELSE <<r>>
    BY <1>4, <2>1
  <2>4. <<>> \in RtMaybe(RtResults) /\ <<r>> \in RtMaybe(RtResults) /\ <<r>>[1] = r /\ <<r>> # <<>>
    BY <2>2, MaybeMade
  <2>5. q.primary # NoId => <<r>> # <<Failure>>
    BY <2>2, FailureIs
  <2>6. <<>> # <<Failure>>
    OBVIOUS
  <2> QED BY <2>2, <2>3, <2>4, <2>5, <2>6
<1>6. /\ v = [w EXCEPT !.pc = "single", !.req = w.pending, !.pending = <<>>, !.running = TRUE,
                       !.cancel = FALSE, !.ens = <<>>, !.single = x]
      /\ UNCHANGED <<rtIrs, rtUi>>
  BY <1>4 DEF RtTake
<1>7. /\ v \in RtWorks /\ v.pc = "single" /\ v.pending = <<>> /\ v.done = w.done /\ v.newest = w.newest
      /\ v.req = w.pending /\ v.single = x /\ v.ens = <<>>
  <2>1. /\ w.pending \in RtMaybe(RtRequests) /\ <<>> \in RtMaybe(RtRequests) /\ <<>> \in RtMaybe(RtEnsembles)
        /\ "single" \in RtPcs
    BY <1>1, MaybeMade DEF RtWorks, RtPcs
  <2> QED BY <1>1, <1>5, <1>6, <2>1, ZenonT(40) DEF RtWorks
<1>8. RtJob(v)
  <2>1. RtBuilds(v)
    BY <1>2, <1>5, <1>7 DEF RtBuilds, RtBusy
  <2>2. RtTickets(v)
    BY <1>1, <1>2, <1>7 DEF RtJob, RtTickets
  <2> QED BY <1>1, <1>7, <2>1, <2>2 DEF RtJob
<1>9. RtLink(rtUi, v)
  BY <1>1, <1>7 DEF RtLink
<1> QED BY <1>6, <1>7, <1>8, <1>9, RtWorkerMoves

\* One band of the capture.
LEMMA RtBandStep ==
  ASSUME RtIInv, RtBand
  PROVE  RtIInv' /\ rtUi' = rtUi
<1>1. rtWork \in RtWorks /\ RtJob(rtWork) /\ RtLink(rtUi, rtWork)
  BY DEF RtIInv, RtTypeOK
<1> PICK w : w = rtWork
  OBVIOUS
<1> PICK v : v = rtWork'
  OBVIOUS
<1>2. /\ w.pc = "single" /\ w.single # <<>> /\ ~Finished(w.single[1]) /\ UNCHANGED <<rtIrs, rtUi>>
      /\ w.single # <<Failure>>
  BY <1>1 DEF RtBand, Open, RtJob, RtBuilds, RtBusy
<1> PICK r : r = w.single[1]
  OBVIOUS
<1>3. /\ r \in RtResults /\ r.id = w.req[1].primary /\ r.id # NoId
      /\ r.refusal = "None" /\ r.set = w.req[1].set
  <2>1. r \in RtResults /\ r.refusal = "None"
    BY <1>1, <1>2, MaybeIs DEF RtWorks, Finished
  <2>2. r.id = w.req[1].primary /\ r.id # NoId /\ RtFits(r, w.req[1].set)
    BY <1>1, <1>2 DEF RtJob, RtBuilds, RtBusy
  <2> QED BY <2>1, <2>2 DEF RtFits
<1> PICK x : x = analyseBand(r, Len(r.bands) + 1)
  OBVIOUS
<1>4. x \in RtResults /\ x.id = r.id /\ x.set = r.set
  <2>1. Len(r.bands) + 1 \in Nat
    BY <1>3 DEF RtResults, RtFigures
  <2> QED BY <1>3, <2>1, BandIs
<1>5. v = [w EXCEPT !.single = <<x>>]
  BY DEF RtBand
<1>6. /\ v \in RtWorks /\ v.pc = w.pc /\ v.pending = w.pending /\ v.done = w.done /\ v.newest = w.newest
      /\ v.cancel = w.cancel /\ v.req = w.req /\ v.single = <<x>> /\ v.ens = w.ens
  <2>1. <<x>> \in RtMaybe(RtResults)
    BY <1>4, MaybeMade
  <2> QED BY <1>1, <1>5, <2>1, Zenon DEF RtWorks
<1>7. <<x>>[1] = x /\ <<x>> # <<>> /\ <<x>> # <<Failure>>
  <2>1. x # Failure
    BY <1>3, <1>4, FailureIs
  <2> QED BY <2>1
<1>8. RtJob(v)
  <2>1. RtBuilds(v)
    <3>1. RtFits(x, w.req[1].set) /\ x.id = w.req[1].primary /\ w.req[1].primary # NoId
      BY <1>3, <1>4 DEF RtFits
    <3> QED BY <1>1, <1>2, <1>6, <1>7, <3>1 DEF RtJob, RtBuilds, RtBusy
  <2>2. RtTickets(v)
    BY <1>1, <1>6 DEF RtJob, RtTickets
  <2> QED BY <1>1, <1>6, <2>1, <2>2 DEF RtJob
<1>9. RtLink(rtUi, v)
  BY <1>1, <1>6 DEF RtLink
<1> QED BY <1>2, <1>6, <1>8, <1>9, RtWorkerMoves

\* A request is whole as far as it was built when the thread goes on to the ensemble.
LEMMA RtSingleDoneStep ==
  ASSUME RtIInv, RtSingleDone
  PROVE  RtIInv' /\ rtUi' = rtUi
<1>1. rtWork \in RtWorks /\ RtJob(rtWork) /\ RtLink(rtUi, rtWork)
  BY DEF RtIInv, RtTypeOK
<1> PICK w : w = rtWork
  OBVIOUS
<1> PICK v : v = rtWork'
  OBVIOUS
<1>2. w.pc = "single" /\ ~Open(w.single) /\ UNCHANGED <<rtIrs, rtUi>>
  BY DEF RtSingleDone
<1>3. RtBuilds(w) /\ RtTickets(w) /\ RtBusy(w) /\ w.req # <<>> /\ w.ens = <<>> /\ w.single # <<Failure>>
  BY <1>1, <1>2 DEF RtJob, RtBuilds, RtBusy
<1> PICK q : q = w.req[1]
  OBVIOUS
<1>4. q \in RtRequests /\ q.ensemble \in Seq(RtIds) /\ q.set \in RtSets /\ Len(q.ensemble) \in Nat
  <2>1. q \in RtRequests
    BY <1>1, <1>3, MaybeIs DEF RtWorks
  <2>2. q.ensemble \in Seq(RtIds) /\ q.set \in RtSets
    BY <2>1 DEF RtRequests
  <2> QED BY <2>1, <2>2
<1>5. ~w.cancel /\ w.single # <<>> => Finished(w.single[1])
  BY <1>2 DEF Open
<1>6. CASE Len(q.ensemble) >= 2 /\ ~w.cancel
  <2> PICK e : e = EnsembleStart(q.ensemble, q.set)
    OBVIOUS
  <2>1. e \in RtEnsembles /\ e.ids = q.ensemble /\ e.set = q.set /\ RtTrusts(e)
    BY <1>4, EnsembleStartIs
  <2>2. v = [w EXCEPT !.pc = "ensemble", !.ens = <<e>>]
    BY <1>6 DEF RtSingleDone
  <2>3. /\ v \in RtWorks /\ v.pc = "ensemble" /\ v.pending = w.pending /\ v.done = w.done /\ v.newest = w.newest
        /\ v.cancel = w.cancel /\ v.req = w.req /\ v.single = w.single /\ v.ens = <<e>>
    <3>1. <<e>> \in RtMaybe(RtEnsembles) /\ "ensemble" \in RtPcs
      BY <2>1, MaybeMade DEF RtPcs
    <3> QED BY <1>1, <2>2, <3>1, Zenon DEF RtWorks
  <2>4. <<e>>[1] = e /\ <<e>> # <<>>
    OBVIOUS
  <2>5. RtBuilds(v)
    BY <1>3, <1>5, <1>6, <2>1, <2>3, <2>4 DEF RtBuilds, RtBusy
  <2>6. RtTickets(v)
    BY <1>3, <2>3 DEF RtTickets
  <2>7. RtJob(v)
    BY <1>1, <2>1, <2>3, <2>4, <2>5, <2>6 DEF RtJob
  <2>8. RtLink(rtUi, v)
    BY <1>1, <2>3 DEF RtLink
  <2> QED BY <1>2, <2>3, <2>7, <2>8, RtWorkerMoves
<1>7. CASE ~(Len(q.ensemble) >= 2 /\ ~w.cancel)
  <2>1. v = [w EXCEPT !.pc = "publish"]
    BY <1>7 DEF RtSingleDone
  <2>2. /\ v \in RtWorks /\ v.pc = "publish" /\ v.pending = w.pending /\ v.done = w.done /\ v.newest = w.newest
        /\ v.cancel = w.cancel /\ v.req = w.req /\ v.single = w.single /\ v.ens = <<>>
    <3>1. "publish" \in RtPcs
      BY DEF RtPcs
    <3> QED BY <1>1, <1>3, <2>1, <3>1, Zenon DEF RtWorks
  <2>3. RtBuilds(v)
    BY <1>3, <1>5, <1>7, <2>2 DEF RtBuilds, RtBusy
  <2>4. RtTickets(v)
    BY <1>3, <2>2 DEF RtTickets
  <2>5. RtJob(v)
    BY <1>1, <2>2, <2>3, <2>4 DEF RtJob
  <2>6. RtLink(rtUi, v)
    BY <1>1, <2>2 DEF RtLink
  <2> QED BY <1>2, <2>2, <2>5, <2>6, RtWorkerMoves
<1> QED BY <1>6, <1>7

\* One band of the ensemble: trusted only where every capture trusts it.
LEMMA RtEnsembleBandStep ==
  ASSUME RtIInv, RtEnsembleBand
  PROVE  RtIInv' /\ rtUi' = rtUi
<1>1. rtWork \in RtWorks /\ RtJob(rtWork) /\ RtLink(rtUi, rtWork)
  BY DEF RtIInv, RtTypeOK
<1> PICK w : w = rtWork
  OBVIOUS
<1> PICK v : v = rtWork'
  OBVIOUS
<1>2. w.pc = "ensemble" /\ w.ens # <<>> /\ ~Finished(w.ens[1]) /\ UNCHANGED <<rtIrs, rtUi>>
  BY DEF RtEnsembleBand, Open
<1> PICK e : e = w.ens[1]
  OBVIOUS
<1>3. e \in RtEnsembles /\ RtTrusts(e)
  <2>1. e \in RtEnsembles
    BY <1>1, <1>2, MaybeIs DEF RtWorks
  <2>2. RtTrusts(e)
    BY <1>1, <1>2 DEF RtJob
  <2> QED BY <2>1, <2>2
<1> PICK x : x = EnsembleNextBand(e, Len(e.bands) + 1)
  OBVIOUS
<1>4. x \in RtEnsembles /\ x.ids = e.ids /\ x.set = e.set /\ RtTrusts(x)
  <2>1. e.refusal = "None" /\ Len(e.bands) # Len(RtBands[e.set])
    BY <1>2 DEF Finished
  <2>2. Len(e.bands) + 1 \in DOMAIN RtBands[e.set]
    <3>1. PICK s : s = RtBands[e.set]
      OBVIOUS
    <3>2. s \in Seq([low : Nat, high : Nat]) /\ Len(e.bands) \in Nat
      BY <1>3, <3>1, RtGiven DEF RtEnsembles, RtFigures
    <3>3. DOMAIN s = 1..Len(s) /\ Len(s) \in Nat
      BY <3>2
    <3>4. Len(e.bands) <= Len(s)
      BY <1>3, <2>1, <3>1 DEF RtTrusts
    <3>5. Len(e.bands) # Len(s)
      BY <2>1, <3>1
    <3>6. Len(e.bands) + 1 \in 1..Len(s)
      <4>1. PICK m \in Nat : m = Len(e.bands)
        BY <3>2
      <4>2. PICK n \in Nat : n = Len(s)
        BY <3>3
      <4>3. m <= n /\ m # n
        BY <3>4, <3>5, <4>1, <4>2
      <4>4. m + 1 \in 1..n
        BY <4>3
      <4> QED BY <4>1, <4>2, <4>4
    <3> QED BY <3>1, <3>3, <3>6
  <2> QED BY <1>3, <2>1, <2>2, EnsembleBandIs
<1>5. v = [w EXCEPT !.ens = <<x>>]
  BY DEF RtEnsembleBand
<1>6. /\ v \in RtWorks /\ v.pc = w.pc /\ v.pending = w.pending /\ v.done = w.done /\ v.newest = w.newest
      /\ v.cancel = w.cancel /\ v.req = w.req /\ v.single = w.single /\ v.ens = <<x>>
  <2>1. <<x>> \in RtMaybe(RtEnsembles)
    BY <1>4, MaybeMade
  <2> QED BY <1>1, <1>5, <2>1, Zenon DEF RtWorks
<1>7. <<x>>[1] = x /\ <<x>> # <<>>
  OBVIOUS
<1>8. RtJob(v)
  <2>1. RtBuilds(v)
    BY <1>1, <1>2, <1>4, <1>6, <1>7 DEF RtJob, RtBuilds, RtBusy
  <2>2. RtTickets(v)
    BY <1>1, <1>6 DEF RtJob, RtTickets
  <2> QED BY <1>1, <1>4, <1>6, <1>7, <2>1, <2>2 DEF RtJob
<1>9. RtLink(rtUi, v)
  BY <1>1, <1>6 DEF RtLink
<1> QED BY <1>2, <1>6, <1>8, <1>9, RtWorkerMoves

\* The ensemble is whole, unless it was cancelled.
LEMMA RtEnsembleDoneStep ==
  ASSUME RtIInv, RtEnsembleDone
  PROVE  RtIInv' /\ rtUi' = rtUi
<1>1. rtWork \in RtWorks /\ RtJob(rtWork) /\ RtLink(rtUi, rtWork)
  BY DEF RtIInv, RtTypeOK
<1> PICK w : w = rtWork
  OBVIOUS
<1> PICK v : v = rtWork'
  OBVIOUS
<1>2. w.pc = "ensemble" /\ ~Open(w.ens) /\ UNCHANGED <<rtIrs, rtUi>> /\ v = [w EXCEPT !.pc = "publish"]
  BY DEF RtEnsembleDone
<1>3. /\ v \in RtWorks /\ v.pc = "publish" /\ v.pending = w.pending /\ v.done = w.done /\ v.newest = w.newest
      /\ v.cancel = w.cancel /\ v.req = w.req /\ v.single = w.single /\ v.ens = w.ens
  <2>1. "publish" \in RtPcs
    BY DEF RtPcs
  <2> QED BY <1>1, <1>2, <2>1, Zenon DEF RtWorks
<1>4. RtJob(v)
  <2>1. RtBuilds(w) /\ RtBusy(w)
    BY <1>1, <1>2 DEF RtJob, RtBusy
  <2>2. ~w.cancel => Finished(w.ens[1])
    BY <1>2, <2>1 DEF Open, RtBuilds
  <2>3. Len(w.req[1].ensemble) \in Nat /\ Len(w.req[1].ensemble) >= 2
    <3>1. w.req[1] \in RtRequests
      BY <1>1, <2>1, MaybeIs DEF RtWorks, RtBuilds
    <3>2. w.req[1].ensemble \in Seq(RtIds)
      BY <3>1 DEF RtRequests
    <3>3. Len(w.req[1].ensemble) >= 2
      BY <1>2, <2>1 DEF RtBuilds
    <3> QED BY <3>2, <3>3
  <2>4. RtBuilds(v)
    BY <1>2, <1>3, <2>1, <2>2, <2>3 DEF RtBuilds, RtBusy
  <2>5. RtTickets(v)
    BY <1>1, <1>3 DEF RtJob, RtTickets
  <2> QED BY <1>1, <1>3, <2>4, <2>5 DEF RtJob
<1>5. RtLink(rtUi, v)
  BY <1>1, <1>3 DEF RtLink
<1> QED BY <1>2, <1>3, <1>4, <1>5, RtWorkerMoves

\* What is published under the newest ticket, uncancelled, is the answer to the present question.
LEMMA RtPublishStep ==
  ASSUME RtIInv, RtPublish
  PROVE  RtIInv' /\ rtUi' = rtUi
<1>1. rtWork \in RtWorks /\ RtJob(rtWork) /\ RtLink(rtUi, rtWork) /\ rtUi \in RtUis
  BY DEF RtIInv, RtTypeOK
<1> PICK w : w = rtWork
  OBVIOUS
<1> PICK v : v = rtWork'
  OBVIOUS
<1> PICK q : q = w.req[1]
  OBVIOUS
<1>2. w.pc = "publish" /\ UNCHANGED <<rtIrs, rtUi>> /\ RtBuilds(w) /\ RtTickets(w) /\ RtBusy(w) /\ w.req # <<>>
  BY <1>1 DEF RtPublish, RtJob, RtBuilds, RtBusy
<1>3. q \in RtRequests /\ q.ticket \in Nat /\ q.ensemble \in Seq(RtIds) /\ Len(q.ensemble) \in Nat
  <2>1. q \in RtRequests
    BY <1>1, <1>2, MaybeIs DEF RtWorks
  <2>2. q.ticket \in Nat /\ q.ensemble \in Seq(RtIds)
    BY <2>1 DEF RtRequests
  <2> QED BY <2>1, <2>2
<1>11. PICK d : d = [ticket |-> q.ticket, single |-> w.single, ens |-> w.ens]
  OBVIOUS
<1>4. d \in RtOutcomes /\ d.ticket = q.ticket /\ d.single = w.single /\ d.ens = w.ens
  BY <1>1, <1>3, <1>11 DEF RtOutcomes, RtWorks
<1> DEFINE keep == ~w.stop /\ w.pending = <<>> /\ ~w.cancel /\ q.ticket = w.newest
<1>10. PICK x : x = IF keep THEN <<d>> ELSE w.done
  OBVIOUS
<1>5. v = [w EXCEPT !.pc = "wait", !.running = FALSE, !.req = <<>>, !.single = <<>>, !.ens = <<>>, !.done = x]
  BY <1>10, <1>11 DEF RtPublish
<1>6. /\ v \in RtWorks /\ v.pc = "wait" /\ v.pending = w.pending /\ v.done = x /\ v.newest = w.newest
      /\ v.req = <<>> /\ v.single = <<>> /\ v.ens = <<>>
  <2>1. x \in RtMaybe(RtOutcomes)
    BY <1>1, <1>4, <1>10, MaybeMade DEF RtWorks
  <2>2. /\ <<>> \in RtMaybe(RtRequests) /\ <<>> \in RtMaybe(RtResults) /\ <<>> \in RtMaybe(RtEnsembles)
        /\ "wait" \in RtPcs /\ FALSE \in BOOLEAN
    BY MaybeMade DEF RtPcs
  <2> QED BY <1>1, <1>5, <2>1, <2>2, ZenonT(40) DEF RtWorks
<1>7. <<d>>[1] = d /\ <<d>> # <<>>
  OBVIOUS
<1>8. RtJob(v)
  <2>1. RtBuilds(v)
    BY <1>6 DEF RtBuilds, RtBusy
  <2>2. x # <<>> => x[1].ticket <= w.newest /\ (x[1].ens # <<>> => RtTrusts(x[1].ens[1]))
    <3>1. w.newest \in Nat
      BY <1>1 DEF RtWorks
    <3>2. CASE keep
      <4>1. x = <<d>> /\ d.ticket = w.newest
        BY <1>4, <1>10, <3>2
      <4>2. d.ens # <<>> => RtTrusts(d.ens[1])
        BY <1>1, <1>4 DEF RtJob
      <4> QED BY <1>7, <3>1, <4>1, <4>2
    <3>3. CASE ~keep
      BY <1>1, <1>10, <3>3 DEF RtJob, RtTickets
    <3> QED BY <3>2, <3>3
  <2>3. RtTickets(v)
    BY <1>2, <1>6, <2>2 DEF RtTickets
  <2> QED BY <1>6, <2>1, <2>2, <2>3 DEF RtJob
<1>9. RtLink(rtUi, v)
  <2>1. keep /\ rtUi.analysing => RtAnswersAsked(rtUi, d)
    <3>1. SUFFICES ASSUME keep, rtUi.analysing PROVE RtAnswersAsked(rtUi, d)
      OBVIOUS
    <3>2. RtAsks(rtUi, q)
      BY <1>1, <1>2, <3>1 DEF RtLink
    <3>3. Len(rtUi.ens) \in Nat
      BY <1>1 DEF RtUis
    <3>8. d.single = <<Failure>> => d.single # <<>> /\ d.single[1] = Failure
      OBVIOUS
    <3>4. d.single # <<>> => RtAnswersOne(rtUi, d.single[1])
      <4>1. CASE d.single = <<Failure>>
        BY <3>8, <4>1, FailureIs DEF RtAnswersOne
      <4>2. CASE d.single # <<Failure>>
        BY <1>2, <1>4, <3>1, <3>2, <4>2 DEF RtBuilds, RtAsks, RtAnswersOne
      <4> QED BY <4>1, <4>2
    <3>5. d.single = <<>> => RtNothingDue(rtUi)
      BY <1>2, <1>4, <3>2, <3>8 DEF RtBuilds, RtAsks
    <3>6. Len(rtUi.ens) < 2 => d.ens = <<>>
      <4>1. SUFFICES ASSUME Len(rtUi.ens) < 2 PROVE d.ens = <<>>
        OBVIOUS
      <4>2. q.ensemble = <<>>
        BY <3>2, <3>3, <4>1 DEF RtAsks
      <4>3. Len(q.ensemble) < 2
        BY <4>2
      <4> QED BY <1>2, <1>4, <4>3 DEF RtBuilds
    <3>7. Len(rtUi.ens) >= 2 /\ d.single # <<Failure>> => d.ens # <<>> /\ RtAnswersAll(rtUi, d.ens[1])
      BY <1>2, <1>4, <3>1, <3>2 DEF RtBuilds, RtAsks, RtAnswersAll
    <3>9. d.single = <<Failure>> => d.ens = <<>>
      BY <1>2, <1>4 DEF RtBuilds
    <3> QED BY <3>4, <3>5, <3>6, <3>7, <3>9 DEF RtAnswersAsked
  <2>2. rtUi.analysing /\ x # <<>> /\ x[1].ticket = rtUi.ticket => RtAnswersAsked(rtUi, x[1])
    <3>1. CASE keep
      BY <1>7, <1>10, <2>1, <3>1
    <3>2. CASE ~keep
      BY <1>1, <1>10, <3>2 DEF RtLink
    <3> QED BY <3>1, <3>2
  <2> QED BY <1>1, <1>6, <2>2 DEF RtLink
<1> QED BY <1>2, <1>6, <1>8, <1>9, RtWorkerMoves

\* The thread falls asleep, or is woken: no request and no answer moves.
LEMMA RtDozeStep ==
  ASSUME RtIInv, RtSleep \/ RtWakeSpuriously \/ RtNotify
  PROVE  RtIInv' /\ rtUi' = rtUi
<1>1. rtWork \in RtWorks /\ RtJob(rtWork) /\ RtLink(rtUi, rtWork)
  BY DEF RtIInv, RtTypeOK
<1> PICK w : w = rtWork
  OBVIOUS
<1> PICK v : v = rtWork'
  OBVIOUS
<1>2. PICK pc, owed : /\ v = [w EXCEPT !.owed = owed, !.pc = pc] /\ owed \in BOOLEAN
                      /\ pc = w.pc \/ (pc \in {"wait", "asleep"} /\ w.pc \in {"wait", "asleep"})
  <2>1. w.owed \in BOOLEAN /\ w.owed = w.owed /\ w.pc = w.pc
    BY <1>1 DEF RtWorks
  <2>2. CASE RtSleep
    <3>1. v = [w EXCEPT !.pc = "asleep"] /\ w.pc = "wait"
      BY <2>2 DEF RtSleep
    <3>2. v = [w EXCEPT !.owed = w.owed, !.pc = "asleep"]
      BY <1>1, <3>1 DEF RtWorks
    <3> QED BY <2>1, <3>1, <3>2
  <2>3. CASE RtWakeSpuriously
    <3>1. v = [w EXCEPT !.pc = "wait"] /\ w.pc = "asleep"
      BY <2>3 DEF RtWakeSpuriously
    <3>2. v = [w EXCEPT !.owed = w.owed, !.pc = "wait"]
      BY <1>1, <3>1 DEF RtWorks
    <3> QED BY <2>1, <3>1, <3>2
  <2>4. CASE RtNotify
    <3>1. v = [w EXCEPT !.owed = FALSE, !.pc = IF w.pc = "asleep" THEN "wait" ELSE w.pc]
      BY <2>4 DEF RtNotify
    <3>2. CASE w.pc = "asleep"
      BY <3>1, <3>2
    <3>3. CASE w.pc # "asleep"
      BY <3>1, <3>3
    <3> QED BY <3>2, <3>3
  <2> QED BY <2>2, <2>3, <2>4
<1>3. UNCHANGED <<rtIrs, rtUi>>
  BY DEF RtSleep, RtWakeSpuriously, RtNotify
<1>4. /\ v \in RtWorks /\ v.pc = pc /\ v.pending = w.pending /\ v.done = w.done /\ v.newest = w.newest
      /\ v.cancel = w.cancel /\ v.req = w.req /\ v.single = w.single /\ v.ens = w.ens
  <2>1. pc \in RtPcs
    BY <1>1, <1>2 DEF RtPcs, RtWorks
  <2> QED BY <1>1, <1>2, <2>1, Zenon DEF RtWorks
<1>5. RtJob(v)
  <2>1. RtBuilds(v)
    <3>1. CASE pc = w.pc
      BY <1>1, <1>4, <3>1 DEF RtJob, RtBuilds, RtBusy
    <3>2. CASE pc \in {"wait", "asleep"}
      BY <1>4, <3>2 DEF RtBuilds, RtBusy
    <3> QED BY <1>2, <3>1, <3>2
  <2>2. RtTickets(v)
    BY <1>1, <1>4 DEF RtJob, RtTickets
  <2> QED BY <1>1, <1>4, <2>1, <2>2 DEF RtJob
<1>6. RtLink(rtUi, v)
  BY <1>1, <1>4 DEF RtLink
<1> QED BY <1>3, <1>4, <1>5, <1>6, RtWorkerMoves

\* An analysis that ends in an exception: the failure stands for its answer.
LEMMA RtThrowStep ==
  ASSUME RtIInv, RtThrow
  PROVE  RtIInv' /\ rtUi' = rtUi
<1>1. rtWork \in RtWorks /\ RtJob(rtWork) /\ RtLink(rtUi, rtWork)
  BY DEF RtIInv, RtTypeOK
<1> PICK w : w = rtWork
  OBVIOUS
<1> PICK v : v = rtWork'
  OBVIOUS
<1>2. /\ UNCHANGED <<rtIrs, rtUi>> /\ RtBusy(w)
      /\ v = [w EXCEPT !.pc = "publish", !.single = <<Failure>>, !.ens = <<>>]
  BY DEF RtThrow, RtBusy
<1>3. /\ v \in RtWorks /\ v.pc = "publish" /\ v.pending = w.pending /\ v.done = w.done /\ v.newest = w.newest
      /\ v.cancel = w.cancel /\ v.req = w.req /\ v.single = <<Failure>> /\ v.ens = <<>>
  <2>1. "publish" \in RtPcs /\ <<Failure>> \in RtMaybe(RtResults) /\ <<>> \in RtMaybe(RtEnsembles)
    BY FailureIs, MaybeMade DEF RtPcs
  <2> QED BY <1>1, <1>2, <2>1, Zenon DEF RtWorks
<1>4. RtJob(v)
  <2>1. RtBuilds(v)
    <3>1. w.req # <<>> /\ <<Failure>>[1] = Failure /\ Finished(Failure)
      BY <1>1, <1>2, FailureIs DEF RtJob, RtBuilds
    <3> QED BY <1>3, <3>1 DEF RtBuilds, RtBusy
  <2>2. RtTickets(v)
    BY <1>1, <1>3 DEF RtJob, RtTickets
  <2> QED BY <1>1, <1>3, <2>1, <2>2 DEF RtJob
<1>5. RtLink(rtUi, v)
  BY <1>1, <1>3 DEF RtLink
<1> QED BY <1>2, <1>3, <1>4, <1>5, RtWorkerMoves

\* The thread ends.
LEMMA RtExitStep ==
  ASSUME RtIInv, RtExit
  PROVE  RtIInv' /\ rtUi' = rtUi
<1>1. rtWork \in RtWorks /\ RtJob(rtWork) /\ RtLink(rtUi, rtWork)
  BY DEF RtIInv, RtTypeOK
<1> PICK w : w = rtWork
  OBVIOUS
<1> PICK v : v = rtWork'
  OBVIOUS
<1>2. UNCHANGED <<rtIrs, rtUi>> /\ v = [w EXCEPT !.pc = "ended"]
  BY DEF RtExit
<1>3. /\ v \in RtWorks /\ v.pc = "ended" /\ v.pending = w.pending /\ v.done = w.done /\ v.newest = w.newest
      /\ v.cancel = w.cancel /\ v.req = w.req /\ v.single = w.single /\ v.ens = w.ens
  <2>1. "ended" \in RtPcs
    BY DEF RtPcs
  <2> QED BY <1>1, <1>2, <2>1, Zenon DEF RtWorks
<1>4. RtJob(v)
  <2>1. RtBuilds(v)
    BY <1>3 DEF RtBuilds, RtBusy
  <2>2. RtTickets(v)
    BY <1>1, <1>3 DEF RtJob, RtTickets
  <2> QED BY <1>1, <1>3, <2>1, <2>2 DEF RtJob
<1>5. RtLink(rtUi, v)
  BY <1>1, <1>3 DEF RtLink
<1> QED BY <1>2, <1>3, <1>4, <1>5, RtWorkerMoves

-------------------------------------------------------------------------------
\* Nothing is selected, stored or asked at the start.
LEMMA RtInitIInv == RtInit => RtIInv
<1> SUFFICES ASSUME RtInit PROVE RtIInv
  OBVIOUS
<1>1. rtIrs \in Seq(RtIds) /\ Len(rtIrs) <= RtStoreSize
  BY RtAssumption DEF RtInit
<1>2. "Octave" \in RtSets
  BY RtAssumption
<1>3. /\ <<>> \in RtMaybe(RtResults) /\ <<>> \in RtMaybe(RtEnsembles) /\ <<>> \in RtMaybe(RtRequests)
      /\ <<>> \in RtMaybe(RtOutcomes) /\ <<>> \in Seq(RtIds)
  BY MaybeMade
<1>4. rtUi \in RtUis
  BY <1>2, <1>3 DEF RtInit, RtUis
<1>5. rtWork \in RtWorks
  BY <1>3 DEF RtInit, RtWorks, RtPcs
<1>6. /\ rtUi.sel = NoId /\ rtUi.ens = <<>> /\ rtUi.res = <<>> /\ rtUi.ensRes = <<>> /\ rtUi.analysing = FALSE
      /\ rtUi.ticket = 0
  BY DEF RtInit
<1>7. /\ rtWork.pc = "none" /\ rtWork.pending = <<>> /\ rtWork.done = <<>> /\ rtWork.newest = 0
      /\ rtWork.req = <<>> /\ rtWork.ens = <<>>
  BY DEF RtInit
<1>8. RtPane(rtUi)
  <2>1. Len(rtUi.ens) = 0
    BY <1>6
  <2> QED BY <1>6, <2>1 DEF RtPane, RtNothingDue
<1>9. RtJob(rtWork)
  BY <1>7 DEF RtJob, RtBuilds, RtBusy, RtTickets
<1>10. RtLink(rtUi, rtWork)
  BY <1>6, <1>7 DEF RtLink
<1> QED BY <1>1, <1>4, <1>5, <1>8, <1>9, <1>10 DEF RtIInv, RtTypeOK

\* A step shows something else only under a later revision.
RtTold ==
  \/ rtUi'.rev > rtUi.rev
  \/ /\ rtUi'.res = rtUi.res /\ rtUi'.ensRes = rtUi.ensRes /\ rtUi'.analysing = rtUi.analysing

\* Every step keeps the inductive invariant and tells of what it changes.
LEMMA RtStep == RtIInv /\ [RtNext]_rtVars => RtIInv' /\ RtTold
<1> SUFFICES ASSUME RtIInv, [RtNext]_rtVars PROVE RtIInv' /\ RtTold
  OBVIOUS
<1>1. rtUi.rev \in Nat
  BY DEF RtIInv, RtTypeOK, RtUis
<1>2. rtUi'.rev = rtUi.rev + 1 => rtUi'.rev > rtUi.rev
  BY <1>1
<1>3. ASSUME NEW mine \in BOOLEAN, RtSwept(mine) PROVE RtIInv' /\ RtTold
  BY <1>2, <1>3, RtSweptStep DEF RtTold
<1>4. ASSUME NEW id \in RtIds, RtSelect(id) \/ toggleEnsemble(id) PROVE RtIInv' /\ RtTold
  BY <1>2, <1>4, RtSelectStep, ToggleEnsembleStep DEF RtTold
<1>5. ASSUME NEW set \in RtSets, setBandSet(set) PROVE RtIInv' /\ RtTold
  BY <1>2, <1>5, SetBandSetStep DEF RtTold
<1>6. CASE clearEnsemble
  BY <1>2, <1>6, ClearEnsembleStep DEF RtTold
<1>7. CASE RtRevision
  BY <1>7, RtRevisionStep DEF RtTold
<1>8. CASE RtDestroy
  BY <1>8, RtDestroyStep DEF RtTold
<1>9. CASE RtWorker
  <2>1. RtIInv' /\ rtUi' = rtUi
    BY <1>9, RtTakeStep, RtBandStep, RtSingleDoneStep, RtEnsembleBandStep, RtEnsembleDoneStep,
       RtPublishStep, RtExitStep, RtDozeStep, RtThrowStep DEF RtWorker
  <2> QED BY <2>1 DEF RtTold
<1>11. CASE RtNotify \/ RtWakeSpuriously
  BY <1>11, RtDozeStep DEF RtTold
<1>10. CASE UNCHANGED rtVars
  BY <1>10 DEF RtIInv, RtTypeOK, RtTold, rtVars
<1> QED BY <1>3, <1>4, <1>5, <1>6, <1>7, <1>8, <1>9, <1>10, <1>11 DEF RtNext

\* The invariant gives what the run checks.
LEMMA RtIInvInv == RtIInv => RtInv
<1> SUFFICES ASSUME RtIInv PROVE RtInv
  OBVIOUS
<1>1. rtUi \in RtUis /\ RtPane(rtUi)
  BY DEF RtIInv, RtTypeOK
<1> PICK u : u = rtUi
  OBVIOUS
<1>2. RtShownIsAsked
  <2>1. SUFFICES ASSUME ~u.analysing
                 PROVE  /\ u.sel # NoId => u.res # <<>>
                        /\ u.res # <<>> => RtAnswersOne(u, u.res[1]) /\ u.res = <<u.res[1]>>
                        /\ Len(u.ens) < 2 \/ u.res = <<Failure>> => u.ensRes = <<>>
                        /\ ~(Len(u.ens) < 2 \/ u.res = <<Failure>>) =>
                             Len(u.ensRes) = 1 /\ RtAnswersAll(u, u.ensRes[1])
    BY DEF RtShownIsAsked, RtAnswersOne, RtAnswersAll, RtFits
  <2>2. ~(Len(u.ens) < 2) => Len(u.ens) >= 2
    BY <1>1 DEF RtUis
  <2>3. u.ensRes # <<>> => Len(u.ensRes) = 1
    <3>1. u.ensRes \in RtMaybe(RtEnsembles)
      BY <1>1 DEF RtUis
    <3> QED BY <3>1 DEF RtMaybe
  <2>4. u.res # <<>> => u.res = <<u.res[1]>>
    BY <1>1, MaybeIs DEF RtUis
  <2> QED BY <1>1, <2>1, <2>2, <2>3, <2>4 DEF RtPane, RtNothingDue
<1>3. RtEnsembleTrusted
  <2>1. ASSUME NEW e \in Range(u.ensRes) PROVE RtTrusts(e)
    <3>1. u.ensRes \in RtMaybe(RtEnsembles)
      BY <1>1 DEF RtUis
    <3>2. e = u.ensRes[1] /\ u.ensRes # <<>>
      BY <3>1 DEF RtMaybe, Range
    <3> QED BY <1>1, <3>2 DEF RtPane
  <2>2. ASSUME NEW e \in Range(rtUi.ensRes), e.refusal = "None", NEW i \in DOMAIN e.ids, NEW b \in Range(e.bands)
        PROVE  /\ RtIrOf[e.ids[i]].rate = RtIrOf[e.ids[1]].rate
               /\ b.trusted => insideTrustedBand(RtBands[e.set][b.band], RtIrOf[e.ids[i]].low, RtIrOf[e.ids[i]].high)
    <3>1. RtTrusts(e)
      BY <2>1
    <3>2. PICK j \in DOMAIN e.bands : b = e.bands[j]
      BY DEF Range
    <3> QED BY <2>2, <3>1, <3>2 DEF RtTrusts
  <2> QED BY <2>2 DEF RtEnsembleTrusted
<1>4. RtWindowInside
  <2>1. \A id \in rtUi.swept : RtIrOf[id] \in RtIrs
    BY <1>1, RtGiven DEF RtUis
  <2> QED BY <2>1, CropInside DEF RtWindowInside
<1> QED BY <1>2, <1>3, <1>4 DEF RtInv

\* The store, the pane and the worker keep their types, and the store its capacity (IrStore, Rt60Worker.h).
THEOREM RtTypesHold == RtSpec => []RtTypeOK
<1>1. RtIInv => RtTypeOK
  BY DEF RtIInv
<1>2. RtIInv /\ [RtNext]_rtVars => RtIInv'
  BY RtStep
<1> QED BY <1>1, <1>2, RtInitIInv, PTL DEF RtSpec

\* RtInv, for any captures, bands, store and ensemble size and however often the operator asks: what the
\* pane shows once it no longer says ANALYSING is the whole answer to what it asks now, from an ensemble
\* that may be trusted, over a window inside the record (MainComponentRt60.cpp:81-131, Rt60Worker.cpp).
THEOREM RtShowsTheAnswer == RtSpec => []RtInv
<1>1. RtIInv /\ [RtNext]_rtVars => RtIInv'
  BY RtStep
<1> QED BY <1>1, RtInitIInv, RtIInvInv, PTL DEF RtSpec

\* No step changes what the pane shows under a revision it has shown (MainComponentRt60.cpp:171-181).
THEOREM RtTellsOfChanges == RtSpec => RtRevisionTells
<1>1. RtIInv /\ [RtNext]_rtVars => RtIInv'
  BY RtStep
<1>2. RtIInv /\ [RtNext]_rtVars =>
        [<<rtUi.res, rtUi.ensRes, rtUi.analysing>>' # <<rtUi.res, rtUi.ensRes, rtUi.analysing>>
         => rtUi'.rev > rtUi.rev]_rtVars
  BY RtStep DEF RtTold
<1> QED BY <1>1, <1>2, RtInitIInv, PTL DEF RtSpec, RtRevisionTells

-------------------------------------------------------------------------------
(* TraceStore: the lemmas about lists and shades. *)

\* Min of naturals.
LEMMA MinNat ==
  ASSUME NEW S \in SUBSET Nat, S # {}
  PROVE  Min(S) \in S /\ \A y \in S : Min(S) <= y
BY LeastNat DEF Min

-------------------------------------------------------------------------------
(* TraceStore: the inductive invariant. *)

StTraces == {t \in [id : Nat, data : Nat, fftSize : Nat, points : Nat] : t.points = pointCountFor(t.fftSize)}
StEntries == [trace : StTraces, name : Nat, group : {"RTA", "TRANSFER", "SWEEP"}, shade : Nat]
StTakenFields == {"captures", "run", "saves", "opens", "committed", "torn", "opened"}

\* A document: no id twice, and in a group no shade twice.
Distinct(l) ==
  \A i, j \in DOMAIN l : /\ l[i].trace.id = l[j].trace.id => i = j
                         /\ l[i].group = l[j].group /\ l[i].shade = l[j].shade => i = j

StTypes ==
  /\ lib \in Seq(StEntries) /\ irs \in Seq([id : Nat, data : Nat]) /\ Len(irs) <= IrCapacity
  /\ save \in [pc : {"idle", "blob", "rename", "commit"}, k : Nat, doc : Seq(StEntries)]
  /\ DOMAIN folder = {"saved", "index", "blobs"} /\ folder.saved \in BOOLEAN /\ folder.index \in Seq(StEntries)
  /\ \A id \in DOMAIN folder.blobs : folder.blobs[id] \in StTraces
  /\ DOMAIN taken = StTakenFields /\ taken.torn \in BOOLEAN
  /\ taken.captures \in Nat /\ taken.captures <= MaxCaptures /\ counter \in Nat /\ counter <= taken.captures

\* The blobs of a document are on disk, and they are its traces.
OnDisk(d) == \A i \in DOMAIN d : d[i].trace.id \in DOMAIN folder.blobs
AsWritten(d) == \A i \in DOMAIN d : folder.blobs[d[i].trace.id] = d[i].trace

\* A save has written, of the entries before the one it is at, those of its document.
StSaving ==
  /\ save.pc = "idle" => save = Idle
  /\ save.pc # "idle" => save.k >= 1
  /\ save.pc = "rename" => save.k <= Len(lib)
  /\ \A i \in DOMAIN save.doc : \E m \in DOMAIN lib : m < save.k /\ save.doc[i] = lib[m]
  /\ Distinct(save.doc) /\ OnDisk(save.doc) /\ AsWritten(save.doc)

\* The index names blobs that are there; they are its traces until a save overwrites another run's.
StFolder ==
  /\ folder.saved \/ folder.index = <<>>
  /\ folder.saved => folder.index = taken.committed
  /\ Distinct(folder.index) /\ OnDisk(folder.index) /\ (~taken.torn => AsWritten(folder.index))

\* The responses and the traces of this run have ids below the counter, and agree.
StResponses ==
  /\ \A j \in DOMAIN irs : irs[j].id < counter
  /\ \A i \in DOMAIN lib : lib[i].trace.id \notin taken.opened => lib[i].trace.id < counter
  /\ \A i \in DOMAIN lib, j \in DOMAIN irs :
         lib[i].trace.id \notin taken.opened /\ irs[j].id = lib[i].trace.id => irs[j].data = lib[i].trace.data

StIInv == StTypes /\ Distinct(lib) /\ StSaving /\ StFolder /\ StResponses

\* In a group of a library of n traces one of the first n + 1 shades is free.
LEMMA FreeShade ==
  ASSUME NEW l \in Seq(StEntries), NEW group
  PROVE  nextFreeShadeIndex(l, group) \in Nat /\ nextFreeShadeIndex(l, group) \notin usedShades(l, group)
<1> DEFINE n == Len(l)
           places == {j \in DOMAIN l : l[j].group = group}
           used == usedShades(l, group)
           free == 0..n \ used
           f == [i \in places |-> l[i].shade]
<1>1. n \in Nat /\ DOMAIN l = 1..n
  OBVIOUS
<1>2. used = {l[i].shade : i \in places}
  BY DEF usedShades
<1>3. IsFiniteSet(1..n) /\ Cardinality(1..n) = n /\ IsFiniteSet(0..n) /\ Cardinality(0..n) = n + 1
  <2>1. 1 \in Int /\ 0 \in Int /\ n \in Int
    BY <1>1
  <2> HIDE DEF n
  <2> QED BY <1>1, <2>1, FS_Interval
<1>4. places \in SUBSET (1..n)
  BY <1>1
<1> HIDE DEF n, places
<1>5. IsFiniteSet(places) /\ Cardinality(places) <= n
  BY <1>3, <1>4, FS_Subset
<1> HIDE DEF used
<1>6. f \in Surjection(places, used)
  BY <1>2 DEF Surjection
<1> HIDE DEF f
<1>7. IsFiniteSet(used) /\ Cardinality(used) <= Cardinality(places)
  BY <1>5, <1>6, FS_Surjection
<1>8. free # {}
  <2>1. SUFFICES ASSUME 0..n \in SUBSET used PROVE FALSE
    OBVIOUS
  <2>2. Cardinality(0..n) <= Cardinality(used)
    BY <1>7, <2>1, FS_Subset
  <2>3. Cardinality(used) \in Nat /\ Cardinality(places) \in Nat
    BY <1>5, <1>7, FS_CardinalityType
  <2> QED BY <1>1, <1>3, <1>5, <1>7, <2>2, <2>3
<1>9. free \in SUBSET Nat
  BY <1>1
<1>10. nextFreeShadeIndex(l, group) = Min(free)
  BY Zenon DEF nextFreeShadeIndex, n, used
<1> HIDE DEF free
<1>11. Min(free) \in free
  BY <1>8, <1>9, MinNat
<1> QED BY <1>9, <1>10, <1>11 DEF free, used

\* The members of a list.
LEMMA MemberOf ==
  ASSUME NEW S, NEW l \in Seq(S)
  PROVE  \A i \in DOMAIN l : l[i] \in S
OBVIOUS

\* A list with one more at its end.
LEMMA OneMore ==
  ASSUME NEW S, NEW l \in Seq(S), NEW x \in S
  PROVE  LET m == Append(l, x)
         IN  /\ m \in Seq(S) /\ DOMAIN m = 1..(Len(l) + 1) /\ DOMAIN l = 1..Len(l) /\ Len(l) \in Nat
             /\ Len(m) = Len(l) + 1 /\ (\A i \in DOMAIN l : m[i] = l[i]) /\ m[Len(l) + 1] = x
OBVIOUS

\* A library with a trace added to it, or not.
Added(l, t, name, group, new) ==
  IF has(l, t.id) THEN new = l
  ELSE /\ DOMAIN new = 1..(Len(l) + 1) /\ (\A i \in DOMAIN l : new[i] = l[i])
       /\ new[Len(l) + 1].trace = t /\ new[Len(l) + 1].name = name /\ new[Len(l) + 1].group = group

\* A trace that is added has an id and a shade of its own; one whose id is there is refused.
LEMMA LibAddIs ==
  ASSUME NEW l \in Seq(StEntries), Distinct(l), NEW t \in StTraces, NEW name \in Nat,
         NEW group \in {"RTA", "TRANSFER", "SWEEP"}
  PROVE  LET new == libAdd(l, t, name, group)
         IN  new \in Seq(StEntries) /\ Distinct(new) /\ Added(l, t, name, group, new)
<1> DEFINE shade == nextFreeShadeIndex(l, group)
           e == [trace |-> t, name |-> name, group |-> group, shade |-> shade]
           n == Len(l)
           new == Append(l, e)
<1>1. CASE has(l, t.id)
  BY <1>1 DEF libAdd, Added
<1>2. CASE ~has(l, t.id)
  <2>1. libAdd(l, t, name, group) = new
    BY <1>2 DEF libAdd
  <2>2. shade \in Nat /\ shade \notin usedShades(l, group)
    BY FreeShade
  <2> HIDE DEF shade
  <2>3. e \in StEntries /\ e.trace = t /\ e.name = name /\ e.group = group /\ e.shade = shade
    BY <2>2 DEF StEntries
  <2> HIDE DEF e
  <2>4. /\ new \in Seq(StEntries) /\ DOMAIN new = 1..(n + 1) /\ DOMAIN l = 1..n /\ n \in Nat
        /\ (\A i \in DOMAIN l : new[i] = l[i]) /\ new[n + 1] = e
    BY <2>3, OneMore
  <2> HIDE DEF new, n
  <2>5. \A i \in DOMAIN l : l[i].trace.id # t.id
    BY <1>2 DEF has
  <2>6. \A i \in DOMAIN l : l[i].group = group => l[i].shade # shade
    BY <2>2 DEF usedShades
  <2>7. \A i \in 1..(n + 1) : i \in DOMAIN l \/ i = n + 1
    BY <2>4
  <2>8. Distinct(new)
    <3>1. SUFFICES ASSUME NEW i \in 1..(n + 1), NEW j \in 1..(n + 1)
                   PROVE  /\ new[i].trace.id = new[j].trace.id => i = j
                          /\ new[i].group = new[j].group /\ new[i].shade = new[j].shade => i = j
      BY <2>4 DEF Distinct
    <3>2. CASE i \in DOMAIN l /\ j \in DOMAIN l
      BY <2>4, <3>2 DEF Distinct
    <3>3. CASE i \in DOMAIN l /\ j = n + 1
      BY <2>3, <2>4, <2>5, <2>6, <3>3
    <3>4. CASE i = n + 1 /\ j \in DOMAIN l
      BY <2>3, <2>4, <2>5, <2>6, <3>4
    <3>5. CASE i = n + 1 /\ j = n + 1
      BY <3>5
    <3> QED BY <2>7, <3>1, <3>2, <3>3, <3>4, <3>5
  <2> QED BY <1>2, <2>1, <2>3, <2>4, <2>8 DEF n, Added
<1> QED BY <1>1, <1>2

\* The trace of a capture.
LEMMA NewTraceIs ==
  ASSUME NEW id \in Nat, NEW data \in Nat, NEW group
  PROVE  newTrace(id, data, group) \in StTraces /\ newTrace(id, data, group).id = id
         /\ newTrace(id, data, group).data = data
<1>1. fftSizeOf(group) \in {2, 4}
  BY DEF fftSizeOf
<1>2. pointCountFor(2) = 2 /\ pointCountFor(4) = 3
  BY DEF pointCountFor
<1> QED BY <1>1, <1>2 DEF newTrace, StTraces

-------------------------------------------------------------------------------
(* TraceStore: STORE, SWEEP, SAVE. *)

\* What every step that takes a capture leaves: one more capture, and nothing of the folder.
LEMMA StCaptured ==
  ASSUME StIInv, UNCHANGED <<save, folder>>, save = Idle, taken.captures < MaxCaptures,
         taken' = [taken EXCEPT !.captures = @ + 1], counter' = counter + 1,
         lib' \in Seq(StEntries), Distinct(lib'),
         irs' \in Seq([id : Nat, data : Nat]), Len(irs') <= IrCapacity, StResponses'
  PROVE  StIInv'
<1>1. /\ StTypes /\ StSaving /\ StFolder /\ DOMAIN taken = StTakenFields /\ taken.captures \in Nat /\ counter \in Nat
      /\ counter <= taken.captures /\ taken.captures < MaxCaptures /\ MaxCaptures \in Nat /\ taken.torn \in BOOLEAN
  BY StoreAssumption DEF StIInv, StTypes
<1>2. /\ DOMAIN taken' = StTakenFields /\ taken'.captures = taken.captures + 1 /\ taken'.torn = taken.torn
      /\ taken'.committed = taken.committed
  BY <1>1 DEF StTakenFields
<1>3. save' = save /\ folder' = folder
  OBVIOUS
<1>4. StTypes'
  <2>1. /\ lib' \in Seq(StEntries) /\ irs' \in Seq([id : Nat, data : Nat]) /\ Len(irs') <= IrCapacity
    OBVIOUS
  <2>2. save' \in [pc : {"idle", "blob", "rename", "commit"}, k : Nat, doc : Seq(StEntries)]
    BY <1>1, <1>3, Zenon DEF StTypes
  <2>3. /\ DOMAIN folder' = {"saved", "index", "blobs"} /\ folder'.saved \in BOOLEAN /\ folder'.index \in Seq(StEntries)
        /\ \A id \in DOMAIN folder'.blobs : folder'.blobs[id] \in StTraces
    BY <1>1, <1>3, Zenon DEF StTypes
  <2>4. taken'.captures \in Nat /\ taken'.captures <= MaxCaptures
    BY <1>1, <1>2
  <2>5. counter' \in Nat /\ counter' <= taken'.captures
    BY <1>1, <1>2
  <2>6. DOMAIN taken' = StTakenFields /\ taken'.torn \in BOOLEAN
    BY <1>1, <1>2
  <2> QED BY <2>1, <2>2, <2>3, <2>4, <2>5, <2>6, Zenon DEF StTypes
<1>5. StSaving'
  <2>1. save' = Idle /\ save'.pc = "idle" /\ save'.doc = <<>> /\ DOMAIN save'.doc = {}
    BY <1>3 DEF Idle
  <2> QED BY <2>1 DEF StSaving, Distinct, OnDisk, AsWritten
<1>6. StFolder'
  BY <1>1, <1>2, <1>3 DEF StFolder, OnDisk, AsWritten, Distinct
<1> QED BY <1>4, <1>5, <1>6 DEF StIInv

\* The traces of this run and their responses agree after a capture that adds a trace, or none.
LEMMA ResponsesKept ==
  ASSUME StIInv, taken'.opened = taken.opened, counter' = counter + 1, irs' = irs,
         lib' = lib \/ /\ DOMAIN lib' = 1..(Len(lib) + 1) /\ (\A i \in DOMAIN lib : lib'[i] = lib[i])
                       /\ lib'[Len(lib) + 1].trace.id = counter
  PROVE  StResponses'
<1>1. /\ StResponses /\ counter \in Nat /\ lib \in Seq(StEntries) /\ irs \in Seq([id : Nat, data : Nat])
  BY DEF StIInv, StTypes
<1>2. /\ \A j \in DOMAIN irs : irs[j].id < counter /\ irs[j].id \in Nat
      /\ \A i \in DOMAIN lib : lib[i].trace.id \in Nat
  <2>1. (\A j \in DOMAIN irs : irs[j] \in [id : Nat, data : Nat]) /\ \A i \in DOMAIN lib : lib[i] \in StEntries
    BY <1>1, MemberOf
  <2>2. \A e \in StEntries : e.trace.id \in Nat
    BY DEF StEntries, StTraces
  <2>3. \A j \in DOMAIN irs : irs[j].id < counter
    BY <1>1 DEF StResponses
  <2>4. \A j \in DOMAIN irs : irs[j].id \in Nat
    BY <2>1
  <2>5. \A i \in DOMAIN lib : lib[i].trace.id \in Nat
    BY <2>1, <2>2
  <2> QED BY <2>3, <2>4, <2>5
<1>3. ASSUME NEW i \in DOMAIN lib' PROVE (i \in DOMAIN lib /\ lib'[i] = lib[i]) \/ lib'[i].trace.id = counter
  <2>1. Len(lib) \in Nat /\ DOMAIN lib = 1..Len(lib)
    BY <1>1
  <2> QED BY <1>3, <2>1
<1>4. \A j \in DOMAIN irs' : irs'[j].id < counter'
  BY <1>1, <1>2
<1>5. ASSUME NEW i \in DOMAIN lib', lib'[i].trace.id \notin taken'.opened
      PROVE  /\ lib'[i].trace.id < counter'
             /\ \A j \in DOMAIN irs' : irs'[j].id = lib'[i].trace.id => irs'[j].data = lib'[i].trace.data
  <2>1. CASE i \in DOMAIN lib /\ lib'[i] = lib[i]
    <3>1. /\ lib[i].trace.id < counter
          /\ \A j \in DOMAIN irs : irs[j].id = lib[i].trace.id => irs[j].data = lib[i].trace.data
      BY <1>1, <1>5, <2>1, Zenon DEF StResponses
    <3>2. lib[i].trace.id < counter + 1
      BY <1>1, <1>2, <2>1, <3>1
    <3> QED BY <2>1, <3>1, <3>2
  <2>2. CASE lib'[i].trace.id = counter
    <3>1. \A j \in DOMAIN irs : irs[j].id # counter
      BY <1>1, <1>2
    <3> QED BY <1>1, <2>2, <3>1
  <2> QED BY <1>3, <1>5, <2>1, <2>2
<1> QED BY <1>4, <1>5, Zenon DEF StResponses

\* STORE adds a trace, or is refused an id that an opened session already has.
LEMMA StoreClickedStep ==
  ASSUME StIInv, NEW group \in {"RTA", "TRANSFER"}, StoreClicked(group)
  PROVE  StIInv'
<1> DEFINE t == newTrace(counter, taken.captures, group)
           new == libAdd(lib, t, taken.captures, group)
<1>1. /\ save = Idle /\ taken.captures < MaxCaptures /\ lib' = new /\ counter' = counter + 1 /\ irs' = irs
      /\ taken' = [taken EXCEPT !.captures = @ + 1] /\ UNCHANGED <<save, folder>>
  BY Zenon DEF StoreClicked
<1>2. /\ lib \in Seq(StEntries) /\ Distinct(lib) /\ counter \in Nat /\ taken.captures \in Nat /\ DOMAIN taken = StTakenFields
      /\ irs \in Seq([id : Nat, data : Nat]) /\ Len(irs) <= IrCapacity
  BY DEF StIInv, StTypes
<1>3. t \in StTraces /\ t.id = counter /\ group \in {"RTA", "TRANSFER", "SWEEP"}
  BY <1>2, NewTraceIs
<1> HIDE DEF t
<1>4. new \in Seq(StEntries) /\ Distinct(new) /\ Added(lib, t, taken.captures, group, new)
  BY <1>2, <1>3, LibAddIs
<1> HIDE DEF new
<1>5. taken'.opened = taken.opened
  BY <1>1, <1>2 DEF StTakenFields
<1>6. StResponses'
  BY <1>1, <1>3, <1>4, <1>5, ResponsesKept DEF Added
<1>7. lib' \in Seq(StEntries) /\ Distinct(lib') /\ irs' \in Seq([id : Nat, data : Nat]) /\ Len(irs') <= IrCapacity
  BY <1>1, <1>2, <1>4
<1> QED BY <1>1, <1>6, <1>7, StCaptured

\* A press with nothing to freeze uses an id up.
LEMMA StoreNothingStep ==
  ASSUME StIInv, StoreNothing
  PROVE  StIInv'
<1>1. /\ save = Idle /\ taken.captures < MaxCaptures /\ lib' = lib /\ counter' = counter + 1 /\ irs' = irs
      /\ taken' = [taken EXCEPT !.captures = @ + 1] /\ UNCHANGED <<save, folder>>
  BY Zenon DEF StoreNothing
<1>2. /\ lib \in Seq(StEntries) /\ Distinct(lib) /\ DOMAIN taken = StTakenFields
      /\ irs \in Seq([id : Nat, data : Nat]) /\ Len(irs) <= IrCapacity
  BY DEF StIInv, StTypes
<1>3. taken'.opened = taken.opened
  BY <1>1, <1>2 DEF StTakenFields
<1>4. StResponses'
  BY <1>1, <1>3, ResponsesKept
<1>5. lib' \in Seq(StEntries) /\ Distinct(lib') /\ irs' \in Seq([id : Nat, data : Nat]) /\ Len(irs') <= IrCapacity
  BY <1>1, <1>2
<1> QED BY <1>1, <1>4, <1>5, StCaptured

\* The oldest response goes when there are too many.
LEMMA IrAddIs ==
  ASSUME NEW s \in Seq([id : Nat, data : Nat]), Len(s) <= IrCapacity, NEW id \in Nat, NEW data \in Nat,
         \A j \in DOMAIN s : s[j].id # id
  PROVE  /\ irAdd(s, id, data) \in Seq([id : Nat, data : Nat]) /\ Len(irAdd(s, id, data)) <= IrCapacity
         /\ \A j \in DOMAIN irAdd(s, id, data) : \/ \E i \in DOMAIN s : irAdd(s, id, data)[j] = s[i]
                                                 \/ irAdd(s, id, data)[j] = [id |-> id, data |-> data]
<1> DEFINE S == [id : Nat, data : Nat]
           x == [id |-> id, data |-> data]
           t == Append(s, x)
           n == Len(s)
           r == irAdd(s, id, data)
<1>1. r = IF Len(t) > IrCapacity THEN Tail(t) ELSE t
  BY DEF irAdd
<1>2. x \in S
  OBVIOUS
<1> HIDE DEF S, x, r
<1>3. s \in Seq(S)
  BY DEF S
<1>4. /\ t \in Seq(S) /\ DOMAIN t = 1..(n + 1) /\ DOMAIN s = 1..n /\ n \in Nat /\ Len(t) = n + 1
      /\ (\A i \in DOMAIN s : t[i] = s[i]) /\ t[n + 1] = x
  BY <1>2, <1>3, OneMore
<1> HIDE DEF t, n
<1>5. \A j \in DOMAIN t : (\E i \in DOMAIN s : t[j] = s[i]) \/ t[j] = x
  <2>1. \A j \in DOMAIN t : j \in DOMAIN s \/ j = n + 1
    BY <1>4
  <2> QED BY <1>4, <2>1
<1>6. IrCapacity \in Nat \ {0} /\ n <= IrCapacity
  BY StoreAssumption DEF n
<1>7. CASE Len(t) > IrCapacity
  <2>1. r = Tail(t) /\ t # <<>>
    BY <1>1, <1>4, <1>6, <1>7
  <2>2. r \in Seq(S) /\ Len(r) = n /\ DOMAIN r = 1..n /\ \A j \in 1..n : r[j] = t[j + 1]
    BY <1>4, <2>1
  <2>3. \A j \in DOMAIN r : j + 1 \in DOMAIN t /\ r[j] = t[j + 1]
    BY <1>4, <2>2
  <2> QED BY <1>5, <1>6, <2>2, <2>3 DEF r, S, x
<1>8. CASE ~(Len(t) > IrCapacity)
  <2>1. r = t /\ Len(t) <= IrCapacity
    BY <1>1, <1>4, <1>6, <1>8
  <2> QED BY <1>4, <1>5, <2>1 DEF r, S, x
<1> QED BY <1>7, <1>8

\* SWEEP: the trace, and its response under the same id.
LEMMA SweepFinishStep ==
  ASSUME StIInv, SweepFinish
  PROVE  StIInv'
<1> DEFINE t == newTrace(counter, taken.captures, "SWEEP")
           new == libAdd(lib, t, taken.captures, "SWEEP")
           R == [id : Nat, data : Nat]
<1>1. /\ save = Idle /\ taken.captures < MaxCaptures /\ lib' = new /\ counter' = counter + 1
      /\ irs' = IF new = lib THEN irs ELSE irAdd(irs, counter, taken.captures)
      /\ taken' = [taken EXCEPT !.captures = @ + 1] /\ UNCHANGED <<save, folder>>
  BY Zenon DEF SweepFinish
<1>2. /\ lib \in Seq(StEntries) /\ Distinct(lib) /\ counter \in Nat /\ taken.captures \in Nat /\ DOMAIN taken = StTakenFields
      /\ irs \in Seq(R) /\ Len(irs) <= IrCapacity /\ StResponses
  BY DEF StIInv, StTypes
<1>3. t \in StTraces /\ t.id = counter /\ t.data = taken.captures /\ "SWEEP" \in {"RTA", "TRANSFER", "SWEEP"}
  BY <1>2, NewTraceIs
<1> HIDE DEF t
<1>4. new \in Seq(StEntries) /\ Distinct(new) /\ Added(lib, t, taken.captures, "SWEEP", new)
  BY <1>2, <1>3, LibAddIs
<1> HIDE DEF new
<1>5. taken'.opened = taken.opened
  BY <1>1, <1>2 DEF StTakenFields
<1>6. CASE new = lib
  <2>1. StResponses'
    BY <1>1, <1>5, <1>6, ResponsesKept
  <2> QED BY <1>1, <1>2, <1>4, <1>6, <2>1, StCaptured
<1>7. CASE new # lib
  <2> DEFINE n == Len(lib)
             x == [id |-> counter, data |-> taken.captures]
  <2>1. /\ DOMAIN new = 1..(n + 1) /\ (\A i \in DOMAIN lib : new[i] = lib[i]) /\ new[n + 1].trace = t
        /\ n \in Nat /\ DOMAIN lib = 1..n
    BY <1>2, <1>4, <1>7 DEF Added
  <2>2. \A j \in DOMAIN irs : irs[j].id < counter /\ irs[j].id \in Nat
    <3>1. \A j \in DOMAIN irs : irs[j].id < counter
      BY <1>2 DEF StResponses
    <3>2. \A j \in DOMAIN irs : irs[j] \in R
      BY <1>2, MemberOf
    <3> QED BY <3>1, <3>2
  <2>3. \A j \in DOMAIN irs : irs[j].id # counter
    BY <1>2, <2>2
  <2>4. irs' = irAdd(irs, counter, taken.captures)
    BY <1>1, <1>7
  <2>5. /\ irs' \in Seq(R) /\ Len(irs') <= IrCapacity
        /\ \A j \in DOMAIN irs' : (\E i \in DOMAIN irs : irs'[j] = irs[i]) \/ irs'[j] = x
    BY <1>2, <2>3, <2>4, IrAddIs
  <2>6. x.id = counter /\ x.data = taken.captures
    OBVIOUS
  <2> HIDE DEF x, n
  <2>7. ASSUME NEW j \in DOMAIN irs' PROVE irs'[j].id < counter'
    <3>1. CASE \E i \in DOMAIN irs : irs'[j] = irs[i]
      <4>1. PICK i \in DOMAIN irs : irs'[j] = irs[i]
        BY <3>1
      <4>2. irs[i].id < counter /\ irs[i].id \in Nat
        BY <2>2
      <4> QED BY <1>1, <1>2, <4>1, <4>2
    <3>2. CASE irs'[j] = x
      BY <1>1, <1>2, <2>6, <3>2
    <3> QED BY <2>5, <3>1, <3>2
  <2>8. ASSUME NEW i \in DOMAIN lib', lib'[i].trace.id \notin taken'.opened
        PROVE  /\ lib'[i].trace.id < counter'
               /\ \A j \in DOMAIN irs' : irs'[j].id = lib'[i].trace.id => irs'[j].data = lib'[i].trace.data
    <3>1. (i \in DOMAIN lib /\ lib'[i] = lib[i]) \/ lib'[i].trace = t
      BY <1>1, <2>1, <2>8
    <3>2. CASE i \in DOMAIN lib /\ lib'[i] = lib[i]
      <4>1. /\ lib[i].trace.id < counter
            /\ \A j \in DOMAIN irs : irs[j].id = lib[i].trace.id => irs[j].data = lib[i].trace.data
        BY <1>2, <1>5, <2>8, <3>2, Zenon DEF StResponses
      <4>2. lib[i].trace.id \in Nat
        <5>1. lib[i] \in StEntries
          BY <1>2, <3>2, MemberOf
        <5> QED BY <5>1 DEF StEntries, StTraces
      <4>3. lib[i].trace.id < counter + 1 /\ lib[i].trace.id # counter
        BY <1>2, <4>1, <4>2
      <4>4. \A j \in DOMAIN irs' : irs'[j].id = lib[i].trace.id => irs'[j].data = lib[i].trace.data
        <5>1. \A k \in DOMAIN irs : irs[k].id = lib[i].trace.id => irs[k].data = lib[i].trace.data
          BY <4>1
        <5>2. x.id # lib[i].trace.id
          BY <2>6, <4>3
        <5> QED BY <2>5, <5>1, <5>2, Zenon
      <4>5. lib'[i].trace.id < counter'
        BY <1>1, <3>2, <4>3
      <4> QED BY <3>2, <4>4, <4>5, Zenon
    <3>3. CASE lib'[i].trace = t
      <4>1. \A j \in DOMAIN irs' : irs'[j].id = counter => irs'[j].data = taken.captures
        BY <2>3, <2>5, <2>6
      <4> QED BY <1>1, <1>2, <1>3, <3>3, <4>1
    <3> QED BY <3>1, <3>2, <3>3
  <2>9. StResponses'
    BY <2>7, <2>8, Zenon DEF StResponses
  <2> QED BY <1>1, <1>4, <2>5, <2>9, StCaptured
<1> QED BY <1>6, <1>7

\* What every step of a save leaves: the library, the responses, the captures.
LEMMA StSaved ==
  ASSUME StIInv, UNCHANGED <<lib, counter, irs>>, DOMAIN taken' = StTakenFields, taken'.torn \in BOOLEAN,
         taken'.captures = taken.captures, taken'.opened = taken.opened,
         save' \in [pc : {"idle", "blob", "rename", "commit"}, k : Nat, doc : Seq(StEntries)],
         DOMAIN folder' = {"saved", "index", "blobs"}, folder'.saved \in BOOLEAN, folder'.index \in Seq(StEntries),
         \A id \in DOMAIN folder'.blobs : folder'.blobs[id] \in StTraces,
         StSaving', StFolder'
  PROVE  StIInv'
<1>1. StTypes'
  BY DEF StIInv, StTypes
<1>2. Distinct(lib') /\ StResponses'
  BY DEF StIInv, StResponses, Distinct
<1> QED BY <1>1, <1>2 DEF StIInv

\* The fields of a save.
LEMMA SaveFields ==
  ASSUME StIInv
  PROVE  /\ save.pc \in {"idle", "blob", "rename", "commit"} /\ save.k \in Nat /\ save.doc \in Seq(StEntries)
         /\ DOMAIN save = {"pc", "k", "doc"}
         /\ lib \in Seq(StEntries) /\ DOMAIN lib = 1..Len(lib) /\ Len(lib) \in Nat
BY DEF StIInv, StTypes

\* A save that starts has no document yet.
LEMMA SaveBeginStep ==
  ASSUME StIInv, SaveBegin
  PROVE  StIInv'
<1>1. /\ save' = [pc |-> "blob", k |-> 1, doc |-> <<>>] /\ taken' = [taken EXCEPT !.saves = @ + 1]
      /\ UNCHANGED <<lib, counter, irs, folder>>
  BY DEF SaveBegin
<1>2. StTypes /\ StFolder /\ DOMAIN taken = StTakenFields
  BY DEF StIInv, StTypes
<1>3. /\ DOMAIN taken' = StTakenFields /\ taken'.captures = taken.captures /\ taken'.torn = taken.torn
      /\ taken'.committed = taken.committed /\ taken'.opened = taken.opened
  BY <1>1, <1>2 DEF StTakenFields
<1>4. save'.pc = "blob" /\ save'.k = 1 /\ save'.doc = <<>> /\ DOMAIN save'.doc = {}
  BY <1>1
<1>5. save' \in [pc : {"idle", "blob", "rename", "commit"}, k : Nat, doc : Seq(StEntries)]
  BY <1>1
<1>6. StSaving'
  BY <1>4 DEF StSaving, Distinct, OnDisk, AsWritten
<1>7. StFolder'
  BY <1>1, <1>2, <1>3 DEF StFolder, OnDisk, AsWritten, Distinct
<1> QED BY <1>1, <1>2, <1>3, <1>5, <1>6, <1>7, StSaved DEF StTypes

\* A step of a save that writes no blob and moves on, the entry it is at left out or not yet in.
LEMMA StMovesOn ==
  ASSUME StIInv, UNCHANGED <<lib, counter, irs, folder, taken>>,
         save.pc # "idle", DOMAIN save' = {"pc", "k", "doc"}, save'.doc = save.doc, save'.k \in Nat, save'.k >= save.k,
         save'.pc \in {"blob", "rename", "commit"}, save'.pc = "rename" => save'.k <= Len(lib),
         save' = [pc |-> save'.pc, k |-> save'.k, doc |-> save'.doc]
  PROVE  StIInv'
<1>1. StTypes /\ StFolder /\ StSaving /\ DOMAIN taken = StTakenFields
  BY DEF StIInv, StTypes
<1>2. save.k \in Nat /\ save.doc \in Seq(StEntries) /\ DOMAIN lib = 1..Len(lib) /\ Len(lib) \in Nat
  BY SaveFields
<1>3. save' \in [pc : {"idle", "blob", "rename", "commit"}, k : Nat, doc : Seq(StEntries)]
  BY <1>2
<1>4. /\ save.k >= 1 /\ (\A i \in DOMAIN save.doc : \E m \in DOMAIN lib : m < save.k /\ save.doc[i] = lib[m])
      /\ Distinct(save.doc) /\ OnDisk(save.doc) /\ AsWritten(save.doc)
  BY <1>1 DEF StSaving
<1>5. StSaving'
  <2>1. save'.pc # "idle" /\ save'.k >= 1
    BY <1>2, <1>4
  <2>2. \A m \in DOMAIN lib : m < save.k => m < save'.k
    BY <1>2
  <2>3. \A i \in DOMAIN save'.doc : \E m \in DOMAIN lib' : m < save'.k /\ save'.doc[i] = lib'[m]
    BY <1>4, <2>2
  <2>4. Distinct(save'.doc) /\ OnDisk(save.doc)' /\ AsWritten(save.doc)'
    BY <1>4 DEF OnDisk, AsWritten
  <2> QED BY <2>1, <2>3, <2>4 DEF StSaving, Distinct, OnDisk, AsWritten
<1>6. StFolder'
  BY <1>1 DEF StFolder, OnDisk, AsWritten, Distinct
<1> QED BY <1>1, <1>3, <1>5, <1>6, StSaved DEF StTypes

\* A blob is written beside the one it replaces, or its entry is left out.
LEMMA WriteTraceStep ==
  ASSUME StIInv, NEW ok \in BOOLEAN, writeTrace(ok)
  PROVE  StIInv'
<1>1. /\ save.pc = "blob" /\ save.k <= Len(lib) /\ UNCHANGED <<lib, counter, irs, folder, taken>>
      /\ save' = IF ok THEN [save EXCEPT !.pc = "rename"] ELSE nextBlob(save)
  BY DEF writeTrace
<1>2. DOMAIN save = {"pc", "k", "doc"} /\ save.k \in Nat
  BY SaveFields
<1>3. /\ DOMAIN save' = {"pc", "k", "doc"} /\ save'.doc = save.doc /\ save'.k \in Nat /\ save'.k >= save.k
      /\ save'.pc \in {"blob", "rename", "commit"} /\ (save'.pc = "rename" => save'.k <= Len(lib))
      /\ save' = [pc |-> save'.pc, k |-> save'.k, doc |-> save'.doc]
  <2>1. CASE ok
    BY <1>1, <1>2, <2>1
  <2>2. CASE ~ok
    <3>1. save' = [save EXCEPT !.pc = "blob", !.k = @ + 1]
      BY <1>1, <2>2 DEF nextBlob
    <3>2. DOMAIN save' = {"pc", "k", "doc"} /\ save'.doc = save.doc /\ save'.k = save.k + 1 /\ save'.pc = "blob"
      BY <1>2, <3>1
    <3>3. save' = [pc |-> save'.pc, k |-> save'.k, doc |-> save'.doc]
      BY <1>2, <3>1
    <3> QED BY <1>2, <3>2, <3>3
  <2> QED BY <2>1, <2>2
<1> QED BY <1>1, <1>3, StMovesOn

\* The index is written beside the one it replaces, or the save fails.
LEMMA WriteIndexStep ==
  ASSUME StIInv, NEW ok \in BOOLEAN, writeIndex(ok)
  PROVE  StIInv'
<1>1. /\ save.pc = "blob" /\ UNCHANGED <<lib, counter, irs, folder, taken>>
      /\ save' = IF ok THEN [save EXCEPT !.pc = "commit"] ELSE Idle
  BY DEF writeIndex
<1>2. DOMAIN save = {"pc", "k", "doc"} /\ save.k \in Nat
  BY SaveFields
<1>3. CASE ok
  <2>1. /\ DOMAIN save' = {"pc", "k", "doc"} /\ save'.doc = save.doc /\ save'.k \in Nat /\ save'.k >= save.k
        /\ save'.pc = "commit" /\ save' = [pc |-> save'.pc, k |-> save'.k, doc |-> save'.doc]
    BY <1>1, <1>2, <1>3
  <2> QED BY <1>1, <2>1, StMovesOn
<1>4. CASE ~ok
  <2>1. StTypes /\ StFolder /\ DOMAIN taken = StTakenFields
    BY DEF StIInv, StTypes
  <2>2. save' = Idle /\ save'.pc = "idle" /\ save'.doc = <<>> /\ DOMAIN save'.doc = {}
    BY <1>1, <1>4 DEF Idle
  <2>3. save' \in [pc : {"idle", "blob", "rename", "commit"}, k : Nat, doc : Seq(StEntries)]
    BY <2>2 DEF Idle
  <2>4. StSaving'
    BY <2>2 DEF StSaving, Distinct, OnDisk, AsWritten
  <2>5. StFolder'
    BY <1>1, <2>1 DEF StFolder, OnDisk, AsWritten, Distinct
  <2> QED BY <1>1, <2>1, <2>3, <2>4, <2>5, StSaved DEF StTypes
<1> QED BY <1>3, <1>4

\* A blob put on disk, the others left as they were.
LEMMA WithBlobIs ==
  ASSUME NEW blobs, NEW id, NEW blob
  PROVE  /\ DOMAIN withBlob(blobs, id, blob) = DOMAIN blobs \cup {id}
         /\ withBlob(blobs, id, blob)[id] = blob
         /\ \A x \in DOMAIN blobs : x # id => withBlob(blobs, id, blob)[x] = blobs[x]
BY DEF withBlob

\* The blob is renamed into place and its entry joins the document, or the entry is left out.
LEMMA RenameTraceStep ==
  ASSUME StIInv, NEW ok \in BOOLEAN, renameTrace(ok)
  PROVE  StIInv'
<1> DEFINE e == lib[save.k]
           id == e.trace.id
           overwrites == named(id) /\ folder.blobs[id] # e.trace
<1>1. save.pc = "rename" /\ UNCHANGED <<lib, counter, irs>>
  BY DEF renameTrace
<1>2. /\ DOMAIN save = {"pc", "k", "doc"} /\ save.k \in Nat /\ save.doc \in Seq(StEntries)
      /\ lib \in Seq(StEntries) /\ DOMAIN lib = 1..Len(lib) /\ Len(lib) \in Nat
  BY SaveFields
<1>3. StTypes /\ StFolder /\ StSaving /\ Distinct(lib) /\ DOMAIN taken = StTakenFields
  BY DEF StIInv, StTypes
<1>4. /\ save.k >= 1 /\ save.k <= Len(lib) /\ save.k \in DOMAIN lib
      /\ (\A i \in DOMAIN save.doc : \E m \in DOMAIN lib : m < save.k /\ save.doc[i] = lib[m])
      /\ Distinct(save.doc) /\ OnDisk(save.doc) /\ AsWritten(save.doc)
  BY <1>1, <1>2, <1>3 DEF StSaving
<1>5. CASE ~ok
  <2>1. save' = [save EXCEPT !.pc = "blob", !.k = @ + 1] /\ UNCHANGED <<folder, taken>>
    BY <1>5 DEF renameTrace, nextBlob
  <2>2. DOMAIN save' = {"pc", "k", "doc"} /\ save'.doc = save.doc /\ save'.k = save.k + 1 /\ save'.pc = "blob"
    BY <1>2, <2>1
  <2>3. save' = [pc |-> save'.pc, k |-> save'.k, doc |-> save'.doc]
    BY <1>2, <2>1
  <2> QED BY <1>1, <1>2, <2>1, <2>2, <2>3, StMovesOn
<1>6. CASE ok
  <2> DEFINE doc == Append(save.doc, e)
             n == Len(save.doc)
             blobs == withBlob(folder.blobs, id, e.trace)
  <2>1. /\ folder' = [folder EXCEPT !.blobs = blobs]
        /\ save' = [[save EXCEPT !.pc = "blob", !.k = @ + 1] EXCEPT !.doc = doc]
        /\ taken' = [taken EXCEPT !.torn = @ \/ overwrites]
    BY <1>6 DEF renameTrace, nextBlob
  <2>2. /\ DOMAIN blobs = DOMAIN folder.blobs \cup {id} /\ blobs[id] = e.trace
        /\ \A x \in DOMAIN folder.blobs : x # id => blobs[x] = folder.blobs[x]
    <3> HIDE DEF id, e, overwrites, doc, n
    <3> QED BY DEF withBlob
  <2> HIDE DEF blobs
  <2>3. e \in StEntries /\ e.trace \in StTraces
    <3>1. e \in StEntries
      BY <1>2, <1>4, MemberOf
    <3> HIDE DEF e
    <3> QED BY <3>1 DEF StEntries
  <2>4. /\ doc \in Seq(StEntries) /\ DOMAIN doc = 1..(n + 1) /\ DOMAIN save.doc = 1..n /\ n \in Nat
        /\ (\A i \in DOMAIN save.doc : doc[i] = save.doc[i]) /\ doc[n + 1] = e
    BY <1>2, <2>3, OneMore
  <2> HIDE DEF doc, n, overwrites
  <2>5. /\ DOMAIN folder' = {"saved", "index", "blobs"} /\ folder'.saved = folder.saved /\ folder'.index = folder.index
        /\ folder'.blobs = blobs
    BY <1>3, <2>1 DEF StTypes
  <2>6. /\ save'.pc = "blob" /\ save'.k = save.k + 1 /\ save'.doc = doc
        /\ save' = [pc |-> "blob", k |-> save.k + 1, doc |-> doc]
    BY <1>2, <2>1
  <2>7. save' \in [pc : {"idle", "blob", "rename", "commit"}, k : Nat, doc : Seq(StEntries)]
    BY <1>2, <2>4, <2>6
  <2>8. /\ DOMAIN taken' = StTakenFields /\ taken'.captures = taken.captures /\ taken'.committed = taken.committed
        /\ taken'.opened = taken.opened /\ taken'.torn = (taken.torn \/ overwrites)
    BY <1>3, <2>1 DEF StTakenFields
  <2>9. taken'.torn \in BOOLEAN
    BY <2>8
  <2>10. \A x \in DOMAIN folder'.blobs : folder'.blobs[x] \in StTraces
    <3>1. \A x \in DOMAIN folder.blobs : folder.blobs[x] \in StTraces
      BY <1>3 DEF StTypes
    <3> QED BY <2>2, <2>3, <2>5, <3>1
  <2>11. \A i \in DOMAIN doc : i \in DOMAIN save.doc \/ i = n + 1
    BY <2>4
  <2>12. \A m \in DOMAIN lib : m < save.k => lib[m].trace.id # id /\ ~(lib[m].group = e.group /\ lib[m].shade = e.shade)
    <3>1. \A m \in DOMAIN lib : m < save.k => m # save.k
      BY <1>2
    <3> QED BY <1>3, <1>4, <3>1 DEF Distinct
  <2>13. \A i \in DOMAIN save.doc : /\ save.doc[i].trace.id # id
                                    /\ ~(save.doc[i].group = e.group /\ save.doc[i].shade = e.shade)
    BY <1>4, <2>12
  <2> HIDE DEF id
  <2>14. Distinct(doc)
    <3>1. SUFFICES ASSUME NEW i \in DOMAIN doc, NEW j \in DOMAIN doc
                   PROVE  /\ doc[i].trace.id = doc[j].trace.id => i = j
                          /\ doc[i].group = doc[j].group /\ doc[i].shade = doc[j].shade => i = j
      BY DEF Distinct
    <3>2. CASE i \in DOMAIN save.doc /\ j \in DOMAIN save.doc
      BY <1>4, <2>4, <3>2 DEF Distinct
    <3>3. CASE i \in DOMAIN save.doc /\ j = n + 1
      BY <2>4, <2>13, <3>3 DEF id
    <3>4. CASE i = n + 1 /\ j \in DOMAIN save.doc
      BY <2>4, <2>13, <3>4 DEF id
    <3>5. CASE i = n + 1 /\ j = n + 1
      BY <3>5
    <3> QED BY <2>11, <3>1, <3>2, <3>3, <3>4, <3>5
  <2>15. \A i \in DOMAIN doc : doc[i].trace.id \in DOMAIN blobs /\ blobs[doc[i].trace.id] = doc[i].trace
    <3>1. ASSUME NEW i \in DOMAIN save.doc
          PROVE  doc[i].trace.id \in DOMAIN blobs /\ blobs[doc[i].trace.id] = doc[i].trace
      <4>1. save.doc[i].trace.id \in DOMAIN folder.blobs /\ folder.blobs[save.doc[i].trace.id] = save.doc[i].trace
        BY <1>4 DEF OnDisk, AsWritten
      <4> QED BY <2>2, <2>4, <2>13, <4>1
    <3>2. doc[n + 1].trace.id \in DOMAIN blobs /\ blobs[doc[n + 1].trace.id] = doc[n + 1].trace
      BY <2>2, <2>4 DEF id
    <3> QED BY <2>11, <3>1, <3>2
  <2>16. \A i \in DOMAIN doc : \E m \in DOMAIN lib : m < save.k + 1 /\ doc[i] = lib[m]
    <3>1. ASSUME NEW i \in DOMAIN save.doc PROVE \E m \in DOMAIN lib : m < save.k + 1 /\ doc[i] = lib[m]
      <4>1. PICK m \in DOMAIN lib : m < save.k /\ save.doc[i] = lib[m]
        BY <1>4
      <4>2. m < save.k + 1
        BY <1>2, <4>1
      <4> QED BY <2>4, <4>1, <4>2
    <3>2. save.k < save.k + 1
      BY <1>2
    <3> QED BY <1>4, <2>4, <2>11, <3>1, <3>2
  <2>17. StSaving'
    <3>1. save'.k >= 1
      BY <1>2, <2>6
    <3>2. Distinct(save.doc)'
      BY <2>6, <2>14
    <3>3. OnDisk(save.doc)' /\ AsWritten(save.doc)'
      BY <2>5, <2>6, <2>15 DEF OnDisk, AsWritten
    <3>4. \A i \in DOMAIN save'.doc : \E m \in DOMAIN lib' : m < save'.k /\ save'.doc[i] = lib'[m]
      BY <1>1, <2>6, <2>16
    <3> QED BY <2>6, <3>1, <3>2, <3>3, <3>4 DEF StSaving
  <2>18. StFolder'
    <3>1. /\ folder.saved \/ folder.index = <<>>
          /\ folder.saved => folder.index = taken.committed
          /\ Distinct(folder.index) /\ OnDisk(folder.index) /\ (~taken.torn => AsWritten(folder.index))
      BY <1>3 DEF StFolder
    <3>2. OnDisk(folder.index)'
      BY <2>2, <2>5, <3>1 DEF OnDisk
    <3>3. ASSUME ~taken'.torn PROVE AsWritten(folder.index)'
      <4>1. ~taken.torn /\ ~overwrites
        BY <1>3, <2>8, <3>3 DEF StTypes
      <4>2. ASSUME NEW i \in DOMAIN folder.index PROVE blobs[folder.index[i].trace.id] = folder.index[i].trace
        <5>1. folder.blobs[folder.index[i].trace.id] = folder.index[i].trace
          BY <3>1, <4>1 DEF AsWritten
        <5>2. folder.index[i].trace.id \in DOMAIN folder.blobs
          BY <3>1 DEF OnDisk
        <5>3. CASE folder.index[i].trace.id = id
          <6>1. folder.saved
            BY <3>1
          <6>2. named(id)
            BY <5>3, <6>1 DEF named
          <6> QED BY <2>2, <4>1, <5>1, <5>3, <6>2 DEF overwrites
        <5> QED BY <2>2, <5>1, <5>2, <5>3
      <4> QED BY <2>5, <4>2 DEF AsWritten
    <3> QED BY <2>5, <2>8, <3>1, <3>2, <3>3 DEF StFolder, Distinct
  <2>19. folder'.saved \in BOOLEAN /\ folder'.index \in Seq(StEntries)
    BY <1>3, <2>5 DEF StTypes
  <2> QED BY <1>1, <2>5, <2>7, <2>8, <2>9, <2>10, <2>17, <2>18, <2>19, StSaved
<1> QED BY <1>5, <1>6

\* The index is renamed into place: the session on disk is the document, whole.
LEMMA RenameIndexStep ==
  ASSUME StIInv, NEW ok \in BOOLEAN, renameIndex(ok)
  PROVE  StIInv'
<1>1. /\ save' = Idle /\ UNCHANGED <<lib, counter, irs>>
      /\ folder' = IF ok THEN [folder EXCEPT !.saved = TRUE, !.index = save.doc] ELSE folder
      /\ taken' = IF ok THEN [taken EXCEPT !.committed = save.doc, !.torn = FALSE] ELSE taken
  BY DEF renameIndex
<1>2. StTypes /\ StFolder /\ StSaving /\ DOMAIN taken = StTakenFields
  BY DEF StIInv, StTypes
<1>3. save' = Idle /\ save'.pc = "idle" /\ save'.doc = <<>> /\ DOMAIN save'.doc = {}
  BY <1>1 DEF Idle
<1>4. save' \in [pc : {"idle", "blob", "rename", "commit"}, k : Nat, doc : Seq(StEntries)]
  BY <1>3 DEF Idle
<1>5. StSaving'
  BY <1>3 DEF StSaving, Distinct, OnDisk, AsWritten
<1>6. CASE ok
  <2>1. folder' = [folder EXCEPT !.saved = TRUE, !.index = save.doc]
    BY <1>1, <1>6
  <2>2. taken' = [taken EXCEPT !.committed = save.doc, !.torn = FALSE]
    BY <1>1, <1>6
  <2>3. /\ DOMAIN folder' = {"saved", "index", "blobs"} /\ folder'.saved = TRUE /\ folder'.index = save.doc
        /\ folder'.blobs = folder.blobs
    BY <1>2, <2>1 DEF StTypes
  <2>4. /\ DOMAIN taken' = StTakenFields /\ taken'.captures = taken.captures /\ taken'.committed = save.doc
        /\ taken'.opened = taken.opened /\ taken'.torn = FALSE
    BY <1>2, <2>2 DEF StTakenFields
  <2>5. save.doc \in Seq(StEntries)
    BY SaveFields
  <2>6. Distinct(save.doc) /\ OnDisk(save.doc) /\ AsWritten(save.doc)
    BY <1>2 DEF StSaving
  <2>7. StFolder'
    BY <2>3, <2>4, <2>6 DEF StFolder, OnDisk, AsWritten, Distinct
  <2>8. \A id \in DOMAIN folder'.blobs : folder'.blobs[id] \in StTraces
    BY <1>2, <2>3 DEF StTypes
  <2> QED BY <1>1, <1>4, <1>5, <2>3, <2>4, <2>5, <2>7, <2>8, StSaved
<1>7. CASE ~ok
  <2>1. UNCHANGED <<folder, taken>>
    BY <1>1, <1>7
  <2>2. StFolder'
    BY <1>2, <2>1 DEF StFolder, OnDisk, AsWritten, Distinct
  <2> QED BY <1>1, <1>2, <1>4, <1>5, <2>1, <2>2, StSaved DEF StTypes
<1> QED BY <1>6, <1>7

\* A program that starts again remembers nothing; the folder is what it was.
LEMMA RestartStep ==
  ASSUME StIInv, Restart
  PROVE  StIInv'
<1>1. /\ lib' = <<>> /\ counter' = 0 /\ irs' = <<>> /\ save' = Idle /\ folder' = folder
      /\ taken' = [taken EXCEPT !.run = @ + 1, !.opened = {}]
  BY DEF Restart
<1>2. /\ StTypes /\ StFolder /\ DOMAIN taken = StTakenFields /\ IrCapacity \in Nat
      /\ taken.captures \in Nat
  BY StoreAssumption DEF StIInv, StTypes
<1>3. /\ DOMAIN taken' = StTakenFields /\ taken'.captures = taken.captures /\ taken'.committed = taken.committed
      /\ taken'.torn = taken.torn
  BY <1>1, <1>2 DEF StTakenFields
<1>4. save'.pc = "idle" /\ save'.doc = <<>> /\ DOMAIN save'.doc = {} /\ DOMAIN lib' = {} /\ DOMAIN irs' = {}
  BY <1>1 DEF Idle
<1>5. save' \in [pc : {"idle", "blob", "rename", "commit"}, k : Nat, doc : Seq(StEntries)]
  BY <1>1 DEF Idle
<1>6. lib' \in Seq(StEntries) /\ irs' \in Seq([id : Nat, data : Nat]) /\ Len(irs') <= IrCapacity
  BY <1>1, <1>2
<1>7. StTypes'
  BY <1>1, <1>2, <1>3, <1>5, <1>6 DEF StTypes
<1>8. StSaving'
  BY <1>1, <1>4 DEF StSaving, Distinct, OnDisk, AsWritten
<1>9. StFolder'
  BY <1>1, <1>2, <1>3 DEF StFolder, OnDisk, AsWritten, Distinct
<1> QED BY <1>4, <1>7, <1>8, <1>9 DEF StIInv, StResponses, Distinct

-------------------------------------------------------------------------------
(* TraceStore: OPEN. *)

LoadTurn(doc, g, m) == IF m = 0 THEN <<>> ELSE load(g[m - 1], doc[m])

LoadsOf(doc, n, g) == g = [m \in 0..n |-> LoadTurn(doc, g, m)]

\* The states of the loop of performOpen exist.
LEMMA LoadsExist ==
  ASSUME NEW doc, NEW n \in Nat
  PROVE  \E g : LoadsOf(doc, n, g)
<1> DEFINE Good(m) == \E g : g = [k \in 0..m |-> LoadTurn(doc, g, k)]
           Bad == {m \in Nat : ~Good(m)}
<1>1. SUFFICES ASSUME Bad # {} PROVE FALSE
  BY DEF LoadsOf
<1>2. PICK m \in Bad : \A y \in Bad : m <= y
  BY <1>1, LeastNat
<1>3. m \in Nat /\ ~Good(m)
  OBVIOUS
<1>4. CASE m = 0
  <2> DEFINE g == [k \in 0..0 |-> <<>>]
  <2>1. \A k \in 0..0 : k = 0
    OBVIOUS
  <2>2. g = [k \in 0..0 |-> LoadTurn(doc, g, k)]
    BY <2>1 DEF LoadTurn
  <2> QED BY <1>3, <1>4, <2>2
<1>5. CASE m # 0
  <2>1. m - 1 \in Nat /\ Good(m - 1)
    BY <1>2, <1>3, <1>5
  <2>2. PICK g : g = [k \in 0..(m - 1) |-> LoadTurn(doc, g, k)]
    BY <2>1
  <2> DEFINE h == [k \in 0..m |-> LoadTurn(doc, g, k)]
  <2>3. ASSUME NEW k \in 0..m PROVE LoadTurn(doc, h, k) = LoadTurn(doc, g, k)
    <3>1. CASE k = 0
      BY <3>1 DEF LoadTurn
    <3>2. CASE k # 0
      <4>1. k - 1 \in 0..(m - 1) /\ k - 1 \in 0..m
        BY <1>3, <3>2
      <4>2. h[k - 1] = LoadTurn(doc, g, k - 1)
        BY <4>1
      <4>3. g[k - 1] = LoadTurn(doc, g, k - 1)
        BY <2>2, <4>1
      <4> HIDE DEF h
      <4> QED BY <3>2, <4>2, <4>3, Zenon DEF LoadTurn
    <3> QED BY <3>1, <3>2
  <2>4. h = [k \in 0..m |-> LoadTurn(doc, h, k)]
    <3>1. \A k \in 0..m : h[k] = LoadTurn(doc, h, k)
      BY <2>3
    <3>2. h = [k \in 0..m |-> h[k]]
      OBVIOUS
    <3> HIDE DEF h
    <3> QED BY <3>1, <3>2
  <2> QED BY <1>3, <2>4
<1> QED BY <1>4, <1>5

RestoreTurn(items, g, m) == IF m = 0 THEN cleared ELSE restore(g[m - 1], items[m])

RestoresOf(items, n, g) == g = [m \in 0..n |-> RestoreTurn(items, g, m)]

\* The states of the loop that adds what was loaded to a cleared library exist.
LEMMA RestoresExist ==
  ASSUME NEW items, NEW n \in Nat
  PROVE  \E g : RestoresOf(items, n, g)
<1> DEFINE Good(m) == \E g : g = [k \in 0..m |-> RestoreTurn(items, g, k)]
           Bad == {m \in Nat : ~Good(m)}
<1>1. SUFFICES ASSUME Bad # {} PROVE FALSE
  BY DEF RestoresOf
<1>2. PICK m \in Bad : \A y \in Bad : m <= y
  BY <1>1, LeastNat
<1>3. m \in Nat /\ ~Good(m)
  OBVIOUS
<1>4. CASE m = 0
  <2> DEFINE g == [k \in 0..0 |-> cleared]
  <2>1. \A k \in 0..0 : k = 0
    OBVIOUS
  <2>2. g = [k \in 0..0 |-> RestoreTurn(items, g, k)]
    BY <2>1 DEF RestoreTurn
  <2> QED BY <1>3, <1>4, <2>2
<1>5. CASE m # 0
  <2>1. m - 1 \in Nat /\ Good(m - 1)
    BY <1>2, <1>3, <1>5
  <2>2. PICK g : g = [k \in 0..(m - 1) |-> RestoreTurn(items, g, k)]
    BY <2>1
  <2> DEFINE h == [k \in 0..m |-> RestoreTurn(items, g, k)]
  <2>3. ASSUME NEW k \in 0..m PROVE RestoreTurn(items, h, k) = RestoreTurn(items, g, k)
    <3>1. CASE k = 0
      BY <3>1 DEF RestoreTurn
    <3>2. CASE k # 0
      <4>1. k - 1 \in 0..(m - 1) /\ k - 1 \in 0..m
        BY <1>3, <3>2
      <4>2. h[k - 1] = RestoreTurn(items, g, k - 1)
        BY <4>1
      <4>3. g[k - 1] = RestoreTurn(items, g, k - 1)
        BY <2>2, <4>1
      <4> HIDE DEF h
      <4> QED BY <3>2, <4>2, <4>3, Zenon DEF RestoreTurn
    <3> QED BY <3>1, <3>2
  <2>4. h = [k \in 0..m |-> RestoreTurn(items, h, k)]
    <3>1. \A k \in 0..m : h[k] = RestoreTurn(items, h, k)
      BY <2>3
    <3>2. h = [k \in 0..m |-> h[k]]
      OBVIOUS
    <3> HIDE DEF h
    <3> QED BY <3>1, <3>2
  <2> QED BY <1>3, <2>4
<1> QED BY <1>4, <1>5

\* The fields of an entry that a load keeps.
SameEntry(e, d) == e.trace.id = d.trace.id /\ e.group = d.group /\ e.shade = d.shade

\* One turn: the blob that reads replaces the entry's trace, or the entry is left out.
LEMMA LoadIs ==
  ASSUME \A id \in DOMAIN folder.blobs : folder.blobs[id] \in StTraces, NEW items, NEW d \in StEntries
  PROVE  \/ load(items, d) = items
         \/ \E e \in StEntries : load(items, d) = Append(items, e) /\ SameEntry(e, d)
<1> DEFINE blob == folder.blobs[d.trace.id]
           e == [d EXCEPT !.trace = blob]
<1>1. CASE readTrace(d.trace) = <<>>
  BY <1>1 DEF load
<1>2. CASE readTrace(d.trace) # <<>>
  <2>1. d.trace.id \in DOMAIN folder.blobs /\ blobReads(blob, d.trace) /\ readTrace(d.trace) = <<blob>>
    BY <1>2 DEF readTrace
  <2>2. blob \in StTraces /\ blob.id = d.trace.id
    BY <2>1 DEF blobReads
  <2>3. readTrace(d.trace)[1] = blob
    BY <2>1
  <2>4. load(items, d) = Append(items, e)
    <3> HIDE DEF blob
    <3>1. load(items, d) = Append(items, [d EXCEPT !.trace = readTrace(d.trace)[1]])
      BY <1>2 DEF load
    <3> QED BY <2>3, <3>1
  <2> HIDE DEF blob
  <2>5. e \in StEntries /\ e.trace = blob /\ e.group = d.group /\ e.shade = d.shade
    BY <2>2 DEF StEntries
  <2> HIDE DEF e
  <2> QED BY <2>2, <2>4, <2>5 DEF SameEntry
<1> QED BY <1>1, <1>2

\* A blob that is its entry's trace reads, and the entry is loaded as it is.
LEMMA LoadWritten ==
  ASSUME NEW items, NEW d \in StEntries, d.trace.id \in DOMAIN folder.blobs, folder.blobs[d.trace.id] = d.trace
  PROVE  load(items, d) = Append(items, d)
<1>1. d.trace.points = pointCountFor(d.trace.fftSize) /\ DOMAIN d = {"trace", "name", "group", "shade"}
  BY DEF StEntries, StTraces
<1>2. blobReads(d.trace, d.trace)
  BY <1>1 DEF blobReads
<1>3. readTrace(d.trace) = <<d.trace>>
  BY <1>2 DEF readTrace
<1>4. readTrace(d.trace) # <<>> /\ readTrace(d.trace)[1] = d.trace
  BY <1>3
<1>5. load(items, d) = Append(items, [d EXCEPT !.trace = readTrace(d.trace)[1]])
  BY <1>4 DEF load
<1>6. [d EXCEPT !.trace = d.trace] = d
  BY DEF StEntries
<1> QED BY <1>4, <1>5, <1>6

\* The entries of a document that were loaded: distinct, and each as the document has it.
LoadedFrom(doc, n, l) ==
  /\ l \in Seq(StEntries) /\ Distinct(l)
  /\ \A i \in DOMAIN l : \E m \in DOMAIN doc : m <= n /\ SameEntry(l[i], doc[m])
  /\ AsWritten(doc) => Len(l) = n /\ \A i \in DOMAIN l : l[i] = doc[i]

\* One more entry of the document.
LEMMA LoadedOneMore ==
  ASSUME \A id \in DOMAIN folder.blobs : folder.blobs[id] \in StTraces,
         NEW doc \in Seq(StEntries), Distinct(doc), OnDisk(doc), NEW m \in DOMAIN doc, NEW l, LoadedFrom(doc, m - 1, l)
  PROVE  LoadedFrom(doc, m, load(l, doc[m]))
<1> DEFINE d == doc[m]
           r == load(l, d)
           n == Len(l)
<1>1. /\ d \in StEntries /\ m \in Nat /\ m >= 1 /\ \A i \in DOMAIN doc : i \in Nat
  <2>1. DOMAIN doc = 1..Len(doc) /\ Len(doc) \in Nat
    OBVIOUS
  <2>2. d \in StEntries
    BY MemberOf
  <2> QED BY <2>1, <2>2
<1>2. /\ l \in Seq(StEntries) /\ Distinct(l)
      /\ \A i \in DOMAIN l : \E k \in DOMAIN doc : k <= m - 1 /\ SameEntry(l[i], doc[k])
      /\ AsWritten(doc) => Len(l) = m - 1 /\ \A i \in DOMAIN l : l[i] = doc[i]
  BY DEF LoadedFrom
<1>3. \A i \in DOMAIN l : \E k \in DOMAIN doc : k <= m /\ SameEntry(l[i], doc[k])
  <2>1. \A k \in DOMAIN doc : k <= m - 1 => k <= m
    BY <1>1
  <2> QED BY <1>2, <2>1
<1>4. r = l \/ \E e \in StEntries : r = Append(l, e) /\ SameEntry(e, d)
  BY <1>1, LoadIs
<1>5. AsWritten(doc) => r = Append(l, d)
  <2>1. SUFFICES ASSUME AsWritten(doc) PROVE r = Append(l, d)
    OBVIOUS
  <2>2. d.trace.id \in DOMAIN folder.blobs /\ folder.blobs[d.trace.id] = d.trace
    BY <2>1 DEF AsWritten, OnDisk
  <2> QED BY <1>1, <2>2, LoadWritten
<1>6. l \in Seq(StEntries) /\ DOMAIN l = 1..n /\ n \in Nat
  BY <1>2
<1> HIDE DEF r
<1>7. CASE r = l
  <2>1. ~AsWritten(doc)
    <3>1. ASSUME r = Append(l, d) PROVE FALSE
      <4>1. Len(Append(l, d)) = n + 1
        BY <1>1, <1>6, OneMore
      <4> QED BY <1>6, <1>7, <3>1, <4>1
    <3> QED BY <1>5, <3>1
  <2> QED BY <1>2, <1>3, <1>7, <2>1 DEF LoadedFrom, r, d
<1>8. ASSUME NEW e \in StEntries, r = Append(l, e), SameEntry(e, d) PROVE LoadedFrom(doc, m, r)
  <2>1. /\ r \in Seq(StEntries) /\ DOMAIN r = 1..(n + 1) /\ Len(r) = n + 1
        /\ (\A i \in DOMAIN l : r[i] = l[i]) /\ r[n + 1] = e
    BY <1>6, <1>8, OneMore
  <2>2. \A i \in DOMAIN r : i \in DOMAIN l \/ i = n + 1
    BY <1>6, <2>1
  <2>3. \A k \in DOMAIN doc : k <= m - 1 => doc[k].trace.id # d.trace.id /\ ~(doc[k].group = d.group /\ doc[k].shade = d.shade)
    <3>1. \A k \in DOMAIN doc : k <= m - 1 => k # m
      BY <1>1
    <3> QED BY <3>1 DEF Distinct
  <2>4. \A i \in DOMAIN l : l[i].trace.id # e.trace.id /\ ~(l[i].group = e.group /\ l[i].shade = e.shade)
    BY <1>2, <1>8, <2>3 DEF SameEntry
  <2> HIDE DEF n, d
  <2>5. Distinct(r)
    <3>1. SUFFICES ASSUME NEW i \in DOMAIN r, NEW j \in DOMAIN r
                   PROVE  /\ r[i].trace.id = r[j].trace.id => i = j
                          /\ r[i].group = r[j].group /\ r[i].shade = r[j].shade => i = j
      BY DEF Distinct
    <3>2. CASE i \in DOMAIN l /\ j \in DOMAIN l
      BY <1>2, <2>1, <3>2 DEF Distinct
    <3>3. CASE i \in DOMAIN l /\ j = n + 1
      BY <2>1, <2>4, <3>3
    <3>4. CASE i = n + 1 /\ j \in DOMAIN l
      BY <2>1, <2>4, <3>4
    <3>5. CASE i = n + 1 /\ j = n + 1
      BY <3>5
    <3> QED BY <2>2, <3>1, <3>2, <3>3, <3>4, <3>5
  <2>6. \A i \in DOMAIN r : \E k \in DOMAIN doc : k <= m /\ SameEntry(r[i], doc[k])
    <3>1. m <= m /\ SameEntry(r[n + 1], doc[m])
      BY <1>1, <1>8, <2>1 DEF d
    <3>2. \A i \in DOMAIN l : \E k \in DOMAIN doc : k <= m /\ SameEntry(r[i], doc[k])
      BY <1>3, <2>1
    <3> QED BY <2>2, <3>1, <3>2
  <2>7. ASSUME AsWritten(doc) PROVE Len(r) = m /\ \A i \in DOMAIN r : r[i] = doc[i]
    <3>1. n = m - 1 /\ \A i \in DOMAIN l : l[i] = doc[i]
      BY <1>2, <2>7 DEF n
    <3>2. Append(l, e) = Append(l, d)
      BY <1>5, <1>8, <2>7
    <3>3. e = d
      <4>1. Append(l, d)[n + 1] = d
        BY <1>1, <1>6, OneMore
      <4> QED BY <1>8, <2>1, <3>2, <4>1
    <3>4. n + 1 = m
      BY <1>1, <1>6, <3>1
    <3>5. r[n + 1] = doc[n + 1]
      BY <2>1, <3>3, <3>4 DEF d
    <3> QED BY <2>1, <2>2, <3>1, <3>4, <3>5
  <2> QED BY <2>1, <2>5, <2>6, <2>7 DEF LoadedFrom
<1> QED BY <1>4, <1>7, <1>8 DEF r, d

\* What OPEN loads is distinct entries; it is the whole document when the blobs are its traces.
LEMMA LoadedIs ==
  ASSUME \A id \in DOMAIN folder.blobs : folder.blobs[id] \in StTraces,
         NEW doc \in Seq(StEntries), Distinct(doc), OnDisk(doc)
  PROVE  loaded(doc) \in Seq(StEntries) /\ Distinct(loaded(doc)) /\ (AsWritten(doc) => loaded(doc) = doc)
<1> DEFINE n == Len(doc)
           Is(g) == g = [m \in 0..n |-> LoadTurn(doc, g, m)]
           turn == CHOOSE g : Is(g)
<1>1. n \in Nat /\ DOMAIN doc = 1..n
  OBVIOUS
<1>2. loaded(doc) = turn[n]
  BY Zenon DEF loaded, LoadTurn
<1> HIDE DEF n
<1>3. \E g : Is(g)
  <2>1. \E g : LoadsOf(doc, n, g)
    BY <1>1, LoadsExist
  <2> QED BY <2>1, Zenon DEF LoadsOf
<1>4. Is(turn)
  BY <1>3
<1> HIDE DEF turn
<1>5. \A m \in 0..n : turn[m] = LoadTurn(doc, turn, m)
  BY <1>4
<1> DEFINE Good(m) == LoadedFrom(doc, m, turn[m])
           Bad == {m \in Nat : m <= n /\ ~Good(m)}
<1>6. Good(0)
  <2>1. turn[0] = <<>>
    BY <1>1, <1>5 DEF LoadTurn
  <2>2. <<>> \in Seq(StEntries) /\ DOMAIN <<>> = {} /\ Len(<<>>) = 0
    OBVIOUS
  <2> QED BY <2>1, <2>2 DEF LoadedFrom, Distinct
<1>7. ASSUME Bad # {} PROVE FALSE
  <2>1. Bad \in SUBSET Nat
    OBVIOUS
  <2>2. PICK m \in Bad : \A y \in Bad : m <= y
    <3> HIDE DEF Bad
    <3> QED BY <1>7, <2>1, LeastNat
  <2>3. m \in Nat /\ m <= n /\ ~Good(m)
    OBVIOUS
  <2>4. m # 0
    BY <1>6, <2>3
  <2>5. m - 1 \in Nat /\ m - 1 <= n /\ ~(m <= m - 1) /\ m \in DOMAIN doc /\ m \in 0..n
    BY <1>1, <2>3, <2>4
  <2>6. Good(m - 1)
    <3> HIDE DEF Good
    <3> QED BY <2>2, <2>5
  <2>7. turn[m] = load(turn[m - 1], doc[m])
    BY <1>5, <2>4, <2>5, Zenon DEF LoadTurn
  <2>8. LoadedFrom(doc, m, load(turn[m - 1], doc[m]))
    BY <2>5, <2>6, LoadedOneMore
  <2> QED BY <2>3, <2>7, <2>8
<1>8. LoadedFrom(doc, n, loaded(doc))
  <2>1. n \notin Bad
    <3> HIDE DEF Bad
    <3> QED BY <1>7
  <2> QED BY <1>1, <1>2, <2>1
<1>9. ASSUME AsWritten(doc) PROVE loaded(doc) = doc
  <2> DEFINE l == loaded(doc)
  <2>1. l \in Seq(StEntries) /\ Len(l) = n /\ \A i \in DOMAIN l : l[i] = doc[i]
    BY <1>8, <1>9 DEF LoadedFrom
  <2> HIDE DEF l
  <2>2. Len(l) = Len(doc) /\ \A i \in 1..Len(l) : l[i] = doc[i]
    BY <1>1, <2>1 DEF n
  <2>3. l = doc
    BY <2>1, <2>2, SeqEqual
  <2> QED BY <2>3 DEF l
<1> QED BY <1>8, <1>9 DEF LoadedFrom

\* The first n entries of what was loaded.
RestoredTo(items, n, l) == l \in Seq(StEntries) /\ Len(l) = n /\ \A i \in DOMAIN l : l[i] = items[i]

\* A loaded entry joins the library under the shade it was saved with.
LEMMA RestoreIs ==
  ASSUME NEW items \in Seq(StEntries), Distinct(items), NEW m \in DOMAIN items, NEW s, RestoredTo(items, m - 1, s.lib)
  PROVE  RestoredTo(items, m, restore(s, items[m]).lib)
<1> DEFINE e == items[m]
           l == s.lib
           n == Len(l)
           shade == nextFreeShadeIndex(l, e.group)
           x == [trace |-> e.trace, name |-> e.name, group |-> e.group, shade |-> shade]
           added == libAdd(l, e.trace, e.name, e.group)
           new == [added EXCEPT ![n + 1].shade = e.shade]
<1>1. DOMAIN items = 1..Len(items) /\ Len(items) \in Nat /\ m \in Nat /\ m >= 1
  OBVIOUS
<1>2. e \in StEntries
  BY MemberOf
<1> HIDE DEF e
<1>3. l \in Seq(StEntries) /\ n = m - 1 /\ DOMAIN l = 1..n /\ n \in Nat /\ \A i \in DOMAIN l : l[i] = items[i]
  BY DEF RestoredTo
<1>4. ~has(l, e.trace.id)
  <2>1. \A i \in DOMAIN l : i \in DOMAIN items /\ i # m
    BY <1>1, <1>3
  <2>2. \A i \in DOMAIN l : items[i].trace.id # e.trace.id
    BY <2>1 DEF Distinct, e
  <2> QED BY <1>3, <2>2 DEF has
<1>5. added = Append(l, x)
  BY <1>4 DEF libAdd
<1>6. shade \in Nat
  BY <1>3, FreeShade
<1> HIDE DEF shade
<1>7. x \in StEntries /\ DOMAIN x = {"trace", "name", "group", "shade"} /\ x.trace = e.trace /\ x.name = e.name /\ x.group = e.group
  BY <1>2, <1>6 DEF StEntries
<1>8. [x EXCEPT !.shade = e.shade] = e
  BY <1>2 DEF StEntries
<1> HIDE DEF x, added
<1>9. /\ added \in Seq(StEntries) /\ DOMAIN added = 1..(n + 1) /\ Len(added) = n + 1
      /\ (\A i \in DOMAIN l : added[i] = l[i]) /\ added[n + 1] = x
  <2> HIDE DEF l
  <2> QED BY <1>3, <1>5, <1>7, OneMore DEF n
<1>10. added # l
  BY <1>3, <1>9
<1>11. restore(s, e).lib = new
  <2> HIDE DEF n
  <2>1. restore(s, e) = [lib |-> [added EXCEPT ![Len(added)].shade = e.shade],
                         rev |-> s.rev + (IF added[Len(added)].shade = e.shade THEN 1 ELSE 2)]
    BY <1>10, Zenon DEF restore, added
  <2> DEFINE k == Len(added)
             done == [added EXCEPT ![k].shade = e.shade]
             more == s.rev + (IF added[k].shade = e.shade THEN 1 ELSE 2)
  <2>2. restore(s, e) = [lib |-> done, rev |-> more]
    BY <2>1, Zenon
  <2>3. k = n + 1
    BY <1>9
  <2> HIDE DEF k
  <2>4. done = new
    BY <2>3
  <2> HIDE DEF done, more
  <2> QED BY <2>2, <2>4
<1> HIDE DEF l, n
<1>12. new = [i \in 1..(n + 1) |-> IF i = n + 1 THEN e ELSE added[i]]
  <2>1. new = [added EXCEPT ![n + 1] = [x EXCEPT !.shade = e.shade]]
    BY <1>9
  <2>2. new = [added EXCEPT ![n + 1] = e]
    BY <1>8, <2>1
  <2> HIDE DEF new
  <2> QED BY <1>9, <2>2
<1> HIDE DEF new
<1>13. \A i \in 1..(n + 1) : i = n + 1 \/ (i \in DOMAIN l /\ i # n + 1)
  BY <1>3
<1>14. \A i \in 1..(n + 1) : new[i] = items[i]
  <2>1. new[n + 1] = items[n + 1]
    BY <1>1, <1>3, <1>12 DEF e
  <2>2. \A i \in DOMAIN l : i # n + 1 => new[i] = items[i]
    BY <1>3, <1>9, <1>12
  <2> QED BY <1>13, <2>1, <2>2
<1>15. \A i \in 1..(n + 1) : i \in DOMAIN items
  BY <1>1, <1>3
<1>16. new \in Seq(StEntries) /\ Len(new) = m
  <2>1. \A i \in 1..(n + 1) : new[i] \in StEntries
    BY <1>14, <1>15, MemberOf
  <2>2. new \in [1..(n + 1) -> StEntries]
    BY <1>12, <2>1
  <2>3. n + 1 \in Nat /\ n + 1 = m
    BY <1>1, <1>3
  <2> QED BY <2>2, <2>3
<1>17. DOMAIN new = 1..(n + 1)
  BY <1>12
<1> QED BY <1>11, <1>14, <1>16, <1>17 DEF RestoredTo, e

\* The library after OPEN is what was loaded.
LEMMA RestoredIs ==
  ASSUME NEW items \in Seq(StEntries), Distinct(items)
  PROVE  restored(items).lib = items
<1> DEFINE n == Len(items)
           Is(g) == g = [m \in 0..n |-> RestoreTurn(items, g, m)]
           turn == CHOOSE g : Is(g)
<1>1. n \in Nat /\ DOMAIN items = 1..n
  OBVIOUS
<1>2. restored(items) = turn[n]
  BY Zenon DEF restored, RestoreTurn
<1> HIDE DEF n
<1>3. \E g : Is(g)
  <2>1. \E g : RestoresOf(items, n, g)
    BY <1>1, RestoresExist
  <2> QED BY <2>1, Zenon DEF RestoresOf
<1>4. Is(turn)
  BY <1>3
<1> HIDE DEF turn
<1>5. \A m \in 0..n : turn[m] = RestoreTurn(items, turn, m)
  BY <1>4
<1> DEFINE Good(m) == RestoredTo(items, m, turn[m].lib)
           Bad == {m \in Nat : m <= n /\ ~Good(m)}
<1>6. Good(0)
  <2>1. turn[0] = cleared
    BY <1>1, <1>5 DEF RestoreTurn
  <2>2. turn[0].lib = <<>>
    BY <2>1 DEF cleared
  <2>3. <<>> \in Seq(StEntries) /\ DOMAIN <<>> = {} /\ Len(<<>>) = 0
    OBVIOUS
  <2> QED BY <2>2, <2>3 DEF RestoredTo
<1>7. ASSUME Bad # {} PROVE FALSE
  <2>1. Bad \in SUBSET Nat
    OBVIOUS
  <2>2. PICK m \in Bad : \A y \in Bad : m <= y
    <3> HIDE DEF Bad
    <3> QED BY <1>7, <2>1, LeastNat
  <2>3. m \in Nat /\ m <= n /\ ~Good(m)
    OBVIOUS
  <2>4. m # 0
    BY <1>6, <2>3
  <2>5. m - 1 \in Nat /\ m - 1 <= n /\ ~(m <= m - 1) /\ m \in DOMAIN items /\ m \in 0..n
    BY <1>1, <2>3, <2>4
  <2>6. Good(m - 1)
    <3> HIDE DEF Good
    <3> QED BY <2>2, <2>5
  <2>7. turn[m] = restore(turn[m - 1], items[m])
    BY <1>5, <2>4, <2>5, Zenon DEF RestoreTurn
  <2>8. RestoredTo(items, m, restore(turn[m - 1], items[m]).lib)
    BY <2>5, <2>6, RestoreIs
  <2> QED BY <2>3, <2>7, <2>8
<1>8. RestoredTo(items, n, restored(items).lib)
  <2>1. n \notin Bad
    <3> HIDE DEF Bad
    <3> QED BY <1>7
  <2> QED BY <1>1, <1>2, <2>1
<1> DEFINE l == restored(items).lib
<1>9. l \in Seq(StEntries) /\ Len(l) = n /\ \A i \in DOMAIN l : l[i] = items[i]
  BY <1>8 DEF RestoredTo
<1> HIDE DEF l
<1>10. Len(l) = Len(items) /\ \A i \in 1..Len(l) : l[i] = items[i]
  BY <1>9 DEF n
<1>11. l = items
  BY <1>9, <1>10, SeqEqual
<1> QED BY <1>11 DEF l

\* OPEN replaces the library by what was loaded; the responses stay.
LEMMA PerformOpenStep ==
  ASSUME StIInv, PerformOpen
  PROVE  StIInv'
<1> DEFINE items == loaded(folder.index)
           new == restored(items)
<1>1. /\ save = Idle /\ lib' = new.lib /\ UNCHANGED <<counter, irs, save, folder>>
      /\ taken' = [taken EXCEPT !.opens = @ + 1, !.opened = {new.lib[i].trace.id : i \in DOMAIN new.lib}]
  BY Zenon DEF PerformOpen
<1>2. StTypes /\ StFolder /\ DOMAIN taken = StTakenFields /\ StResponses
  BY DEF StIInv, StTypes
<1>3. /\ folder.index \in Seq(StEntries) /\ Distinct(folder.index) /\ OnDisk(folder.index)
      /\ \A id \in DOMAIN folder.blobs : folder.blobs[id] \in StTraces
  BY <1>2 DEF StTypes, StFolder
<1>4. items \in Seq(StEntries) /\ Distinct(items)
  BY <1>3, LoadedIs
<1> HIDE DEF items
<1>5. new.lib = items
  BY <1>4, RestoredIs
<1> HIDE DEF new
<1>6. lib' = items
  BY <1>1, <1>5
<1>7. taken' = [taken EXCEPT !.opens = @ + 1, !.opened = {items[i].trace.id : i \in DOMAIN items}]
  BY <1>1, <1>5
<1>8. /\ DOMAIN taken' = StTakenFields /\ taken'.captures = taken.captures /\ taken'.committed = taken.committed
      /\ taken'.torn = taken.torn /\ taken'.opened = {items[i].trace.id : i \in DOMAIN items}
  BY <1>2, <1>7 DEF StTakenFields
<1>9. StTypes'
  BY <1>1, <1>2, <1>4, <1>6, <1>8 DEF StTypes
<1>10. StSaving'
  <2>1. save' = Idle /\ save'.pc = "idle" /\ save'.doc = <<>> /\ DOMAIN save'.doc = {}
    BY <1>1 DEF Idle
  <2> QED BY <2>1 DEF StSaving, Distinct, OnDisk, AsWritten
<1>11. StFolder'
  BY <1>1, <1>2, <1>8 DEF StFolder, OnDisk, AsWritten, Distinct
<1>12. StResponses'
  <2>1. \A i \in DOMAIN lib' : lib'[i].trace.id \in taken'.opened
    BY <1>6, <1>8
  <2>2. \A j \in DOMAIN irs' : irs'[j].id < counter'
    BY <1>1, <1>2 DEF StResponses
  <2> QED BY <2>1, <2>2 DEF StResponses
<1>13. Distinct(lib')
  BY <1>4, <1>6
<1> QED BY <1>9, <1>10, <1>11, <1>12, <1>13 DEF StIInv, Distinct

-------------------------------------------------------------------------------
(* TraceStore: the theorem. *)

\* The program starts with nothing, and no folder.
LEMMA StoreStarts ==
  ASSUME StoreInit
  PROVE  StIInv
<1>1. /\ lib = <<>> /\ counter = 0 /\ irs = <<>> /\ save = Idle
      /\ folder = [saved |-> FALSE, index |-> <<>>, blobs |-> <<>>]
      /\ taken = [captures |-> 0, run |-> 1, saves |-> 0, opens |-> 0, committed |-> <<>>, torn |-> FALSE,
                  opened |-> {}]
  BY DEF StoreInit
<1>2. save.pc = "idle" /\ save.doc = <<>> /\ DOMAIN save.doc = {} /\ DOMAIN lib = {} /\ DOMAIN irs = {}
  BY <1>1 DEF Idle
<1>3. save \in [pc : {"idle", "blob", "rename", "commit"}, k : Nat, doc : Seq(StEntries)]
  BY <1>1 DEF Idle
<1>4. /\ DOMAIN folder = {"saved", "index", "blobs"} /\ folder.saved = FALSE /\ folder.index = <<>>
      /\ DOMAIN folder.index = {} /\ DOMAIN folder.blobs = {}
  BY <1>1
<1>5. DOMAIN taken = StTakenFields /\ taken.torn = FALSE /\ taken.captures = 0
  BY <1>1 DEF StTakenFields
<1>6. StTypes
  <2>1. lib \in Seq(StEntries) /\ irs \in Seq([id : Nat, data : Nat]) /\ Len(irs) <= IrCapacity
    BY <1>1, StoreAssumption
  <2>2. folder.index \in Seq(StEntries)
    BY <1>4
  <2> QED BY <1>1, <1>3, <1>4, <1>5, <2>1, <2>2, StoreAssumption DEF StTypes
<1>7. StSaving
  BY <1>1, <1>2 DEF StSaving, Distinct, OnDisk, AsWritten
<1>8. StFolder
  BY <1>4, <1>5 DEF StFolder, Distinct, OnDisk, AsWritten
<1> QED BY <1>2, <1>6, <1>7, <1>8 DEF StIInv, StResponses, Distinct

\* Every step.
LEMMA StoreSteps ==
  ASSUME StIInv, [StoreNext]_storeVars
  PROVE  StIInv'
<1>1. CASE \E g \in {"RTA", "TRANSFER"} : StoreClicked(g)
  BY <1>1, StoreClickedStep
<1>2. CASE StoreNothing
  BY <1>2, StoreNothingStep
<1>3. CASE SweepFinish
  BY <1>3, SweepFinishStep
<1>4. CASE SaveBegin
  BY <1>4, SaveBeginStep
<1>5. CASE PerformOpen
  BY <1>5, PerformOpenStep
<1>6. CASE Restart
  BY <1>6, RestartStep
<1>7. CASE \E ok \in BOOLEAN : writeTrace(ok)
  BY <1>7, WriteTraceStep
<1>8. CASE \E ok \in BOOLEAN : renameTrace(ok)
  BY <1>8, RenameTraceStep
<1>9. CASE \E ok \in BOOLEAN : writeIndex(ok)
  BY <1>9, WriteIndexStep
<1>10. CASE \E ok \in BOOLEAN : renameIndex(ok)
  BY <1>10, RenameIndexStep
<1>11. CASE UNCHANGED storeVars
  BY <1>11 DEF storeVars, StIInv, StTypes, StSaving, StFolder, StResponses, Distinct, OnDisk, AsWritten
<1> QED BY <1>1, <1>2, <1>3, <1>4, <1>5, <1>6, <1>7, <1>8, <1>9, <1>10, <1>11 DEF StoreNext

\* What the invariant says of the library, the folder and the responses.
LEMMA StoreFrom ==
  ASSUME StIInv
  PROVE  StoreInv
<1>1. /\ StTypes /\ Distinct(lib) /\ StFolder /\ StResponses /\ MaxCaptures \in Nat
  BY StoreAssumption DEF StIInv
<1>2. StoreTypeOK
  <2>1. \A e \in StEntries : e.trace.points = pointCountFor(e.trace.fftSize)
    BY DEF StEntries, StTraces
  <2>2. \A i \in DOMAIN lib : lib[i] \in StEntries
    BY <1>1, MemberOf DEF StTypes
  <2>3. counter \in 0..MaxCaptures
    BY <1>1 DEF StTypes
  <2>4. save.pc \in {"idle", "blob", "rename", "commit"}
    BY SaveFields
  <2> QED BY <1>1, <2>1, <2>2, <2>3, <2>4 DEF StoreTypeOK, StTypes
<1>3. LibraryIdsUnique /\ ShadesDistinct
  BY <1>1 DEF LibraryIdsUnique, ShadesDistinct, Distinct
<1>4. IndexNamesBlobs
  BY <1>1 DEF IndexNamesBlobs, StFolder, OnDisk
<1>5. SessionSurvives
  <2>1. SUFFICES ASSUME ~taken.torn, folder.saved PROVE loaded(folder.index) = taken.committed
    BY DEF SessionSurvives
  <2>2. /\ folder.index \in Seq(StEntries) /\ Distinct(folder.index) /\ OnDisk(folder.index) /\ AsWritten(folder.index)
        /\ (\A id \in DOMAIN folder.blobs : folder.blobs[id] \in StTraces) /\ folder.index = taken.committed
    BY <1>1, <2>1 DEF StFolder, StTypes
  <2>3. loaded(folder.index) = folder.index
    BY <2>2, LoadedIs
  <2> QED BY <2>2, <2>3
<1>6. IrOfOwnTrace
  BY <1>1 DEF IrOfOwnTrace, irFind, StResponses
<1> QED BY <1>2, <1>3, <1>4, <1>5, <1>6 DEF StoreInv

\* For every number of captures, saves, opens and starts, and every capacity of the response store:
\* the library keeps ids and shades apart, an index names blobs that are there, a session whose
\* blobs no other run of the program has replaced is loaded whole, whatever later save was cut
\* short, and a trace of this run has its own impulse response or none (StoreInv).
THEOREM StoreKeepsItsSessions ==
  StoreSpec => []StoreInv
<1>1. StoreInit => StIInv
  BY StoreStarts
<1>2. StIInv /\ [StoreNext]_storeVars => StIInv'
  BY StoreSteps
<1>3. StIInv => StoreInv
  BY StoreFrom
<1> QED BY <1>1, <1>2, <1>3, PTL DEF StoreSpec
===============================================================================
