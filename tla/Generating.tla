------------------------------ MODULE Generating ------------------------------
(***************************************************************************)
(* The operator's generator: GeneratorRunner, the GEN strip that drives it *)
(* (MainComponentGenerator) and the level a measurement takes from it      *)
(* (MeasurementDrive).  One measurement, LOCATE, shares the output with it;*)
(* CAL holds the measurement channel without playing.                      *)
(*                                                                         *)
(* Every handler runs on the message thread and is one step; the device,   *)
(* its callback and the clock run between them.  Steps inside setSource    *)
(* are OutputEngine's.  Levels, frequencies and rates are small ranks, an  *)
(* output list is the set of its channels, a readout is its reason.        *)
(***************************************************************************)
EXTENDS Integers, FiniteSets, FiniteSetsExt

CONSTANTS GnCeiling,   \* kGeneratorCeilingDb; the floor is 0
          GnHz,        \* the frequencies the combo offers
          GnRates,     \* the rates a device may have; the highest playable frequency of each
          GnOutputs,   \* the output counts a device may have
          GnTimeout,   \* kGeneratorStopTimeoutMs, in clock steps
          GnBounds     \* the bounds of one behaviour: records [clicks, devices, presses]

ASSUME GnAssumption == /\ GnCeiling \in Nat \ {0} /\ GnTimeout \in Nat \ {0}
                       /\ GnHz \subseteq Nat \ {0} /\ GnRates \subseteq Nat \ {0}
                       /\ GnOutputs \subseteq Nat \ {0}
                       /\ \E hz \in GnHz : \A k \in GnHz : k <= hz
                       /\ \E n \in GnOutputs : \A k \in GnOutputs : k <= n
                       /\ GnBounds \subseteq [clicks : Nat, devices : Nat, presses : Nat]

VARIABLES gnEng,    \* the OutputEngine as its callers see it
          gnDev,    \* the input mode, and the device while it is not SYNTHETIC
          gnRun,    \* GeneratorRunner; armedIn is history: the input mode of its start
          gnUi,     \* the strip: fast timer, measurement level, refusal note, an open OUT menu
          gnHold,   \* who else holds the output, and the drive it took at its press
          gnLeft    \* what is left of the behaviour's bounds

gnVars == <<gnEng, gnDev, gnRun, gnUi, gnHold, gnLeft>>

GnDefault == [signal |-> "Pink", level |-> 1, hz |-> Max(GnHz), outputs |-> {0}]
GnNoDrive == [level |-> GnCeiling, outputs |-> {}]

(***************************************************************************)
(* GeneratorModel and MeasurementDrive.                                    *)
(***************************************************************************)
clampGeneratorLevelDb(db) == Max({0, Min({db, GnCeiling})})
stepGeneratorLevelDb(current, steps) == clampGeneratorLevelDb(current + steps)

\* A sine's frequency stays below the session's band edge; noise has none.
makeSource(s, rate) ==
    [by |-> "GEN", signal |-> s.signal, level |-> clampGeneratorLevelDb(s.level),
     hz |-> IF s.signal = "Sine" THEN Min({s.hz, rate}) ELSE 0]

pruneOutputs(outputs, n) ==
    LET kept == {ch \in outputs : n = 0 \/ ch < n} IN IF kept = {} THEN {0} ELSE kept

measurementDrive(mode, s, n, own) ==
    IF mode = "Own" THEN [level |-> clampGeneratorLevelDb(own), outputs |-> {}]
    ELSE [level |-> clampGeneratorLevelDb(s.level), outputs |-> pruneOutputs(s.outputs, n)]

(***************************************************************************)
(* The engine.                                                             *)
(***************************************************************************)
GnQuiescent(e) == e.idle /\ ~e.armed
GnSet(e, source) == [e EXCEPT !.slot = source, !.slotEpoch = e.epoch]
GnArm(e) == [e EXCEPT !.armed = TRUE]
GnDisarm(e) == [e EXCEPT !.armed = FALSE]
GnRoute(e, outputs) == [e EXCEPT !.routes = outputs]
GnPrepare(e, rate) == [e EXCEPT !.epoch = @ + 1, !.armed = FALSE, !.idle = TRUE, !.rate = rate]

(***************************************************************************)
(* The environment: generatorEnvironment and outputHolderName.             *)
(***************************************************************************)
GnLive == gnDev.synthetic \/ gnDev.running
GnNumOutputs == IF gnDev.synthetic THEN 2 ELSE gnDev.outs

(***************************************************************************)
(* GeneratorRunner: each operation maps [run, eng] to its result.          *)
(***************************************************************************)
GnNow == [run |-> gnRun, eng |-> gnEng]
GnSounding(r) == r.state \in {"Playing", "Swapping"}

\* routeSelected(): every output on or off, as it is ticked or not.
routeSelected(g) == [g EXCEPT !.eng = GnRoute(@, g.run.settings.outputs)]

goIdle(g, reason) == [run |-> [g.run EXCEPT !.state = "Idle", !.reason = reason], eng |-> GnDisarm(g.eng)]

start ==
    LET pruned == [GnNow EXCEPT !.run.settings.outputs = pruneOutputs(@, GnNumOutputs)]
        armed == [run |-> [pruned.run EXCEPT !.state = "Playing", !.armedEpoch = gnEng.epoch, !.reason = "",
                                            !.armedIn = gnDev.synthetic],
                  eng |-> GnSet(gnEng, makeSource(pruned.run.settings, gnEng.rate))]
    IN  IF gnRun.state # "Idle" THEN GnNow
        ELSE IF gnHold.by # "" THEN [GnNow EXCEPT !.run.reason = "busy"]
        ELSE IF ~GnLive THEN [GnNow EXCEPT !.run.reason = "noDevice"]
        ELSE IF ~GnQuiescent(gnEng) THEN [pruned EXCEPT !.run.reason = "engineBusy"]
        ELSE [routeSelected(armed) EXCEPT !.eng = GnArm(@)]

stop ==
    IF ~GnSounding(gnRun) THEN GnNow
    ELSE [run |-> [gnRun EXCEPT !.state = "Stopping", !.waited = 0], eng |-> GnDisarm(gnEng)]

genCancel == IF gnRun.state = "Idle" THEN GnNow ELSE goIdle(GnNow, "cancelled")

sourceChanged(next) ==
    \/ next.signal # gnRun.settings.signal
    \/ next.level # gnRun.settings.level
    \/ next.signal = "Sine" /\ next.hz # gnRun.settings.hz

apply(asked) ==
    LET next == [asked EXCEPT !.level = clampGeneratorLevelDb(@), !.outputs = pruneOutputs(@, GnNumOutputs)]
        set == [GnNow EXCEPT !.run.settings = next]
        routed == IF GnSounding(gnRun) /\ next.outputs # gnRun.settings.outputs THEN routeSelected(set) ELSE set
    IN  IF asked.outputs = {} THEN GnNow
        ELSE IF gnRun.state = "Playing" /\ sourceChanged(next)
        THEN [run |-> [routed.run EXCEPT !.state = "Swapping", !.waited = 0], eng |-> GnDisarm(routed.eng)]
        ELSE routed

\* poll(): what an output that disappeared leaves ticked, a lost session or device, then the wait.
GnPruned ==
    LET pruned == pruneOutputs(gnRun.settings.outputs, GnNumOutputs)
        set == [GnNow EXCEPT !.run.settings.outputs = pruned]
    IN  IF GnNumOutputs = 0 \/ pruned = gnRun.settings.outputs THEN GnNow
        ELSE IF GnSounding(gnRun) THEN routeSelected(set) ELSE set

GnSwapped(g) == [run |-> [g.run EXCEPT !.state = "Playing"],
                 eng |-> GnArm(GnSet(g.eng, makeSource(g.run.settings, g.eng.rate)))]

\* Mutations: the wait of a stop that never went quiet ends as a confirmed one; a stopped wait has no end.
GnWaitedConfirmed(g) ==
    CASE g.run.state = "Swapping" /\ GnQuiescent(g.eng) -> GnSwapped(g)
      [] g.run.state = "Swapping" /\ ~GnQuiescent(g.eng) /\ g.run.waited >= GnTimeout -> goIdle(g, "didNotSettle")
      [] g.run.state = "Stopping" /\ (GnQuiescent(g.eng) \/ g.run.waited >= GnTimeout)
             -> [g EXCEPT !.run.state = "Idle", !.run.reason = ""]
      [] OTHER -> g
GnWaitedForQuiet(g) ==
    CASE g.run.state = "Swapping" /\ GnQuiescent(g.eng) -> GnSwapped(g)
      [] g.run.state = "Stopping" /\ GnQuiescent(g.eng) -> [g EXCEPT !.run.state = "Idle", !.run.reason = ""]
      [] OTHER -> g
GnWaited(g) ==
    CASE g.run.state = "Swapping" /\ GnQuiescent(g.eng) -> GnSwapped(g)
      [] g.run.state = "Swapping" /\ ~GnQuiescent(g.eng) /\ g.run.waited >= GnTimeout -> goIdle(g, "didNotSettle")
      [] g.run.state = "Stopping" /\ GnQuiescent(g.eng) -> [g EXCEPT !.run.state = "Idle", !.run.reason = ""]
      [] g.run.state = "Stopping" /\ ~GnQuiescent(g.eng) /\ g.run.waited >= GnTimeout
             -> [g EXCEPT !.run.state = "Idle", !.run.reason = "notConfirmedSilent"]
      [] OTHER -> g

genPoll ==
    LET g == GnPruned
    IN  CASE g.run.state = "Idle" -> g
          [] g.run.state # "Idle" /\ g.eng.epoch # g.run.armedEpoch -> goIdle(g, "deviceRestarted")
          [] g.run.state # "Idle" /\ g.eng.epoch = g.run.armedEpoch /\ ~GnLive /\ GnSounding(g.run)
                 -> goIdle(g, "deviceStopped")
          [] OTHER -> GnWaited(g)

(***************************************************************************)
(* The strip.  Every handler ends in refresh().                            *)
(***************************************************************************)
needsFastPoll(r) == r.state \in {"Swapping", "Stopping"}

refresh(ui, run) == [ui EXCEPT !.timer = needsFastPoll(run),
                               !.refusal = IF @ # gnHold.by THEN "" ELSE @]

GnDone(g, ui) == gnRun' = g.run /\ gnEng' = g.eng /\ gnUi' = refresh(ui, g.run)

GnUnrefused == [gnUi EXCEPT !.refusal = ""]
GnClick == gnLeft.clicks > 0 /\ gnLeft' = [gnLeft EXCEPT !.clicks = @ - 1]

genClicked == /\ GnClick /\ gnRun.state # "Stopping"    \* the button is disabled
              /\ GnDone(IF gnRun.state # "Idle" THEN stop ELSE start, GnUnrefused)
              /\ UNCHANGED <<gnDev, gnHold>>

stepClicked(steps) ==
    /\ GnClick
    /\ GnDone(apply([gnRun.settings EXCEPT !.level = stepGeneratorLevelDb(@, steps)]), GnUnrefused)
    /\ UNCHANGED <<gnDev, gnHold>>

signalSelected(signal) == /\ GnClick /\ signal # gnRun.settings.signal     \* a combo reports only a change
                          /\ GnDone(apply([gnRun.settings EXCEPT !.signal = signal]), GnUnrefused)
                          /\ UNCHANGED <<gnDev, gnHold>>

frequencySelected(hz) == /\ GnClick /\ gnRun.settings.signal = "Sine" /\ hz # gnRun.settings.hz
                         /\ GnDone(apply([gnRun.settings EXCEPT !.hz = hz]), GnUnrefused)
                         /\ UNCHANGED <<gnDev, gnHold>>

\* outputChoices(): the rows of the OUT menu, and those that can be picked (the last tick cannot).
outputChoices ==
    LET ticked == gnRun.settings.outputs
        rows == IF GnNumOutputs > 0 THEN 0..(GnNumOutputs - 1) ELSE 0..Max(ticked)
    IN  {ch \in rows : ~(ch \in ticked /\ Cardinality(ticked \cap rows) <= 1)}

\* showOutputMenu(): the menu stays open, with the rows it was built with, while the rest goes on.
showOutputMenu == /\ gnUi.menu = {} /\ gnLeft.clicks > 0 /\ outputChoices # {}
                  /\ gnUi' = [gnUi EXCEPT !.menu = outputChoices]
                  /\ UNCHANGED <<gnEng, gnDev, gnRun, gnHold, gnLeft>>

\* outputToggled(): a row of the menu, against the settings of now.
outputToggled(ch) ==
    /\ GnClick /\ ch \in gnUi.menu
    /\ LET ticked == gnRun.settings.outputs
       IN  GnDone(apply([gnRun.settings EXCEPT !.outputs = IF ch \in ticked THEN ticked \ {ch} ELSE ticked \cup {ch}]),
                  [GnUnrefused EXCEPT !.menu = {}])
    /\ UNCHANGED <<gnDev, gnHold>>

refuseWhileMeasuring == gnHold.by \notin {"", "CAL"}

GnRefused == gnUi' = refresh([gnUi EXCEPT !.refusal = gnHold.by], gnRun)

measurementModeClicked ==
    /\ GnClick
    /\ IF refuseWhileMeasuring THEN GnRefused
       ELSE gnUi' = refresh([GnUnrefused EXCEPT !.mode = IF @ = "Own" THEN "FollowGen" ELSE "Own"], gnRun)
    /\ UNCHANGED <<gnEng, gnDev, gnRun, gnHold>>

ownStepClicked(steps) ==
    /\ GnClick /\ gnUi.mode = "Own"      \* its buttons are shown
    /\ IF refuseWhileMeasuring THEN GnRefused
       ELSE gnUi' = refresh([GnUnrefused EXCEPT !.own = stepGeneratorLevelDb(@, steps)], gnRun)
    /\ UNCHANGED <<gnEng, gnDev, gnRun, gnHold>>

\* poll(), from the main timer always and from the strip's own timer while a wait runs.
GnMainPoll == GnDone(genPoll, gnUi) /\ UNCHANGED <<gnDev, gnHold, gnLeft>>
GnFastPoll == gnUi.timer /\ GnMainPoll

(***************************************************************************)
(* The others: a LOCATE press and its end, a CAL capture.                  *)
(***************************************************************************)
GnOutputBusy == gnRun.state # "Idle" \/ gnHold.by # ""

GnLocate ==
    /\ ~GnOutputBusy /\ gnLeft.presses > 0
    /\ gnLeft' = [gnLeft EXCEPT !.presses = @ - 1]
    /\ LET drive == measurementDrive(gnUi.mode, gnRun.settings, GnNumOutputs, gnUi.own)
           outputs == IF drive.outputs = {} THEN {0} ELSE drive.outputs
           source == [by |-> "LOCATE", signal |-> "Pink", level |-> drive.level, hz |-> 0]
       IN  IF GnQuiescent(gnEng)
           THEN /\ gnEng' = GnArm(GnRoute(GnSet(gnEng, source), outputs))
                /\ gnHold' = [by |-> "LOCATE", mode |-> gnUi.mode, drive |-> [level |-> drive.level, outputs |-> outputs]]
           ELSE UNCHANGED <<gnEng, gnHold>>
    /\ UNCHANGED <<gnDev, gnRun, gnUi>>

GnFree == [by |-> "", mode |-> gnUi.mode, drive |-> GnNoDrive]

GnLocateOver == /\ gnHold.by = "LOCATE" /\ gnHold' = GnFree /\ gnEng' = GnDisarm(gnEng)
                /\ UNCHANGED <<gnDev, gnRun, gnUi, gnLeft>>

GnCalibrate == /\ ~GnOutputBusy /\ gnLeft.presses > 0
               /\ gnHold' = [GnFree EXCEPT !.by = "CAL"] /\ gnLeft' = [gnLeft EXCEPT !.presses = @ - 1]
               /\ UNCHANGED <<gnEng, gnDev, gnRun, gnUi>>
GnCalibrated == gnHold.by = "CAL" /\ gnHold' = GnFree /\ UNCHANGED <<gnEng, gnDev, gnRun, gnUi, gnLeft>>

(***************************************************************************)
(* The device, its callback, the input mode and the clock.                 *)
(***************************************************************************)
GnReconfigure == gnLeft.devices > 0 /\ gnLeft' = [gnLeft EXCEPT !.devices = @ - 1]

GnDeviceStart(outs, rate) == /\ GnReconfigure /\ ~gnDev.synthetic
                             /\ gnDev' = [gnDev EXCEPT !.running = TRUE, !.outs = outs]
                             /\ gnEng' = GnPrepare(gnEng, rate)
                             /\ UNCHANGED <<gnRun, gnUi, gnHold>>
GnDeviceStop(outs) == /\ GnReconfigure /\ gnDev.running
                      /\ gnDev' = [gnDev EXCEPT !.running = FALSE, !.outs = outs]
                      /\ UNCHANGED <<gnEng, gnRun, gnUi, gnHold>>

\* setSyntheticMode(): LOCATE and GEN are cancelled; entering stops the device and prepares the
\* engine again, leaving prepares nothing.
GnModeChanged == genCancel
GnSetSynthetic(rate) ==
    /\ GnReconfigure
    /\ LET g == GnModeChanged
           quiet == IF gnHold.by = "LOCATE" THEN GnDisarm(g.eng) ELSE g.eng
       IN  /\ gnRun' = g.run /\ gnUi' = refresh(gnUi, g.run)
           /\ gnEng' = IF gnDev.synthetic THEN quiet ELSE GnPrepare(quiet, rate)
    /\ gnHold' = IF gnHold.by = "LOCATE" THEN GnFree ELSE gnHold
    /\ gnDev' = [gnDev EXCEPT !.synthetic = ~@, !.running = FALSE, !.outs = 0]

\* render(): an armed source of this session sounds; any other ramps down, in this block or later.
GnRender(settled) ==
    /\ GnLive
    /\ gnEng' = IF gnEng.armed /\ gnEng.slotEpoch = gnEng.epoch THEN [gnEng EXCEPT !.idle = FALSE]
                ELSE [gnEng EXCEPT !.idle = @ \/ settled]
    /\ UNCHANGED <<gnDev, gnRun, gnUi, gnHold, gnLeft>>

GnClock == /\ needsFastPoll(gnRun) /\ gnRun.waited < GnTimeout
           /\ gnRun' = [gnRun EXCEPT !.waited = @ + 1]
           /\ UNCHANGED <<gnEng, gnDev, gnUi, gnHold, gnLeft>>

GnInit ==
    \E rate \in GnRates, bound \in GnBounds :
       /\ gnEng = [epoch |-> 1, armed |-> FALSE, idle |-> TRUE, rate |-> rate, routes |-> {}, slotEpoch |-> 0,
                   slot |-> [by |-> "none", signal |-> "Pink", level |-> 0, hz |-> 0]]
       /\ gnDev = [synthetic |-> FALSE, running |-> TRUE, outs |-> Max(GnOutputs)]
       /\ gnRun = [state |-> "Idle", settings |-> GnDefault, armedEpoch |-> 0, waited |-> 0, reason |-> "",
                armedIn |-> FALSE]
       /\ gnUi = [timer |-> FALSE, mode |-> "FollowGen", own |-> GnCeiling, refusal |-> "", menu |-> {}]
       /\ gnHold = [by |-> "", mode |-> "FollowGen", drive |-> GnNoDrive]
       /\ gnLeft = bound

GnNext ==
    \/ genClicked \/ showOutputMenu \/ measurementModeClicked
    \/ \E s \in {-1, 1} : stepClicked(s) \/ ownStepClicked(s)
    \/ \E s \in {"Pink", "White", "Sine"} : signalSelected(s)
    \/ \E hz \in GnHz : frequencySelected(hz)
    \/ \E ch \in gnUi.menu : outputToggled(ch)
    \/ GnMainPoll
    \/ GnLocate \/ GnLocateOver \/ GnCalibrate \/ GnCalibrated
    \/ \E outs \in GnOutputs, rate \in GnRates : GnDeviceStart(outs, rate)
    \/ \E outs \in {0, gnDev.outs} : GnDeviceStop(outs)
    \/ \E rate \in GnRates : GnSetSynthetic(rate)
    \/ \E settled \in BOOLEAN : GnRender(settled)
    \/ GnClock

\* The strip's timer and the clock run; neither the user nor the callback needs to.
GnFairness == WF_gnVars(GnFastPoll) /\ WF_gnVars(GnClock)

GnSpec == GnInit /\ [][GnNext]_gnVars /\ GnFairness

(***************************************************************************)
(* What the generator promises.                                            *)
(***************************************************************************)
\* A playing generator plays what the strip shows: the slot holds the source of the settings of
\* now, armed, and exactly the ticked outputs are routed, in the session it was armed for
\* (GeneratorRunner::start, apply and poll between them, across swaps, toggles and stale menus).
GnPlaysWhatItShows ==
    gnEng.epoch = gnRun.armedEpoch =>
       /\ gnRun.state = "Playing" => /\ gnEng.armed /\ gnEng.slotEpoch = gnEng.epoch
                                     /\ gnEng.slot = makeSource(gnRun.settings, gnEng.rate)
       /\ GnSounding(gnRun) => gnEng.routes = gnRun.settings.outputs /\ gnRun.settings.outputs # {}

\* "stopped" without a clause is confirmed: an idle generator with an empty reason, whose source is
\* still in the slot, has a quiet engine (poll's two ways out of Stopping).
GnStoppedIsSilent ==
    gnRun.state = "Idle" /\ gnRun.reason = "" /\ gnEng.slot.by # "LOCATE" => GnQuiescent(gnEng)

\* The generator never survives an input-mode change, and what is armed belongs to whoever holds
\* the output now (setSyntheticMode's explicit cancel: leaving SYNTHETIC moves no epoch).
GnArmedIsHeld ==
    gnEng.armed => \/ gnEng.slot.by = "GEN" /\ gnRun.state = "Playing" /\ gnRun.armedIn = gnDev.synthetic
                   \/ gnEng.slot.by = "LOCATE" /\ gnHold.by = "LOCATE"

\* A measurement plays the level its press took, and while it runs the MEAS control still shows the
\* mode and, in OWN, the level it plays (refuseWhileMeasuring).
GnDriveIsShown ==
    gnHold.by = "LOCATE" =>
       /\ gnEng.slot.by = "LOCATE" /\ gnEng.slot.level = gnHold.drive.level
       /\ gnUi.mode = gnHold.mode
       /\ gnUi.mode = "Own" => gnUi.own = gnHold.drive.level

\* A swap and a stop end, with nothing but the strip's timer and the clock: the device may have
\* stopped calling back (needsFastPoll keeps the timer, the time-out ends the wait).
GnSettles == needsFastPoll(gnRun) ~> ~needsFastPoll(gnRun)

\* The generator pane and the engine agree: what plays is what is shown, STOP is silent, and an
\* armed source has an owner whose drive is the one on screen.
GnInv == GnPlaysWhatItShows /\ GnStoppedIsSilent /\ GnArmedIsHeld /\ GnDriveIsShown
===============================================================================
