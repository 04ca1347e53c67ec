------------------------------ MODULE EqWorkflow ------------------------------
(***************************************************************************)
(* The EQ pane: EqPaneModel over EqSession (pick a measurement, SUGGEST,   *)
(* AUTO EQ, accept, decline, mark applied), EqVerifyRunner (play noise and *)
(* compare what is measured with the prediction) and ADOPT, and the export *)
(* of the filters.  The world outside is a room, the filters the operator  *)
(* has dialled into the rig, and the live transfer measurement.            *)
(***************************************************************************)
EXTENDS EqAllocator

CONSTANTS EqGrids,     \* grid |-> its bin frequencies, ascending from 0
          EqSigma,     \* coherence |-> sigmaMultiple * h1SigmaDb
          EqCorridor,  \* corridorHalfWidthDb
          EqChips,     \* candidates a SUGGEST asks for (3)
          EqBounds     \* bounds, one record for a behaviour: steps, their kinds, and the rooms (level and
                       \* excess phase by frequency, coherence by bin, validity of the phase)

\* Grids of at least two bins, none above the common multiple; a room with a level, a phase and a
\* coherence for each of them.
ASSUME EqAssumption ==
    /\ {"A", "B"} \subseteq DOMAIN EqGrids /\ "none" \notin DOMAIN EqGrids /\ EqChips \in Nat
    /\ \A g \in DOMAIN EqGrids : EqGrids[g] \in Seq(0..EqUnit) /\ Len(EqGrids[g]) >= 2
    /\ \A b \in EqBounds : \A w \in b.rooms :
           /\ w.phaseValid \in BOOLEAN
           /\ \A g \in DOMAIN EqGrids :
                  /\ w.coherence[g] \in [DOMAIN EqGrids[g] -> Nat]
                  /\ \A k \in DOMAIN EqGrids[g] : w.room[EqGrids[g][k]] \in Int /\ w.phase[EqGrids[g][k]] \in Int

VARIABLES eqWorld,  \* the room, the rig, the live measurement and the output
          eqLib,    \* the trace library: id |-> trace and visibility; no trace has the id 0
          eqPane,   \* EqPaneModel and its EqSession
          eqVer,    \* EqVerifyRunner and its EqVerify
          eqCount   \* the bounds of this behaviour and the steps taken

eqVars == <<eqWorld, eqLib, eqPane, eqVer, eqCount>>

EqMay(kind) == kind \in eqCount.kinds /\ eqCount.used < eqCount.steps
EqUse == eqCount' = [eqCount EXCEPT !.used = @ + 1]

-----------------------------------------------------------------------------
(* Traces and grids. *)

\* The sum of the responses of a collection of filters.
Sounds(specs, f) == SumFunction([i \in DOMAIN specs |-> responseDb(specs[i], f)])

\* What the live transfer measures now, on a grid.
liveTrace(grid) ==
    [grid |-> grid, coherence |-> eqWorld.coherence[grid], finite |-> TRUE,
     db |-> [k \in DOMAIN EqGrids[grid] |-> eqWorld.room[EqGrids[grid][k]] + Sounds(eqWorld.rig, EqGrids[grid][k])],
     phase |-> [k \in DOMAIN EqGrids[grid] |-> eqWorld.phase[EqGrids[grid][k]]]]

\* Targets on another grid: the point at or below, or the first one above 0 Hz.
resampleTargetDb(source, grid) ==
    LET from == EqGrids[source.grid]
        at(f) == LET below == {k \in DOMAIN from : from[k] > 0 /\ from[k] <= f}
                 IN  IF below = {} THEN source.db[2] ELSE source.db[Max(below)]
    IN  IF source.grid = "none" THEN [k \in DOMAIN EqGrids[grid] |-> 0]
        ELSE IF source.grid = grid THEN source.db
        ELSE [k \in DOMAIN EqGrids[grid] |-> at(EqGrids[grid][k])]

NoTarget == [grid |-> "none", db |-> <<>>]

\* A bin is trusted when its coherence reaches the floor; without a coherence none is.
buildTrustMask(coherence) == {k \in DOMAIN coherence : coherence[k] > 0}

-----------------------------------------------------------------------------
(* EqSession *)

\* filterBandHz, the -3 dB edges: |f^2 - fc^2| <= f * width.
Declines(spec, f) == EqAbs(f * f - spec.fc * spec.fc) * EqQ <= f * spec.width

hasMeasurement == eqPane.grid # "none"
hz(p) == IF p.grid = "none" THEN <<>> ELSE EqGrids[p.grid]

\* The places of the filters not marked applied, and the filters of some places.
Unapplied(filters) == {i \in DOMAIN filters : ~filters[i].applied}
Specs(filters, places) == [i \in places |-> filters[i].spec]

\* What remove_if leaves: the filters marked applied, in their order.
AppliedOnly(filters) ==
    LET places == DOMAIN filters \ Unapplied(filters)
        at(k) == CHOOSE i \in places : Cardinality({j \in places : j <= i}) = k
    IN  [k \in 1..Cardinality(places) |-> filters[at(k)]]

\* The mask is kept; the bands of the declined chips are put on the new grid by nobody.
keepExclusionMask(p) == p

rebuildExclusionMask(p) ==
    [p EXCEPT !.excluded = {k \in DOMAIN hz(p) : \E i \in DOMAIN p.declined : Declines(p.declined[i], hz(p)[k])}]

\* EqSession::setMeasurement: the filters, their marks and the declined bands stay.
setMeasurement(p) == rebuildExclusionMask([p EXCEPT !.trusted = buildTrustMask(p.coherence)])

ghostDb(p) == [k \in DOMAIN hz(p) |-> p.db[k] + Sounds(Specs(p.filters, Unapplied(p.filters)), hz(p)[k])]
workingResidualDb(p) == [k \in DOMAIN hz(p) |-> ghostDb(p)[k] - p.target[k]]

makeInput(p) ==
    [hz |-> hz(p), residual |-> workingResidualDb(p), coherence |-> p.coherence, trusted |-> p.trusted,
     excluded |-> p.excluded, phase |-> p.phase, phaseValid |-> p.phaseValid]

suggest(p) == [p EXCEPT !.chips = IF p.grid = "none" THEN <<>> ELSE rankCandidates(makeInput(p), EqChips)]

runAutoEq(p) ==
    LET kept == [p EXCEPT !.filters = AppliedOnly(@)]
        specs == autoEq(makeInput(kept), p.max)
    IN  [kept EXCEPT !.filters = @ \o [i \in DOMAIN specs |-> [spec |-> specs[i], applied |-> FALSE]]]

-----------------------------------------------------------------------------
(* EqPaneModel *)

pickedAndVisible(id) == id \in DOMAIN eqLib /\ eqLib[id].visible

\* The members of an object and of the one it holds.
Joined(r, s) == [f \in DOMAIN r \cup DOMAIN s |-> IF f \in DOMAIN r THEN r[f] ELSE s[f]]

\* What the constructors leave.
EqSessionInit ==
    [grid |-> "none", db |-> <<>>, target |-> <<>>, coherence |-> <<>>, phase |-> <<>>, phaseValid |-> FALSE,
     trusted |-> {}, excluded |-> {}, declined |-> <<>>, filters |-> <<>>, max |-> 2]

EqPaneInit ==
    Joined([meas |-> 0, measRemoved |-> FALSE, tgt |-> 0, tgtRemoved |-> FALSE, source |-> NoTarget, chips |-> <<>>,
            firPhase |-> FALSE, firTaps |-> FALSE], EqSessionInit)

measurementUsable(id) ==
    pickedAndVisible(id) /\ eqLib[id].trace.coherence # <<>> /\ eqLib[id].trace.finite

loadIntoSession(p) == setMeasurement([p EXCEPT !.target = resampleTargetDb(p.source, p.grid)])

selectMeasurement(p, id) ==
    LET t == eqLib[id].trace
    IN  loadIntoSession([p EXCEPT !.meas = id, !.measRemoved = FALSE, !.grid = t.grid, !.db = t.db,
                             !.coherence = t.coherence, !.phase = t.phase, !.phaseValid = eqWorld.phaseValid,
                             !.chips = <<>>])

EqSelectMeasurement(id) ==
    /\ EqMay("pick")
    /\ eqPane' = IF measurementUsable(id) THEN selectMeasurement(eqPane, id) ELSE eqPane
    /\ EqUse
    /\ UNCHANGED <<eqWorld, eqLib, eqVer>>

\* selectTarget; the id 0 is the flat target.
EqSelectTarget(id) ==
    /\ EqMay("target")
    /\ id = 0 \/ (pickedAndVisible(id) /\ eqLib[id].trace.finite)
    /\ LET p == [eqPane EXCEPT !.tgt = id, !.tgtRemoved = FALSE, !.chips = <<>>,
                     !.source = IF id = 0 THEN NoTarget
                                ELSE [grid |-> eqLib[id].trace.grid, db |-> eqLib[id].trace.db]]
       IN  eqPane' = IF hasMeasurement THEN loadIntoSession(p) ELSE p
    /\ EqUse
    /\ UNCHANGED <<eqWorld, eqLib, eqVer>>

\* syncLibrary: a pick whose trace went is marked, and keeps what it copied.
EqSyncLibrary ==
    /\ LET removed(id) == id # 0 /\ ~pickedAndVisible(id)
       IN  eqPane' = [eqPane EXCEPT !.measRemoved = removed(eqPane.meas), !.tgtRemoved = removed(eqPane.tgt)]
    /\ eqPane' # eqPane
    /\ UNCHANGED <<eqWorld, eqLib, eqVer, eqCount>>

\* setMaxFilters, clamped to 1..16 (the small values stand for it).
EqSetMaxFilters(n) ==
    /\ EqMay("auto")
    /\ eqPane' = [eqPane EXCEPT !.max = Max({1, Min({n, 16})})]
    /\ EqUse
    /\ UNCHANGED <<eqWorld, eqLib, eqVer>>

EqRunAutoEq ==
    /\ EqMay("auto")
    /\ LET p == [eqPane EXCEPT !.chips = <<>>] IN eqPane' = IF hasMeasurement THEN runAutoEq(p) ELSE p
    /\ EqUse
    /\ UNCHANGED <<eqWorld, eqLib, eqVer>>

EqSuggest ==
    /\ EqMay("chip")
    /\ eqPane' = suggest(eqPane)
    /\ EqUse
    /\ UNCHANGED <<eqWorld, eqLib, eqVer>>

\* acceptChip and declineChip: the next ranking is made at once.
EqAcceptChip(i) ==
    /\ EqMay("chip")
    /\ i \in DOMAIN eqPane.chips
    /\ eqPane' = suggest([eqPane EXCEPT !.filters = Append(@, [spec |-> eqPane.chips[i], applied |-> FALSE])])
    /\ EqUse
    /\ UNCHANGED <<eqWorld, eqLib, eqVer>>

EqDeclineChip(i) ==
    /\ EqMay("chip")
    /\ i \in DOMAIN eqPane.chips
    /\ eqPane' = suggest(rebuildExclusionMask([eqPane EXCEPT !.declined = Append(@, eqPane.chips[i])]))
    /\ EqUse
    /\ UNCHANGED <<eqWorld, eqLib, eqVer>>

setApplied(p, i, applied) == [p EXCEPT !.filters[i].applied = applied, !.chips = <<>>]

EqSetApplied(i, applied) ==
    /\ EqMay("apply")
    /\ i \in DOMAIN eqPane.filters
    /\ eqPane' = setApplied(eqPane, i, applied)
    /\ EqUse
    /\ UNCHANGED <<eqWorld, eqLib, eqVer>>

EqClearFilters ==
    /\ EqMay("clear")
    /\ eqPane' = [eqPane EXCEPT !.filters = <<>>, !.chips = <<>>]
    /\ EqUse
    /\ UNCHANGED <<eqWorld, eqLib, eqVer>>

EqClearDeclined ==
    /\ EqMay("clear")
    /\ eqPane' = rebuildExclusionMask([eqPane EXCEPT !.declined = <<>>, !.chips = <<>>])
    /\ EqUse
    /\ UNCHANGED <<eqWorld, eqLib, eqVer>>

\* setFirPhase and setFirTaps: answered or not.
EqSetFir(phase, taps) ==
    /\ EqMay("export")
    /\ eqPane' = [eqPane EXCEPT !.firPhase = phase, !.firTaps = taps]
    /\ EqUse
    /\ UNCHANGED <<eqWorld, eqLib, eqVer>>

canExportFir == hasMeasurement /\ eqPane.firPhase /\ eqPane.firTaps /\ Unapplied(eqPane.filters) # {}

\* designEqFir: the correction of the filters not marked applied, on a grid of its own.
designEqFir(filters, f) == Sounds(Specs(filters, Unapplied(filters)), f)

\* The file is chosen first and the export looks at the pane again when it is; a write may fail.
EqExport ==
    /\ EqMay("export")
    /\ canExportFir
    /\ \E written \in BOOLEAN :
           eqWorld' = IF written
                      THEN [eqWorld EXCEPT !.fir = [f \in DOMAIN eqWorld.room |-> designEqFir(eqPane.filters, f)]]
                      ELSE eqWorld
    /\ EqUse
    /\ UNCHANGED <<eqLib, eqPane, eqVer>>

-----------------------------------------------------------------------------
(* EqVerify and EqVerifyRunner *)

EqVerifyInit == [state |-> "None", report |-> <<>>]

EqVerInit == Joined([meas |-> 0, filters |-> <<>>, after |-> 0, outcome |-> "None"], EqVerifyInit)

eqBusy == eqVer.state \in {"Waiting", "Measuring", "Settling"}

\* blocker: what a press needs of the pane, the host and the published snapshot.
verifyBlocked ==
    \/ ~hasMeasurement \/ Unapplied(eqPane.filters) = {} \/ eqBusy
    \/ ~eqWorld.running \/ eqWorld.outputTaken
    \/ ~eqWorld.transfer \/ eqWorld.grid # eqPane.grid \/ eqWorld.exponential

EqVerifyPress ==
    /\ EqMay("verify")
    /\ ~verifyBlocked
    /\ eqVer' = [EqVerInit EXCEPT !.state = "Waiting", !.meas = eqPane.meas, !.filters = eqPane.filters]
    /\ EqUse
    /\ UNCHANGED <<eqWorld, eqLib, eqPane>>

abort(why) == eqVer' = [eqVer EXCEPT !.state = "None", !.report = <<>>, !.outcome = why]

\* Only the number of filters is compared.
inputsUnchangedInCount == eqPane.meas = eqVer.meas /\ Len(eqPane.filters) = Len(eqVer.filters)

inputsUnchanged == eqPane.meas = eqVer.meas /\ eqPane.filters = eqVer.filters

\* compareToPrediction: a bin is flagged when it is trusted, past the corridor and past the noise.
Apart(measured, predicted, coherence) ==
    LET delta == EqAbs(measured - predicted) IN delta > EqCorridor /\ delta > EqSigma[coherence]

compareToPrediction(after, predicted, trusted) ==
    [trusted |-> trusted,
     flagged |-> {k \in trusted : Apart(after.db[k], predicted[k], after.coherence[k])}]

\* TraceLibrary::add under an id of its own.
NextId == Cardinality(DOMAIN eqLib) + 1
added(lib, id, trace) ==
    [i \in DOMAIN lib \cup {id} |-> IF i = id THEN [trace |-> trace, visible |-> TRUE] ELSE lib[i]]

\* EqVerifyRunner::poll: the device, the settling of the excitation and its deadline.
EqVerifyPoll ==
    /\ eqBusy
    /\ CASE ~eqWorld.running -> abort("DeviceStopped")
         [] eqWorld.running /\ eqVer.state = "Waiting" ->
                eqVer' = [eqVer EXCEPT !.state = "Measuring"] \/ (EqMay("live") /\ abort("TimedOut"))
         [] eqWorld.running /\ eqVer.state = "Settling" ->
                eqVer' = [eqVer EXCEPT !.state = "Done", !.outcome = "Done"]
         [] OTHER -> FALSE
    /\ UNCHANGED <<eqWorld, eqLib, eqPane, eqCount>>

\* trySubmit: the dwell is over and the snapshot is taken, or there is none and the deadline passes.
\* What was measured becomes a trace of the library when it can be frozen.
EqTrySubmit ==
    /\ eqVer.state = "Measuring"
    /\ eqWorld.running
    /\ LET after == liveTrace(eqPane.grid)
           trusted == eqPane.trusted \cap buildTrustMask(after.coherence)
       IN  CASE ~eqWorld.transfer -> abort("TimedOut") /\ eqLib' = eqLib
             [] eqWorld.transfer /\ (eqWorld.grid # eqPane.grid \/ eqWorld.exponential) ->
                    abort("SettingsChanged") /\ eqLib' = eqLib
             [] eqWorld.transfer /\ eqWorld.grid = eqPane.grid /\ ~eqWorld.exponential /\ ~inputsUnchanged ->
                    abort("InputsChanged") /\ eqLib' = eqLib
             [] OTHER ->
                    \E id \in {0, NextId} :
                        /\ eqLib' = IF id = 0 THEN eqLib ELSE added(eqLib, id, after)
                        /\ eqVer' = [eqVer EXCEPT !.state = "Settling", !.after = id,
                               !.report = <<compareToPrediction(after, ghostDb(eqPane), trusted)>>]
    /\ UNCHANGED <<eqWorld, eqPane, eqCount>>

canAdopt == eqVer.state = "Done" /\ eqVer.report # <<>> /\ eqVer.after # 0

\* adopt: the measurement taken becomes the measurement, and every filter is marked applied.
EqAdopt ==
    /\ EqMay("verify")
    /\ canAdopt
    /\ LET p == selectMeasurement(eqPane, eqVer.after)
           marked == [p EXCEPT !.filters = [i \in DOMAIN p.filters |-> [p.filters[i] EXCEPT !.applied = TRUE]]]
       IN  CASE ~inputsUnchanged -> eqVer' = [eqVer EXCEPT !.outcome = "InputsChanged"] /\ eqPane' = eqPane
             [] inputsUnchanged /\ ~measurementUsable(eqVer.after) -> UNCHANGED <<eqVer, eqPane>>
             [] OTHER -> eqPane' = marked /\ eqVer' = [EqVerInit EXCEPT !.outcome = "Adopted"]
    /\ EqUse
    /\ UNCHANGED <<eqWorld, eqLib>>

-----------------------------------------------------------------------------
(* The operator at the rig and in the library, the device, the live settings. *)

EqDial(rig) ==
    /\ EqMay("verify")
    /\ ~eqBusy /\ rig # eqWorld.rig
    /\ eqWorld' = [eqWorld EXCEPT !.rig = rig]
    /\ EqUse
    /\ UNCHANGED <<eqLib, eqPane, eqVer>>

EqHideTrace(id) ==
    /\ EqMay("hide")
    /\ eqLib' = [eqLib EXCEPT ![id].visible = ~@]
    /\ EqUse
    /\ UNCHANGED <<eqWorld, eqPane, eqVer>>

EqLive ==
    /\ EqMay("live")
    /\ \/ eqWorld' = [eqWorld EXCEPT !.running = ~@]
       \/ eqWorld' = [eqWorld EXCEPT !.outputTaken = ~eqBusy /\ ~@]
       \/ eqWorld' = [eqWorld EXCEPT !.transfer = ~@]
       \/ eqWorld' = [eqWorld EXCEPT !.exponential = ~@]
       \/ \E g \in DOMAIN EqGrids : eqWorld' = [eqWorld EXCEPT !.grid = g]
    /\ EqUse
    /\ UNCHANGED <<eqLib, eqPane, eqVer>>

\* Stored before: the room on every grid without a filter, and a curve without coherence.
EqInit ==
    /\ \E b \in EqBounds : \E w \in b.rooms :
           /\ eqCount = [used |-> 0, steps |-> b.steps, kinds |-> b.kinds]
           /\ eqWorld = [room |-> w.room, phase |-> w.phase, phaseValid |-> w.phaseValid, coherence |-> w.coherence,
                         rig |-> <<>>, grid |-> "A", transfer |-> TRUE, exponential |-> FALSE, running |-> TRUE,
                         outputTaken |-> FALSE, fir |-> [f \in DOMAIN w.room |-> 0]]
    /\ eqLib = [id \in 1..3 |->
                   [visible |-> TRUE,
                    trace |-> CASE id = 1 -> liveTrace("A")
                                [] id = 2 -> liveTrace("B")
                                [] id = 3 -> [liveTrace("B") EXCEPT !.coherence = <<>>]]]
    /\ eqPane = EqPaneInit
    /\ eqVer = EqVerInit

EqNext ==
    \/ \E id \in DOMAIN eqLib : EqSelectMeasurement(id) \/ EqHideTrace(id)
    \/ \E id \in DOMAIN eqLib \cup {0} : EqSelectTarget(id)
    \/ EqSyncLibrary
    \/ \E n \in {0, 2} : EqSetMaxFilters(n)
    \/ EqRunAutoEq \/ EqSuggest \/ EqClearFilters \/ EqClearDeclined \/ EqExport
    \/ \E i \in 1..EqChips : EqAcceptChip(i) \/ EqDeclineChip(i)
    \/ \E i \in DOMAIN eqPane.filters, b \in BOOLEAN : EqSetApplied(i, b)
    \/ \E phase, taps \in BOOLEAN : EqSetFir(phase, taps)
    \/ EqVerifyPress \/ EqVerifyPoll \/ EqTrySubmit \/ EqAdopt \/ EqLive
    \/ \E rig \in {<<>>, Specs(eqPane.filters, DOMAIN eqPane.filters)} : EqDial(rig)

EqSpec == EqInit /\ [][EqNext]_eqVars

-----------------------------------------------------------------------------
(* Properties *)

\* What AUTO EQ would do now.
Placing == LET in == makeInput(eqPane) IN [in |-> in, work |-> computeWorkingResidual(in)]

\* greedyPlace gives only filters the design and the gain solve accept (an exception of either is
\* swallowed as "nothing to correct"), on usable bins, none on a bin an earlier filter covers.
EqPlacesUsable ==
    hasMeasurement =>
        LET a == Placing
            placed == greedyPlace(a.in, a.work, eqPane.max).placed
        IN  /\ a.in \in EqInput /\ Len(placed) <= eqPane.max
            /\ \A i \in DOMAIN placed :
                   /\ placed[i].spec \in FilterSpec /\ placed[i].star \in usable(a.in)
                   /\ DesignValid(placed[i].spec) /\ Solvable(a.in, placed[i].spec)
                   /\ \A j \in 1..(i - 1) : ~InBand(placed[j].spec, placed[i].spec.fc)

\* The loop of greedyPlace ends, and it leaves only bins that are small, covered, or dips that no
\* boost may fill.
EqStopsWhenDone ==
    hasMeasurement =>
        LET a == Placing
            s == greedyPlace(a.in, a.work, eqPane.max)
        IN  /\ s.stop
            /\ Len(s.placed) < eqPane.max =>
                   \A k \in usable(a.in) \ s.refused :
                       \/ EqAbs(a.work.db[k]) < EqMinDb * a.work.scale
                       \/ \E i \in DOMAIN s.placed : InBand(s.placed[i].spec, a.in.hz[k])

\* No chip is centred where the operator has declined one, on whatever grid the measurement now is
\* (EqSession: the bands are the grid-independent source of truth).
EqDeclinedStaysOut ==
    \A i \in DOMAIN eqPane.chips, j \in DOMAIN eqPane.declined : ~Declines(eqPane.declined[j], eqPane.chips[i].fc)

\* A chip on screen is what SUGGEST would offer now: accepting it never commits a filter ranked for
\* another measurement, target or set of filters.
EqChipsCurrent == eqPane.chips # <<>> => eqPane.chips = suggest(eqPane).chips

\* ADOPT after a report without a flagged bin marks exactly the filters that were heard: where both
\* measurements are trusted the new one is the old one with the response of the filters it marks,
\* within the corridor or the noise, whatever was edited and put back since VERIFY was pressed.
EqAdoptVerified ==
    [][ (eqVer'.outcome = "Adopted" /\ canAdopt /\ eqVer.report[1].flagged = {}) =>
            \A k \in eqVer.report[1].trusted :
                ~Apart(eqPane'.db[k], ghostDb(eqPane)[k], eqPane'.coherence[k]) ]_eqVars

\* AUTO EQ and SUGGEST offer only what may be placed, stop when nothing is left, keep away from what
\* was declined, and never leave a chip of an older measurement on screen.
EqInv == EqPlacesUsable /\ EqStopsWhenDone /\ EqDeclinedStaysOut /\ EqChipsCurrent
=============================================================================
