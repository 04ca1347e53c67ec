------------------------------ MODULE Crossover ------------------------------
(***************************************************************************)
(* The crossover surface (rta::view::CrossoverSurface over VirtualTrace)   *)
(* and the two panes that feed it: the CROSSOVER pane, which picks two     *)
(* stored traces out of a library that other panes change under it, and    *)
(* the ALIGN pane, which rebuilds it from a finished run.                  *)
(* A bin is its magnitude and its phase in quarter turns, so every sum is  *)
(* exact; a level in decibels is its energy.  A delay is counted in        *)
(* quarter turns at bin 1.  The other operations of a chain (polarity,     *)
(* gain, biquads) and the trust of a sum have no caller in the program and *)
(* are left out.                                                           *)
(***************************************************************************)
EXTENDS Integers, Sequences, FiniteSets, SequencesExt, FiniteSetsExt

CONSTANTS XoTraces,      \* what a trace may be: [phase, fft, rate, h]
          XoIds,         \* trace ids: 1..n
          XoCentre,      \* the windows' centre, 1000 Hz
          XoAsked,       \* the topologies and inversions a user picks, of those offered
          XoRuns,        \* what the ALIGN runner may hold after a computation
          XoMaxChanges   \* changes of the library

VARIABLES xoLib,    \* TraceLibrary: entries in order, and the revision
          xoPane,   \* CrossoverPaneView
          xoAlign   \* the ALIGN run last refreshed, and the surface drawn of it

xoVars == <<xoLib, xoPane, xoAlign>>

-----------------------------------------------------------------------------
(* VirtualProcessor.cpp and VirtualTrace.cpp.  A bin is <<magnitude, quarter turns>>. *)

Bin(a, q) == <<a, IF a = 0 THEN 0 ELSE q % 4>>
Cos(q) == CASE q % 4 = 0 -> 1 [] q % 4 = 2 -> -1 [] OTHER -> 0
Re(z) == z[1] * Cos(z[2])
Im(z) == z[1] * Cos(z[2] - 1)

applyDelay(h, tau) == [k \in DOMAIN h |-> Bin(h[k][1], h[k][2] - (k - 1) * tau)]

applyOp(op, h) == applyDelay(h, op.by)

commonLength(a, b) == Min({Len(a), Len(b)})

\* The energies of the sum.
sumResponses(a, b) == [k \in 1..commonLength(a, b) |-> LET re == Re(a[k]) + Re(b[k])
                                                          im == Im(a[k]) + Im(b[k])
                                                      IN  re * re + im * im]

binWidthHz(t) == t.rate \div t.fft

\* {} where the trace has no phase (its magnitude and its axis are never missing: Trace::make).
fromTrace(t) == IF ~t.phase THEN {}
                ELSE {[source |-> t.h, width |-> binWidthHz(t), chain |-> <<>>]}

render(v) == FoldLeft(LAMBDA h, op : applyOp(op, h), v.source, v.chain)

sumOf(a, b) == sumResponses(render(a), render(b))

energy(h) == [k \in DOMAIN h |-> h[k][1] * h[k][1]]

-----------------------------------------------------------------------------
(* CrossoverTopology.cpp and the choices *)

wrapToPiHalfOpen(q) == IF q % 4 = 3 THEN -1 ELSE q % 4

expectedOffset(topology, inversion) ==
    LET raw == wrapToPiHalfOpen(topology.order)
        inverted == wrapToPiHalfOpen(raw + 2)
    IN  CASE inversion = "Yes" -> [at |-> inverted, alternative |-> {}]
          [] inversion = "No" -> [at |-> raw, alternative |-> {}]
          [] inversion = "Unknown" -> [at |-> raw, alternative |-> {inverted}]

kTopologyChoices == [family : {"LinkwitzRiley"}, order : {2, 4, 8}] \cup [family : {"Butterworth"}, order : 1..4]
kInversionChoices == {"No", "Yes", "Unknown"}

\* An energy against one side's passband: 0 dB is 1, +3 dB is 2.
designedSumDbFor(topology) ==
    IF topology.family = "LinkwitzRiley" THEN 1 ELSE IF topology.order % 2 = 0 THEN 2 ELSE 1

-----------------------------------------------------------------------------
(* CrossoverSurface.cpp *)

\* A gap of no bin is an absent one.
NoSurface == [high |-> {}, low |-> {}, highDb |-> <<>>, lowDb |-> <<>>, predicted |-> <<>>, ghost |-> <<>>,
              measured |-> <<>>, relative |-> {}, window |-> <<0, 0>>, target |-> {}, designed |-> 0, gap |-> <<>>]

recomputeGap(s) ==
    [s EXCEPT !.gap = IF s.measured = <<>> \/ s.predicted = <<>> THEN <<>>
                      ELSE [k \in 1..commonLength(s.measured, s.predicted) |-> s.measured[k] - s.predicted[k]]]

\* The bins a window shows: within its octaves of its centre.
inWindowBins(window, width, n) ==
    {k \in 1..n : /\ window[1] > 0 /\ window[2] > 0 /\ width > 0
                  /\ (k - 1) * width * 2 ^ window[2] >= window[1]
                  /\ (k - 1) * width <= window[1] * 2 ^ window[2]}

recomputePrediction(s) ==
    IF s.high = {} \/ s.low = {} THEN s
    ELSE LET a == CHOOSE v \in s.high : TRUE
             b == CHOOSE v \in s.low : TRUE
             high == render(a)
             low == render(b)
         IN  recomputeGap([s EXCEPT
                 !.highDb = energy(high), !.lowDb = energy(low), !.predicted = sumOf(a, b),
                 !.relative = {<<k, wrapToPiHalfOpen(high[k][2] - low[k][2])>> :
                               k \in inWindowBins(s.window, a.width, commonLength(high, low))}])

setSources(s, a, b) ==
    recomputePrediction([s EXCEPT !.high = {a}, !.low = {b}, !.ghost = sumOf(a, b)])

setAskedTopology(s, topology, inversion) ==
    [s EXCEPT !.target = {expectedOffset(topology, inversion)}, !.designed = designedSumDbFor(topology)]

setWindow(s, window) == recomputePrediction([s EXCEPT !.window = window])

setPendingOps(s, highChain, lowChain) ==
    IF s.high = {} \/ s.low = {} THEN s
    ELSE recomputePrediction([s EXCEPT !.high = {[v EXCEPT !.chain = highChain] : v \in @},
                                       !.low = {[v EXCEPT !.chain = lowChain] : v \in @}])

setMeasuredSum(s, sum) == recomputeGap([s EXCEPT !.measured = sum])

-----------------------------------------------------------------------------
(* CrossoverPaneView.cpp.  An id of 0 is an empty one; a choice is {} until it is made. *)

kDefaultWindow == <<XoCentre, 6>>

entryOf(id) == SelectInSeq(xoLib.entries, LAMBDA e : e.id = id)
traceOf(l, id) == l.entries[SelectInSeq(l.entries, LAMBDA e : e.id = id)].trace
held(l) == {l.entries[i].id : i \in DOMAIN l.entries}

eligible(l) == LET ok == SelectSeq(l.entries, LAMBDA e : e.visible /\ e.trace.phase)
               IN  [i \in DOMAIN ok |-> ok[i].id]

\* A pick that is no longer offered is cleared, never carried over.
rebuildTraceCombo(ids, id) == IF Contains(ids, id) THEN id ELSE 0

axisRefused(l, hp, lp) ==
    LET high == traceOf(l, hp)
        low == traceOf(l, lp)
    IN  CASE high.fft # low.fft -> "fftSize"
          [] high.fft = low.fft /\ high.rate # low.rate -> "sampleRate"
          [] OTHER -> ""

refreshFromLibrary(pane, l) ==
    LET ids == IF pane.bound THEN eligible(l) ELSE <<>>
        hp == rebuildTraceCombo(ids, pane.hp)
        lp == rebuildTraceCombo(ids, pane.lp)
        distinct == hp # 0 /\ lp # 0 /\ hp # lp
        found == pane.bound /\ distinct /\ {hp, lp} \subseteq held(l)
        axis == IF found THEN axisRefused(l, hp, lp) ELSE ""
        chosen == found /\ axis = "" /\ pane.topology # {} /\ pane.inversion # {}
        highs == IF chosen THEN fromTrace(traceOf(l, hp)) ELSE {}
        lows == IF chosen THEN fromTrace(traceOf(l, lp)) ELSE {}
        ready == highs # {} /\ lows # {}
        asked == setAskedTopology(pane.surface, CHOOSE t \in pane.topology : TRUE, CHOOSE v \in pane.inversion : TRUE)
    IN  [pane EXCEPT !.ids = ids, !.hp = hp, !.lp = lp, !.axis = axis, !.ready = ready,
                     !.surface = IF ~ready THEN NoSurface
                                 ELSE setSources(setWindow(asked, kDefaultWindow),
                                                 CHOOSE v \in highs : TRUE, CHOOSE v \in lows : TRUE)]

refusals(pane) ==
    <<<<Len(pane.ids) < 2, "too few">>, <<pane.hp = 0, "high-pass">>, <<pane.lp = 0, "low-pass">>,
      <<pane.hp = pane.lp, "same">>, <<pane.axis # "", "axis">>, <<pane.topology = {}, "topology">>,
      <<pane.inversion = {}, "inversion">>>>

\* The first that applies, or none.
refusalMessage(pane) == LET at == SelectInSeq(refusals(pane), LAMBDA r : r[1])
                        IN  IF at = 0 THEN "" ELSE refusals(pane)[at][2]

\* RepaintGate.h: the revision the timer last refreshed at, {} before the first.
shouldRepaint(gate, revision) == gate # {revision}

-----------------------------------------------------------------------------
XoInit == /\ xoLib = [entries |-> <<>>, revision |-> 0, changes |-> 0]
          /\ xoPane = [bound |-> FALSE, ids |-> <<>>, hp |-> 0, lp |-> 0, topology |-> {}, inversion |-> {},
                       axis |-> "", ready |-> FALSE, gate |-> {}, surface |-> NoSurface]
          /\ xoAlign = [run |-> {}, surface |-> NoSurface]

Changed(entries, bumps) ==
    /\ xoLib.changes < XoMaxChanges
    /\ xoLib' = [entries |-> entries, revision |-> xoLib.revision + bumps, changes |-> xoLib.changes + 1]
    /\ UNCHANGED <<xoPane, xoAlign>>

shown(id, t) == [id |-> id, visible |-> TRUE, trace |-> t]

\* Other panes, between two ticks: STORE or a sweep, the legend's eye, and OPEN, which clears the
\* library and may bring another trace under an id that was there.
XoStore == \E t \in XoTraces, id \in XoIds \ held(xoLib) : Changed(Append(xoLib.entries, shown(id, t)), 1)
XoHide == \E i \in DOMAIN xoLib.entries : Changed([xoLib.entries EXCEPT ![i].visible = ~@], 1)
XoOpen == /\ xoLib.entries # <<>>
          /\ \E t, u \in XoTraces : \/ Changed(<<shown(1, t)>>, 2)
                                   \/ Changed(<<shown(1, t), shown(2, u)>>, 3)

setLibrary == /\ ~xoPane.bound
              /\ xoPane' = refreshFromLibrary([xoPane EXCEPT !.bound = TRUE], xoLib)
              /\ UNCHANGED <<xoLib, xoAlign>>

timerCallback == LET revision == IF xoPane.bound THEN xoLib.revision ELSE 0
                 IN  /\ shouldRepaint(xoPane.gate, revision)
                     /\ xoPane' = refreshFromLibrary([xoPane EXCEPT !.gate = {revision}], xoLib)
                     /\ UNCHANGED <<xoLib, xoAlign>>

Asked(pane) == /\ xoPane' = refreshFromLibrary(pane, xoLib)
               /\ UNCHANGED <<xoLib, xoAlign>>

\* The combo's item numbers are places in the list it was last built from.
hpComboChanged == \E i \in DOMAIN xoPane.ids : Asked([xoPane EXCEPT !.hp = xoPane.ids[i]])
lpComboChanged == \E i \in DOMAIN xoPane.ids : Asked([xoPane EXCEPT !.lp = xoPane.ids[i]])
topologyComboChanged == \E t \in kTopologyChoices \cap XoAsked.topologies : Asked([xoPane EXCEPT !.topology = {t}])
inversionComboChanged == \E v \in kInversionChoices \cap XoAsked.inversions : Asked([xoPane EXCEPT !.inversion = {v}])

-----------------------------------------------------------------------------
(* AlignPaneView.cpp.  A run: which side is the high-pass one, the two captures, the cycle answered (a   *)
(* delay, {} before the answer) and the measured sum ({} before it).                                     *)

pendingDelay(tau) == IF tau > 0 THEN <<[kind |-> "delay", by |-> tau]>> ELSE <<>>

\* The delay on the side that arrives later.
pendingChainsSwapped(run) ==
    [high |-> UNION {{pendingDelay(-tau)} : tau \in run.cycle}, low |-> UNION {{pendingDelay(tau)} : tau \in run.cycle}]

\* A positive delay: the low-pass side arrives later, so the high-pass side waits.
pendingChains(run) ==
    [high |-> UNION {{pendingDelay(tau)} : tau \in run.cycle}, low |-> UNION {{pendingDelay(-tau)} : tau \in run.cycle}]

rebuildSurface(run) ==
    LET mainIsHigh == run.highPass = "Main"
        highs == fromTrace(IF mainIsHigh THEN run.main ELSE run.sub)
        lows == fromTrace(IF mainIsHigh THEN run.sub ELSE run.main)
        asked == setAskedTopology(NoSurface, run.topology, run.inversion)
        sourced == setSources(setWindow(asked, <<XoCentre, 1>>), CHOOSE v \in highs : TRUE, CHOOSE v \in lows : TRUE)
        chains == pendingChains(run)
        pending == IF run.cycle = {} THEN sourced
                   ELSE setPendingOps(sourced, CHOOSE c \in chains.high : TRUE, CHOOSE c \in chains.low : TRUE)
    IN  IF highs = {} \/ lows = {} THEN NoSurface
        ELSE IF run.sum = <<>> THEN pending ELSE setMeasuredSum(pending, run.sum)

alignRefresh == \E run \in XoRuns : /\ xoAlign' = [run |-> {run}, surface |-> rebuildSurface(run)]
                                    /\ UNCHANGED <<xoLib, xoPane>>

XoPaneNext == \/ XoStore \/ XoHide \/ XoOpen \/ setLibrary \/ timerCallback
              \/ hpComboChanged \/ lpComboChanged \/ topologyComboChanged \/ inversionComboChanged

XoNext == XoPaneNext \/ alignRefresh

XoSpec == XoInit /\ [][XoNext]_xoVars

-----------------------------------------------------------------------------
\* The sum of two bins by the law of cosines, no complex number in it.
cosineSum(a, b) == a[1] * a[1] + b[1] * b[1] + 2 * a[1] * b[1] * Cos(a[2] - b[2])

XoCaughtUp == xoPane.bound /\ xoPane.gate = {xoLib.revision}

\* Once the timer has seen the library's last change, a drawn pane draws the two traces that are picked
\* now: both still there, visible and on one frequency axis, the predicted sum theirs bin by bin and the
\* target that of the topology picked (CrossoverPaneView::refreshFromLibrary after any order of stores,
\* deletes, hides, OPENs that reuse an id, picks and ticks).
XoShownIsCurrent ==
    xoPane.ready /\ XoCaughtUp =>
        /\ {xoPane.hp, xoPane.lp} \subseteq {e \in held(xoLib) : xoLib.entries[entryOf(e)].visible}
        /\ LET a == traceOf(xoLib, xoPane.hp)
               b == traceOf(xoLib, xoPane.lp)
           IN  /\ a.fft = b.fft /\ a.rate = b.rate
               /\ xoPane.surface.predicted = [k \in DOMAIN a.h |-> cosineSum(a.h[k], b.h[k])]
               /\ \E t \in xoPane.topology, o \in xoPane.surface.target : (t.order - o.at) % 2 = 0

\* A pane that draws no chart says why, one that draws says nothing, and no surface outlives its picks
\* (CrossoverPaneView::refusalMessage is written apart from the conditions of refreshFromLibrary).
XoRefusalNamed == /\ xoPane.ready <=> refusalMessage(xoPane) = ""
                  /\ ~xoPane.ready => xoPane.surface = NoSurface

\* The mark of the designed sum is what two sides at their crossover level make at the target offset,
\* the processor's inversion taken out: a quarter of the passband's energy each for Linkwitz-Riley, half
\* for Butterworth (designedSumDbFor and expectedOffset are two tables of the same crossover).
XoMarksFitTarget ==
    \A t \in kTopologyChoices, v \in kInversionChoices :
        LET s == setAskedTopology(xoPane.surface, t, v)
            quarters == IF t.family = "LinkwitzRiley" THEN 1 ELSE 2
        IN  \A o \in s.target : 4 * s.designed = 2 * quarters * (IF o.at % 2 = 0 THEN 2 ELSE 1)

\* The delay the run suggests, applied as the pane's pending operation, brings the two sides into phase in
\* every bin and the prediction to the sum of the magnitudes, whichever side is the high-pass one and
\* whichever arrives later (AlignPaneView::rebuildSurface, VirtualTrace::render).
XoSuggestionAligns ==
    \A run \in xoAlign.run :
        (run.cycle = {run.late}) =>
            /\ \A point \in xoAlign.surface.relative : point[2] = 0
            /\ \A k \in DOMAIN xoAlign.surface.predicted :
                   xoAlign.surface.predicted[k] = (run.main.h[k][1] + run.sub.h[k][1]) ^ 2

\* The gap is measured against the prediction with the pending delay in it, the ghost stays the sum as it
\* was measured, and there is a gap only with a measured sum (CrossoverSurface::recomputeGap, setSources).
XoGapOfPrediction ==
    \A run \in xoAlign.run :
        LET s == xoAlign.surface
            n == commonLength(s.measured, s.predicted)
        IN  /\ s.gap = IF run.sum = <<>> THEN <<>> ELSE [k \in 1..n |-> run.sum[k] - s.predicted[k]]
            /\ s.ghost = [k \in DOMAIN run.main.h |-> cosineSum(run.main.h[k], run.sub.h[k])]

\* The crossover pane shows a result of what is selected now, names a refusal, and its suggestion
\* and its gap are those of the prediction it draws.
XoInv == XoShownIsCurrent /\ XoRefusalNamed /\ XoMarksFitTarget /\ XoSuggestionAligns /\ XoGapOfPrediction
=============================================================================
