-------------------------------- MODULE Decay --------------------------------
(***************************************************************************)
(* The decay figures of one band (rta::ir, Decay and DecayEnsemble) and    *)
(* what the RT60 pane draws of them.  Samples are their squares; the curve *)
(* stays an energy and a level in decibels is a fraction of its start, so  *)
(* that the curve is at or below the level when start >= factor * energy.  *)
(* The straight line of leastSquares falls exactly when the energies of    *)
(* its span are not all equal, because the curve never rises; its decay    *)
(* time is measured by the length of the span.  The Lundeby search is the  *)
(* crossing it settles on, or none.                                        *)
(***************************************************************************)
EXTENDS Integers, Sequences, FiniteSets, SequencesExt, FiniteSetsExt

CONSTANTS DcSquares,    \* the squares a sample may have
          DcLength,     \* samples in the record
          DcShort,      \* fewer samples: Lundeby gives no estimate (32), and no crossing before half of it (16)
          DcMinFit,     \* a fit needs more samples than this (8)
          DcFall,       \* figure |-> the factors of its upper and lower level
          DcMinBT,      \* DecayConfig::minBandwidthTime
          DcSplit,      \* the 50 ms and the 80 ms split, in samples
          DcPreRing,    \* leadInSamplesFor the band's low edge
          DcMaxPoints,  \* kMaxEdcPoints
          DcSpread      \* lists of figures an ensemble may gather; 0: refused

ASSUME DcAssumption == /\ DcMinFit \in Nat /\ DcMaxPoints \in Nat \ {0} /\ DcPreRing \in Nat
                       /\ DcSquares \subseteq Nat /\ DcSplit[1] < DcSplit[2]

VARIABLE dcIn   \* a record, its origin, the crossing, the correction, the bandwidth, an ensemble

dcVars == <<dcIn>>

Figure(seconds, why) == [seconds |-> seconds, refusal |-> why]
Has(f) == f.refusal = "None"

-----------------------------------------------------------------------------
(* Decay.cpp *)

firstAtOrBelow(db, factor) == {i \in DOMAIN db : db[1] >= factor * db[i]}

\* The nearest sample there is, where none is low enough.
fitOneNearest(curve, fall) ==
    LET upper == firstAtOrBelow(curve.db, fall[1])
        lower == firstAtOrBelow(curve.db, fall[2]) \cup {Len(curve.db)}
    IN  CASE ~Has(curve) -> Figure(0, curve.refusal)
          [] Has(curve) /\ (upper = {} \/ Min(lower) <= Min(upper) + DcMinFit) -> Figure(0, "RangeTooSmall")
          [] OTHER -> Figure(Min(lower) - Min(upper), "None")

\* leastSquares over [from, to): the slope of a curve that never rises is negative unless it is level.
leastSquaresFalls(db, from, to) == \E i \in from..(to - 1) : db[i] # db[from]

fitOne(curve, fall) ==
    LET upper == firstAtOrBelow(curve.db, fall[1])
        lower == firstAtOrBelow(curve.db, fall[2])
        inRange == upper # {} /\ lower # {} /\ Min(lower) > Min(upper) + DcMinFit
        falls == leastSquaresFalls(curve.db, Min(upper), Min(lower))
    IN  CASE ~Has(curve) -> Figure(0, curve.refusal)
          [] Has(curve) /\ ~inRange -> Figure(0, "RangeTooSmall")
          [] Has(curve) /\ inRange /\ ~falls -> Figure(0, "NoDecayFound")
          [] OTHER -> Figure(Min(lower) - Min(upper), "None")

decayTimes(curve) == [k \in DOMAIN DcFall |-> fitOne(curve, DcFall[k])]

\* findCrossing: the crossings a search may settle on; 0 is none.
findCrossing(tail) ==
    IF Len(tail) < DcShort \/ \A i \in DOMAIN tail : tail[i] = 0 THEN {0}
    ELSE {0} \cup ((DcShort \div 2)..(Len(tail) - 1))

Tail0(sq, origin) == SubSeq(sq, origin + 1, Len(sq))

NoCurve(why) == [db |-> <<>>, crossing |-> 0, correction |-> 0, late |-> 0, refusal |-> why]

EnergyOf(sq, from, to) == MapThenSumSet(LAMBDA i : sq[i], from..to)

\* Backward integration to the crossing, the correction added to every point.
integrate(tail, cut, correction) == [i \in 1..cut |-> EnergyOf(tail, i, cut) + correction]

energyDecayCurve(sq, origin, crossing, correction, bandwidth) ==
    LET tail == Tail0(sq, origin)
        curve == [db |-> integrate(tail, crossing, correction), crossing |-> crossing,
                  correction |-> correction, late |-> 0, refusal |-> "None"]
        t30 == fitOne(curve, DcFall.t30)
        t20 == fitOne(curve, DcFall.t20)
        late == IF Has(t30) THEN t30.seconds ELSE t20.seconds
    IN  CASE origin >= Len(sq) -> NoCurve("NoDecayFound")
          [] origin < Len(sq) /\ crossing = 0 -> NoCurve("NoNoiseEstimate")
          [] origin < Len(sq) /\ crossing > 0 /\ EnergyOf(tail, 1, crossing) = 0 -> NoCurve("NoDecayFound")
          [] OTHER -> IF bandwidth > 0 /\ late > 0 /\ bandwidth * late < DcMinBT
                      THEN [curve EXCEPT !.late = late, !.refusal = "BandwidthTimeTooSmall", !.db = <<>>]
                      ELSE [curve EXCEPT !.late = late]

\* Early energy: the filter's own pre-ring, and what comes before the split.
early(sq, origin, cut, split) == EnergyOf(sq, origin + 1 - Min({DcPreRing, origin}), origin + Min({cut, split}))

\* Each ratio is its two energies.
Ratio(a, b) == [early |-> a, late |-> b, refusal |-> "None"]
NoRatio(why) == [early |-> 0, late |-> 0, refusal |-> why]

clarity(sq, origin, curve) ==
    LET cut == Min({curve.crossing, Len(sq) - origin})
        whole == early(sq, origin, cut, cut)
        total == whole + curve.correction
        e50 == early(sq, origin, cut, DcSplit[1])
        e80 == early(sq, origin, cut, DcSplit[2])
        All(why) == [c50 |-> NoRatio(why), c80 |-> NoRatio(why), d50 |-> NoRatio(why)]
    IN  CASE origin >= Len(sq) -> All("NoDecayFound")
          [] origin < Len(sq) /\ ~Has(curve) -> All(curve.refusal)
          [] origin < Len(sq) /\ Has(curve) /\ cut <= DcSplit[1] -> All("RangeTooSmall")
          [] origin < Len(sq) /\ Has(curve) /\ cut > DcSplit[1] /\ whole = 0 -> All("NoDecayFound")
          [] OTHER ->
               [c50 |-> IF total > e50 THEN Ratio(e50, total - e50) ELSE NoRatio("RangeTooSmall"),
                d50 |-> IF total > e50 THEN Ratio(e50, total) ELSE NoRatio("RangeTooSmall"),
                c80 |-> IF cut > DcSplit[2] /\ total > e80 THEN Ratio(e80, total - e80)
                        ELSE NoRatio("RangeTooSmall")]

-----------------------------------------------------------------------------
(* DecayEnsemble.cpp: seconds doubled, so that the median of an even list is whole. *)

medianOf(sorted) ==
    LET n == Len(sorted)
    IN  IF n % 2 = 1 THEN 2 * sorted[(n \div 2) + 1] ELSE sorted[n \div 2] + sorted[(n \div 2) + 1]

\* quantileOf in quarters, times four: linear between the two neighbours.
quantileOf(sorted, q) ==
    LET pos == q * (Len(sorted) - 1)
        lo == pos \div 4
        hi == Min({lo + 1, Len(sorted) - 1})
    IN  sorted[lo + 1] * (4 - (pos % 4)) + sorted[hi + 1] * (pos % 4)

gather(figures) ==
    LET given == SelectSeq(figures, Has)
        sorted == SortSeq([i \in DOMAIN given |-> given[i].seconds], <)
        refusals == SelectSeq(figures, LAMBDA f : ~Has(f))
    IN  IF given = <<>>
        THEN [seconds |-> 0, captures |-> 0, spread |-> 0,
              refusal |-> IF refusals = <<>> THEN "NoDecayFound" ELSE refusals[1].refusal]
        ELSE [seconds |-> medianOf(sorted), captures |-> Len(sorted), refusal |-> "None",
              spread |-> IF Len(sorted) >= 3 THEN quantileOf(sorted, 3) - quantileOf(sorted, 1) ELSE 0]

-----------------------------------------------------------------------------
(* Rt60Analysis.cpp: what is drawn of a curve. *)

\* fitSpanOf: the span the figure was fitted over; indices from zero.
fitSpanOf(curve, figure, fall) ==
    LET At(f) == Min({i - 1 : i \in firstAtOrBelow(curve.db, f)} \cup {Len(curve.db)})
    IN  IF ~Has(figure) \/ At(fall[2]) <= At(fall[1]) THEN [valid |-> FALSE, start |-> 0, end |-> 0]
        ELSE [valid |-> TRUE, start |-> At(fall[1]), end |-> At(fall[2])]

stride(n) == Max({1, (n + DcMaxPoints - 1) \div DcMaxPoints})

\* edcOf: every stride-th point.
edcOf(curve) ==
    IF ~Has(curve) \/ curve.db = <<>> THEN <<>>
    ELSE LET s == stride(Len(curve.db))
         IN  [i \in 1..((Len(curve.db) + s - 1) \div s) |-> curve.db[(i - 1) * s + 1]]

-----------------------------------------------------------------------------
DcCurve == energyDecayCurve(dcIn.sq, dcIn.origin, dcIn.crossing, dcIn.correction, dcIn.bandwidth)

\* A record and a search that ended on a crossing; and, apart, an ensemble.
DcInputs ==
    {i \in [sq : [1..DcLength -> DcSquares], origin : 0..DcLength, crossing : 0..DcLength, correction : {0, 1},
            bandwidth : {0, 1}, figures : {<<>>}] :
        i.crossing \in findCrossing(Tail0(i.sq, i.origin))}
    \cup [sq : {<<>>}, origin : {0}, crossing : {0}, correction : {0}, bandwidth : {0}, figures : DcSpread]

DcInit == dcIn \in DcInputs

\* A figure is given only of a curve that reached its lower level: no figure is stretched to the end
\* of a record that never decayed so far, and none comes of a curve its bandwidth-time gate refused
\* (Decay.cpp:47, 203; Decay.h:95-103).
DcRangeReached ==
    \A k \in DOMAIN DcFall :
        LET f == decayTimes(DcCurve)[k]
            db == DcCurve.db
        IN  Has(f) => Has(DcCurve) /\ db[1] >= DcFall[k][2] * db[Len(db)]

\* What lies outside the filter's pre-ring and the crossing changes nothing: the curve and the clarity
\* of a record with those samples silenced are the same.  The answer must not depend on how long the
\* operator recorded, nor on what the sweep left before the arrival (Decay.h:308-318, 339-351).
DcIgnoresOutside ==
    LET from == dcIn.origin + 1 - Min({DcPreRing, dcIn.origin})
        to == dcIn.origin + dcIn.crossing
        quiet == [i \in DOMAIN dcIn.sq |-> IF i \in from..to THEN dcIn.sq[i] ELSE 0]
        curve == energyDecayCurve(quiet, dcIn.origin, dcIn.crossing, dcIn.correction, dcIn.bandwidth)
    IN  /\ DcCurve = curve
        /\ clarity(dcIn.sq, dcIn.origin, DcCurve) = clarity(quiet, dcIn.origin, curve)

\* The ensemble's figure has half of the captures that gave one on each side, counts exactly those,
\* and refuses only when none did, with the first reason (DecayEnsemble.cpp:50-73).
DcMedianSplits ==
    LET g == gather(dcIn.figures)
        given == {i \in DOMAIN dcIn.figures : Has(dcIn.figures[i])}
        Below == {i \in given : 2 * dcIn.figures[i].seconds < g.seconds}
        Above == {i \in given : 2 * dcIn.figures[i].seconds > g.seconds}
    IN  /\ g.captures = Cardinality(given) /\ g.spread >= 0
        /\ Has(g) <=> given # {}
        /\ Cardinality(Below) = Cardinality(Above)

\* The drawn curve keeps to its points and ends within one step of the curve's end, and the line
\* drawn for a figure spans the samples it was fitted over (Rt60Analysis.cpp:57-103).
DcDrawnCovers ==
    LET edc == edcOf(DcCurve)
        n == Len(DcCurve.db)
    IN  /\ Len(edc) <= DcMaxPoints
        /\ edc # <<>> => (Len(edc) - 1) * stride(n) < n /\ n <= Len(edc) * stride(n)
        /\ \A k \in DOMAIN DcFall :
               LET f == decayTimes(DcCurve)[k]
                   span == fitSpanOf(DcCurve, f, DcFall[k])
               IN  Has(f) => span.valid /\ span.end - span.start = f.seconds

\* A decay time comes from the range it names, from inside the window only, and is summarised and
\* drawn without leaving a band out.
DcInv == DcRangeReached /\ DcIgnoresOutside /\ DcMedianSplits /\ DcDrawnCovers
=============================================================================
