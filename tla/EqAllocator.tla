------------------------------ MODULE EqAllocator ------------------------------
(***************************************************************************)
(* rta::eq: where AUTO EQ and SUGGEST place filters.  Levels are integers; *)
(* the working residual is scaled by the sum of the weights, so that the   *)
(* weighted mean it has lost stays whole.  A width is scaled by EqQ.  The  *)
(* response of a filter is its gain inside its band and 0 outside, and the *)
(* least-squares gain of a filter keeps its direction only.                *)
(***************************************************************************)
EXTENDS Integers, Sequences, FiniteSets, SequencesExt, FiniteSetsExt

CONSTANTS EqNyquist,  \* half the sample rate
          EqMinDb,    \* kMinPlacementDb
          EqQBoost,   \* qMaxBoost
          EqQCut,     \* qMaxCut
          EqWidest,   \* 1 / kQMin
          EqUnit      \* a common multiple of the bin frequencies

ASSUME EqAllocatorAssumption == EqNyquist \in Nat /\ {EqMinDb, EqQBoost, EqQCut, EqWidest, EqUnit} \subseteq Nat \ {0}

EqQ == EqQBoost * EqQCut
EqAbs(n) == IF n < 0 THEN -n ELSE n
EqSign(n) == IF n < 0 THEN -1 ELSE IF n > 0 THEN 1 ELSE 0

\* EqInput: the residual and what is known of each bin; phase is <<>> without a complex response.
EqInput == [hz : Seq(Nat), residual : Seq(Int), coherence : Seq(Nat), trusted : SUBSET Nat,
            excluded : SUBSET Nat, phase : Seq(Int), phaseValid : BOOLEAN]

\* FilterSpec, a peaking filter of the width fc / q.
FilterSpec == [fc : Nat, width : Nat, gain : -1..1]

InBand(spec, f) == 2 * EqAbs(f - spec.fc) * EqQ <= spec.width
responseDb(spec, f) == IF InBand(spec, f) THEN spec.gain ELSE 0

\* A filter the design of a biquad accepts.
DesignValid(spec) == spec.fc > 0 /\ spec.fc < EqNyquist /\ spec.width > 0

-----------------------------------------------------------------------------
weight(in, k) ==
    IF k \in in.trusted \ in.excluded /\ in.hz[k] > 0 THEN in.coherence[k] * (EqUnit \div in.hz[k]) ELSE 0

\* autoOffsetDb: the weighted mean, a quotient.
autoOffsetDb(in) ==
    [num |-> SumFunction([k \in DOMAIN in.hz |-> weight(in, k) * in.residual[k]]),
     den |-> SumFunction([k \in DOMAIN in.hz |-> weight(in, k)])]

computeWorkingResidual(in) ==
    LET c == autoOffsetDb(in)
        scale == IF c.den > 0 THEN c.den ELSE 1
        num == IF c.den > 0 THEN c.num ELSE 0
    IN  [scale |-> scale, db |-> [k \in DOMAIN in.hz |-> in.residual[k] * scale - num]]

\* As far from start as the residual does not grow.
walkToFlank(db, start, direction, sign) ==
    LET reached == {n \in 0..Len(db) :
                       /\ start + direction * n \in DOMAIN db
                       /\ \A i \in 1..n : sign * db[start + direction * i] <= sign * db[start + direction * (i - 1)]}
    IN  start + direction * Max(reached)

\* The first bin on the way to the flank that is under half of the peak, or the flank.
halfCrossingHz(hz, db, star, flank, sign) ==
    LET way == IF flank < star THEN flank..(star - 1) ELSE (star + 1)..flank
        under == {k \in way : 2 * sign * db[k] < sign * db[star]}
    IN  IF under = {} THEN hz[flank] ELSE hz[IF flank < star THEN Max(under) ELSE Min(under)]

\* classifyDip: the excess phase may swing less than the depth of the dip explains.
classifyDip(in, work, fL, star, fR) ==
    LET swing == Max({in.phase[k] : k \in fL..fR}) - Min({in.phase[k] : k \in fL..fR})
        depth == Min({work.db[fL], work.db[fR]}) - work.db[star]
    IN  CASE ~in.phaseValid -> "Untrusted"
          [] in.phaseValid /\ swing * work.scale < depth -> "Boostable"
          [] OTHER -> "NotMinimumPhase"

-----------------------------------------------------------------------------
usable(in) == {k \in in.trusted \ in.excluded : in.hz[k] > 0 /\ in.hz[k] < EqNyquist}

\* The largest deviation of a set of bins, the first of equals.
largest(db, bins) == Min({k \in bins : \A j \in bins : EqAbs(db[j]) <= EqAbs(db[k])})

peak(in, work, star) ==
    LET sign == IF work.db[star] < 0 THEN -1 ELSE 1
        fL == walkToFlank(work.db, star, -1, sign)
        fR == walkToFlank(work.db, star, 1, sign)
        fc == in.hz[star]
        wide == halfCrossingHz(in.hz, work.db, star, fR, sign) - halfCrossingHz(in.hz, work.db, star, fL, sign)
        qMax == IF sign < 0 THEN EqQBoost ELSE EqQCut
        width == Max({fc * (EqQ \div qMax), Min({wide * EqQ, fc * EqWidest * EqQ})})
    IN  [fL |-> fL, fR |-> fR, boost |-> sign < 0, spec |-> [fc |-> fc, width |-> width, gain |-> 0]]

\* One turn of greedyPlace.
placeOne(in, work, most, s) ==
    LET open == usable(in) \ s.blocked
        star == largest(work.db, open)
        p == peak(in, work, star)
        stop == Len(s.placed) >= most \/ open = {} \/ EqAbs(work.db[star]) < EqMinDb * work.scale
    IN  CASE stop -> [s EXCEPT !.stop = TRUE]
          [] ~stop /\ p.boost /\ in.phase # <<>> /\ classifyDip(in, work, p.fL, star, p.fR) = "NotMinimumPhase" ->
                 [s EXCEPT !.blocked = @ \cup {star}, !.refused = @ \cup {star}]
          [] OTHER -> [s EXCEPT !.placed = Append(@, [spec |-> p.spec, star |-> star]),
                                !.blocked = @ \cup {k \in DOMAIN in.hz : InBand(p.spec, in.hz[k])}]

\* Every turn takes a bin out of play: one more than there are bins is enough.
greedyPlace(in, work, most) ==
    LET turn[n \in 0..(Len(in.hz) + 1)] ==
            IF n = 0 THEN [placed |-> <<>>, blocked |-> {}, refused |-> {}, stop |-> FALSE]
            ELSE placeOne(in, work, most, turn[n - 1])
    IN  turn[Len(in.hz) + 1]

\* solveGains needs a bin of positive weight under every filter, and at most 16 filters.
Solvable(in, spec) == \E k \in DOMAIN in.hz : weight(in, k) > 0 /\ InBand(spec, in.hz[k])

solveGain(in, work, spec) ==
    [spec EXCEPT !.gain = -EqSign(SumFunction([k \in {k \in DOMAIN in.hz : InBand(spec, in.hz[k])} |->
                                                  weight(in, k) * work.db[k]]))]

\* rankCandidates and autoEq differ in how many they place.
rankCandidates(in, most) ==
    LET work == computeWorkingResidual(in)
        s == greedyPlace(in, work, most)
    IN  [i \in DOMAIN s.placed |-> solveGain(in, work, s.placed[i].spec)]

autoEq(in, most) == rankCandidates(in, most)
=============================================================================
