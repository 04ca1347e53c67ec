----------------------------- MODULE Estimating -----------------------------
(***************************************************************************)
(* The estimators that turn correlations, spectra and impulse responses    *)
(* into an answer or a named refusal: peak picking and the delay policy    *)
(* (PhatCorrelation.h, DelayPolicy.cpp), the spatial averages              *)
(* (SpatialAverage.cpp, SpatialMtw.cpp), absolute and relative polarity    *)
(* (rta::ir), band weights and the overload detector.  One state is one    *)
(* call: esIn holds its arguments.  Amplitudes are small integers, levels  *)
(* and frequencies are whole steps, and a ratio is kept as its two parts.  *)
(***************************************************************************)
EXTENDS Integers, Sequences, FiniteSets
LOCAL INSTANCE SequencesExt
LOCAL INSTANCE FiniteSetsExt

CONSTANTS
    EsInputs,     \* the calls tried
    EsNullFloor,  \* nullFloor, in units of correlation height
    EsAccept,     \* DelayPolicy::acceptMultiple
    EsCycles,     \* ten cycles of bin k last EsCycles \div k samples
    EsGate,       \* <<gateLowHz, gateHighHz>> in bins
    EsConfidence  \* the squared peak-to-noise ratio minConfidenceDb stands for

VARIABLE esIn

esVars == <<esIn>>

EsAbs(n) == IF n < 0 THEN -n ELSE n
EsSum(S, f(_)) == FoldSet(LAMBDA x, acc : acc + f(x), 0, S)

-----------------------------------------------------------------------------
(* PhatCorrelation.h: correlation is a function on 0..m-1.                  *)

wrapLag(i, m) == IF i < m \div 2 THEN i ELSE i - m

inWindow(lag, window) == lag >= window[1] /\ lag <= window[2]

\* The distance of two indices on the circle of length m.
separationOnLine(i, j, m) == EsAbs(i - j)
separation(i, j, m) == LET d == EsAbs(i - j) IN IF d < m - d THEN d ELSE m - d

\* pickPeaks: the pool sorted by height, stably, then picked greedily.
pickPeaks(r, m, window, maxCandidates) ==
    LET pool   == {i \in 0..(m - 1) : inWindow(wrapLag(i, m), window)}
        sorted == SetToSortSeq(pool, LAMBDA i, j :
                      EsAbs(r[i]) > EsAbs(r[j]) \/ (EsAbs(r[i]) = EsAbs(r[j]) /\ i < j))
        pick[k \in 0..Len(sorted)] ==
            IF k = 0 THEN <<>>
            ELSE LET kept == pick[k - 1]
                 IN  IF \/ Len(kept) >= maxCandidates
                        \/ \E p \in Range(kept) : separation(sorted[k], p, m) < 2
                     THEN kept ELSE Append(kept, sorted[k])
    IN  pick[Len(sorted)]

Refusing(verdict) == [verdict |-> verdict, lag |-> 0, inverted |-> FALSE, candidates |-> <<>>]

\* suggestDelay, with the band of the correlation taken as one.
suggestDelay(in) ==
    LET peaks == pickPeaks(in.r, in.m, in.window, in.max)
        best  == EsAbs(in.r[peaks[1]])
    IN  IF peaks = <<>> THEN Refusing("WindowEmpty")
        ELSE IF in.restricted /\ best < EsNullFloor THEN Refusing("WindowEmpty")
        ELSE [verdict |-> IF best >= EsAccept * EsNullFloor THEN "Accepted" ELSE "BelowFloor",
              lag |-> wrapLag(peaks[1], in.m), inverted |-> in.r[peaks[1]] < 0,
              candidates |-> [k \in DOMAIN peaks |-> in.r[peaks[k]]]]

-----------------------------------------------------------------------------
(* SpatialAverage.cpp and SpatialMtw.cpp.  A position has a trim, and per   *)
(* band a level and a coherence in steps, -1 where its gate is shut.        *)

\* Who counts at a band: the gate is passed and the trim is not zero.
Contributes(p, b) == p.coherence[b] >= 0 /\ p.trim > 0
Weight(p, b) == p.trim * p.coherence[b]

\* The bin of band b, whose mean level is level/weight where it is present.
spatialAverageBins(positions, b) ==
    LET contributors == {i \in DOMAIN positions : Contributes(positions[i], b)}
        sumW == EsSum(contributors, LAMBDA i : Weight(positions[i], b))
        sumL == EsSum(contributors, LAMBDA i : Weight(positions[i], b) * positions[i].level[b])
    IN  [absence |-> IF sumW > 0 THEN "Present"
                     ELSE IF contributors = {} THEN "NoContributor" ELSE "NoWeight",
         contributors |-> Cardinality(contributors), weight |-> sumW, level |-> sumL]

\* One result over all bands, or none: the reason of an absent band survives.
spatialAverageMtw(positions) ==
    LET bins == [b \in DOMAIN positions[1].level |-> spatialAverageBins(positions, b)]
    IN  IF \E b \in DOMAIN bins : bins[b].absence = "Present" THEN <<bins>> ELSE <<>>

-----------------------------------------------------------------------------
(* Polarity.cpp.  `loud` holds, for the search window and for the longer    *)
(* window of the second pass, the bins within 10 dB of the strongest.       *)

NoEdges == [valid |-> FALSE, tooShort |-> FALSE, low |-> 0, high |-> 0]

\* bandEdges: the window must hold ten cycles of the lowest loud bin; if it
\* does not, one longer window is tried, as long as the capture has it.
bandEdges(in, loud, secondPass) ==
    LET edges(bins) == [NoEdges EXCEPT !.valid = TRUE, !.low = Min(bins), !.high = Max(bins)]
        needed == EsCycles \div Min(loud)
    IN  IF loud = {} THEN NoEdges
        ELSE IF secondPass \/ needed <= in.last - in.origin THEN edges(loud)
        ELSE IF in.origin + needed > Len(in.samples) THEN [NoEdges EXCEPT !.tooShort = TRUE]
        ELSE IF in.loudLonger = {} THEN NoEdges ELSE edges(in.loudLonger)

Unknown(refusal) == [sign |-> 0, refusal |-> refusal, arrival |-> 0]

\* The first sample that reaches half of the peak.
arrival(samples, window, peak) == {i \in window : 2 * EsAbs(samples[i]) >= peak}

\* findPolarity: origin counts samples before t = 0, h2 the samples between the
\* second harmonic's arrival and it.
findPolarity(in) ==
    LET window == (in.origin + 1)..in.last
        peak   == Max({0} \cup {EsAbs(in.samples[i]) : i \in window})
        edges  == bandEdges(in, in.loud, FALSE)
        noise  == (in.origin - in.h2 + 1)..in.origin
        sumSq  == EsSum(noise, LAMBDA i : in.samples[i] * in.samples[i])
        found  == arrival(in.samples, window, peak)
        first  == Min(found)
        confident == sumSq > 0 /\ peak * peak * in.h2 >= EsConfidence * sumSq
    IN  IF ~in.trusted THEN Unknown("SweepBandInsufficient")
        ELSE IF peak = 0 THEN Unknown("NoSignal")
        ELSE IF edges.tooShort THEN Unknown("CaptureTooShort")
        ELSE IF in.h2 = 0 \/ in.h2 > in.origin THEN Unknown("NoNoiseEstimate")
        ELSE IF found = {} THEN Unknown("NoSignal")
        ELSE IF ~edges.valid THEN [Unknown("NoSignal") EXCEPT !.arrival = first]
        ELSE IF edges.low > EsGate[1] THEN [Unknown("BandTooLow") EXCEPT !.arrival = first]
        ELSE IF edges.high < EsGate[2] THEN [Unknown("BandTooHigh") EXCEPT !.arrival = first]
        ELSE IF ~confident THEN [Unknown("NoSignal") EXCEPT !.arrival = first]
        ELSE [sign |-> IF in.samples[first] > 0 THEN 1 ELSE -1, refusal |-> "None",
              arrival |-> first]

\* relativePolarity: the sign of the strongest cross-correlation of two windows.
CrossAt(wa, wb, lag) ==
    EsSum({n \in DOMAIN wa : n + lag \in DOMAIN wb}, LAMBDA n : wa[n] * wb[n + lag])

strongestLag(wa, wb) ==
    LET lags == (1 - Len(wa))..(Len(wa) - 1)
    IN  Min({l \in lags : \A k \in lags : EsAbs(CrossAt(wa, wb, k)) <= EsAbs(CrossAt(wa, wb, l))})

relativePolarity(a, b) ==
    LET length == Min({Len(a), Len(b)})
        wa == SubSeq(a, 1, length)
        wb == SubSeq(b, 1, length)
        energy(w) == EsSum(DOMAIN w, LAMBDA i : w[i] * w[i])
        best == CrossAt(wa, wb, strongestLag(wa, wb))
    IN  IF length < 2 THEN [sign |-> 0, refusal |-> "CaptureTooShort", height |-> 0]
        ELSE IF energy(wa) = 0 \/ energy(wb) = 0
             THEN [sign |-> 0, refusal |-> "NoSignal", height |-> 0]
        ELSE [sign |-> IF best < 0 THEN -1 ELSE 1, refusal |-> "None", height |-> EsAbs(best)]

-----------------------------------------------------------------------------
(* BandWeights.cpp: the weights of all bands lie in one array, a row is the *)
(* first bin of its band, the offset of its weights and their number.       *)

AboveFloor(response) == {bin \in DOMAIN response : response[bin] > 0}

rowsOf(responses, nearest) ==
    LET first(i) == IF AboveFloor(responses[i]) = {} THEN nearest[i] ELSE Min(AboveFloor(responses[i]))
        last(i)  == IF AboveFloor(responses[i]) = {} THEN nearest[i] ELSE Max(AboveFloor(responses[i]))
        offset[i \in 1..(Len(responses) + 1)] ==
            IF i = 1 THEN 0 ELSE offset[i - 1] + last(i - 1) - first(i - 1) + 1
    IN  [i \in DOMAIN responses |->
            [firstBin |-> first(i), weightOffset |-> offset[i], binCount |-> last(i) - first(i) + 1]]

weightsOf(responses, rows) ==
    LET row(i) == [j \in 1..rows[i].binCount |-> responses[i][rows[i].firstBin + j - 1]]
    IN  FlattenSeq([i \in DOMAIN rows |-> row(i)])

bandPower(density, rows, weights, i) ==
    EsSum(1..rows[i].binCount,
          LAMBDA j : density[rows[i].firstBin + j - 1] * weights[rows[i].weightOffset + j])

\* hasOverload: a run of runLength samples at or above the threshold.
hasOverload(x, runLength) ==
    LET run[k \in 0..Len(x)] == IF k = 0 \/ ~x[k] THEN 0 ELSE run[k - 1] + 1
    IN  runLength <= 0 \/ \E k \in 1..Len(x) : run[k] >= runLength

-----------------------------------------------------------------------------
EsInit == esIn \in EsInputs

EsSpec == EsInit /\ [][FALSE]_esVars

\* pickPeaks: the candidates lie in the window, no two of them are neighbours on
\* the circle of lags, they are ranked, and what was passed over is a
\* neighbour of something at least as high unless the list is full.
EsPeaksSeparated ==
    esIn.kind = "peaks" =>
        LET picks == pickPeaks(esIn.r, esIn.m, esIn.window, esIn.max)
            near(i, j) == i = j \/ (i + 1) % esIn.m = j \/ (j + 1) % esIn.m = i
            pool == {i \in 0..(esIn.m - 1) : inWindow(wrapLag(i, esIn.m), esIn.window)}
        IN  /\ Range(picks) \subseteq pool
            /\ \A k, l \in DOMAIN picks : k < l =>
                   ~near(picks[k], picks[l]) /\ EsAbs(esIn.r[picks[k]]) >= EsAbs(esIn.r[picks[l]])
            /\ Len(picks) < esIn.max =>
                   \A i \in pool : \E p \in Range(picks) :
                       near(i, p) /\ EsAbs(esIn.r[p]) >= EsAbs(esIn.r[i])

\* suggestDelay: when the operator gave a window, a suggestion comes from it
\* and is at least as strong as chance; a window with nothing in it is named
\* as such and offers no lag.
EsWindowHonoured ==
    esIn.kind = "peaks" =>
        LET s == suggestDelay(esIn)
            best == {i \in 0..(esIn.m - 1) : inWindow(wrapLag(i, esIn.m), esIn.window)}
        IN  /\ s.verdict # "WindowEmpty" =>
                   /\ inWindow(s.lag, esIn.window)
                   /\ esIn.restricted => EsAbs(s.candidates[1]) >= EsNullFloor
                   /\ \A i \in best : EsAbs(esIn.r[i]) <= EsAbs(s.candidates[1])
            /\ s.verdict = "Accepted" => \E i \in best : EsAbs(esIn.r[i]) >= EsAccept * EsNullFloor

\* spatialAverageBins, spatialAverageMtw: a mean lies between the levels of the
\* positions that have weight there, so that a position without coherence or
\* trim moves nothing; a curve is published exactly when some position has
\* weight somewhere, and a band with contributors but no weight still says so.
EsAverageHonest ==
    esIn.kind = "spatial" =>
        LET ps     == esIn.positions
            bands  == DOMAIN ps[1].level
            heavy(b) == {i \in DOMAIN ps : ps[i].trim > 0 /\ ps[i].coherence[b] > 0}
            result == spatialAverageMtw(ps)
        IN  /\ (result # <<>>) = (\E b \in bands : heavy(b) # {})
            /\ \A r \in Range(result) : \A b \in bands :
                   IF heavy(b) # {}
                   THEN /\ r[b].absence = "Present"
                        /\ \E lo, hi \in heavy(b) :
                               /\ ps[lo].level[b] * r[b].weight <= r[b].level
                               /\ r[b].level <= ps[hi].level[b] * r[b].weight
                   ELSE r[b].absence = IF \E i \in DOMAIN ps : ps[i].trim > 0 /\ ps[i].coherence[b] = 0
                                       THEN "NoWeight" ELSE "NoContributor"

Negated(s) == [i \in DOMAIN s |-> -s[i]]

\* findPolarity, relativePolarity: swapping the leads of one loudspeaker turns
\* the sign round and changes nothing else, neither the arrival nor whether an
\* answer is refused; an answer has a sign exactly when it is not refused.
EsPolarityFlips ==
    /\ esIn.kind = "polarity" =>
           LET p == findPolarity(esIn)
               q == findPolarity([esIn EXCEPT !.samples = Negated(@)])
           IN  /\ q = [p EXCEPT !.sign = -@]
               /\ (p.sign # 0) = (p.refusal = "None")
    /\ esIn.kind = "relative" =>
           LET p == relativePolarity(esIn.a, esIn.b)
               q == relativePolarity(esIn.a, Negated(esIn.b))
           IN  /\ q = [p EXCEPT !.sign = -@]
               /\ relativePolarity(esIn.b, esIn.a).height = p.height
               /\ (p.sign # 0) = (p.refusal = "None")

\* BandWeights::apply: the power of a band is the sum over every bin of density
\* times that band's own response, although the rows share one array.
EsRowsAreOwn ==
    esIn.kind = "bands" =>
        LET rows == rowsOf(esIn.responses, esIn.nearest)
            weights == weightsOf(esIn.responses, rows)
        IN  \A i \in DOMAIN rows :
                bandPower(esIn.density, rows, weights, i) =
                    EsSum(DOMAIN esIn.density, LAMBDA b : esIn.density[b] * esIn.responses[i][b])

\* hasOverload: reported exactly when runLength samples in a row are clipped.
EsOverloadIsRun ==
    esIn.kind = "overload" =>
        hasOverload(esIn.x, esIn.run) =
            (\E from \in 1..(Len(esIn.x) + 1) :
                 /\ from + esIn.run - 1 <= Len(esIn.x)
                 /\ \A i \in from..(from + esIn.run - 1) : esIn.x[i])

\* The estimators on top of a measurement: delay peaks, windows, spatial averages, polarity, and the
\* rows and overloads they report.
EsInv == EsPeaksSeparated /\ EsWindowHonoured /\ EsAverageHonest /\ EsPolarityFlips /\ EsRowsAreOwn /\ EsOverloadIsRun
=============================================================================
