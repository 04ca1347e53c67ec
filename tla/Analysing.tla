----------------------------- MODULE Analysing -----------------------------
(***************************************************************************)
(* One Analyser (app/src/measure/Analyser.cpp) and the streaming engines   *)
(* in it: two SpectrumEngines, the DualFftEngine of the transfer function, *)
(* and the MtwEngine, which is one more DualFftEngine per band.  Samples   *)
(* arrive in blocks of any length; every engine cuts them into overlapping *)
(* frames with rings of its own, and pairs the reference with the          *)
(* measurement shifted by the delay the operator inserted.                 *)
(*                                                                         *)
(* A sample is the instant it was captured at; a frame pair's power is the *)
(* instant its reference frame begins at, so that a sum shows which frames *)
(* are in it.  What FFT, windowing and the estimators compute from a frame *)
(* is left out; which frames they see is the subject.                      *)
(***************************************************************************)
EXTENDS Integers, Sequences, FiniteSets

CONSTANTS
    AnConfigs,    \* the Analyser configurations tried (see AnInit)
    AnFloor,      \* the smallest ring, 4096 in the code
    AnCorrelation,\* <<c1, c2, ...>>: 10000 times the squared overlap correlation at 1, 2, ... hops
    AnMinimum,    \* minimumEffectiveAverages
    AnAlpha,      \* alpha_ of the exponential average, <<numerator, denominator>>
    AnChunks      \* bound: the block lengths pushed

VARIABLES
    anCfg,        \* Analyser::Config
    anTime,       \* how many instants were captured
    anSpectrum,   \* measurementEngine_ and referenceEngine_
    anDual,       \* dual_ (index 0) and the bands of mtw_ (1, 2, ...)
    anFlags,      \* referencePushed_, dualEngaged_, mtwEngaged_, sequence_
    anPub,        \* the last Snapshot published: <<>> or <<snapshot>>
    anSince       \* [start: the first instant since the last reset, resets]

anVars == <<anCfg, anTime, anSpectrum, anDual, anFlags, anPub, anSince>>

AnMin(a, b) == IF a < b THEN a ELSE b
AnMax(a, b) == IF a > b THEN a ELSE b
AnCeil(n) == CHOOSE c \in {2 ^ k : k \in 0..24} :
                 c >= n /\ \A k \in 0..24 : 2 ^ k >= n => c <= 2 ^ k
AnTail(s, n) == SubSeq(s, n + 1, Len(s))

-----------------------------------------------------------------------------
(* The layout of the multi-time-window transfer function (MtwLayout.cpp).   *)

fftSizeForIndex(cfg, i) == cfg.top * 2 ^ (cfg.octaves - i)

firstBinOf(cfg, i) == IF i = 0 THEN 0 ELSE cfg.top \div 8
lastBinOf(cfg, i) == IF i = cfg.octaves THEN cfg.top \div 2 ELSE cfg.top \div 4 - 1
BandPoints(cfg, i) == lastBinOf(cfg, i) - firstBinOf(cfg, i) + 1

mtwBands(cfg) ==
    LET runningIndex[i \in 0..cfg.octaves] ==
            IF i = 0 THEN 0 ELSE runningIndex[i - 1] + BandPoints(cfg, i - 1)
    IN  [i \in 0..cfg.octaves |->
            [fft |-> fftSizeForIndex(cfg, i), hop |-> fftSizeForIndex(cfg, i) \div 4,
             firstBin |-> firstBinOf(cfg, i), lastBin |-> lastBinOf(cfg, i),
             firstIndex |-> runningIndex[i]]]

mtwPointCount(cfg) ==
    (cfg.top \div 2 - cfg.top \div 8 + 1) + (cfg.octaves - 1) * (cfg.top \div 8) + cfg.top \div 4

\* Frequencies in units of the lowest band's bin width.
mtwFrequencies(cfg) ==
    LET bands == mtwBands(cfg)
        points(i) == [k \in 1..BandPoints(cfg, i) |->
                         (bands[i].firstBin + k - 1) * 2 ^ i]
        upTo[i \in 0..cfg.octaves] ==
            IF i = 0 THEN points(0) ELSE upTo[i - 1] \o points(i)
    IN  upTo[cfg.octaves]

\* The band a stitched index belongs to.
bandForIndex(cfg, index) ==
    LET bands == mtwBands(cfg)
    IN  CHOOSE b \in 0..cfg.octaves :
            /\ index >= bands[b].firstIndex
            /\ index < bands[b].firstIndex + BandPoints(cfg, b)

-----------------------------------------------------------------------------
(* SpectrumEngine: one ring, frames of fft samples every hop samples.       *)

\* The members of SpectrumEngine that last from block to block.
SpectrumState(fft, hop) ==
    [fft |-> fft, hop |-> hop, pending |-> <<>>, frames |-> 0, seed |-> 0, last |-> 0,
     stuck |-> FALSE]

\* Analyser's two SpectrumEngines are built alike.
toEngineConfig(cfg) == SpectrumState(cfg.fft, cfg.hop)

\* bufferCapacity of SpectrumEngine.cpp
spectrumCapacity(e) == AnCeil(AnMax(4 * e.fft, AnFloor))

\* The frames a ring of `have` samples yields.
FramesIn(e, have) == IF have < e.fft THEN 0 ELSE (have - e.fft) \div e.hop + 1

\* drainFrames and analyseFrame: the first frame seeds the average.
drainSpectrum(e) ==
    LET n == FramesIn(e, Len(e.pending))
    IN  IF n = 0 THEN e
        ELSE [e EXCEPT !.pending = AnTail(@, n * e.hop), !.frames = @ + n,
                       !.seed = IF e.frames = 0 THEN e.pending[1] ELSE @,
                       !.last = e.pending[(n - 1) * e.hop + 1]]

\* One pass of process's loop over what is left of the block.
spectrumPass(s) ==
    LET room    == spectrumCapacity(s.e) - Len(s.e.pending)
        drained == drainSpectrum(s.e)
        count   == AnMin(room, Len(s.left))
    IN  IF s.left = <<>> \/ s.e.stuck THEN s
        ELSE IF room = 0
             THEN [s EXCEPT !.e = [drained EXCEPT !.stuck = Len(drained.pending) = spectrumCapacity(s.e)]]
        ELSE [e |-> drainSpectrum([s.e EXCEPT !.pending = @ \o SubSeq(s.left, 1, count)]),
              left |-> AnTail(s.left, count)]

processSpectrum(engine, block) ==
    LET pass[k \in 0..(2 * Len(block))] ==
            IF k = 0 THEN [e |-> engine, left |-> block] ELSE spectrumPass(pass[k - 1])
    IN  pass[2 * Len(block)].e

resetSpectrum(e) == SpectrumState(e.fft, e.hop)

-----------------------------------------------------------------------------
(* DualFftEngine: two rings, a one-time skip of one of them, and an average *)
(* of frame pairs: a running sum over the last `depth` of them, or a mean   *)
(* that the first one seeds and every later one moves.                      *)

armDelaySkipReversed(e) ==
    [e EXCEPT !.refSkip = AnMax(e.delay, 0), !.measSkip = AnMax(-e.delay, 0)]
armDelaySkip(e) ==
    [e EXCEPT !.refSkip = AnMax(-e.delay, 0), !.measSkip = AnMax(e.delay, 0)]

\* The members of DualFftEngine.
DualState(fft, hop, averaging, depth, delay) ==
    [fft |-> fft, hop |-> hop, averaging |-> averaging, depth |-> depth, delay |-> delay,
     ref |-> <<>>, meas |-> <<>>, refSkip |-> 0, measSkip |-> 0,
     fifo |-> [s \in 0..(depth - 1) |-> 0], sum |-> 0, mean |-> <<>>, frames |-> 0,
     pairs |-> <<>>, stuck |-> FALSE]

NewDual(fft, hop, averaging, depth, delay) ==
    armDelaySkip(DualState(fft, hop, averaging, depth, delay))

toDualConfig(cfg) == NewDual(cfg.fft, cfg.hop, cfg.averaging, cfg.depth, cfg.delay)

\* Every band of the MtwEngine has the same depth in frames and the same delay;
\* an exponential band is given a FIFO of one slot, which nothing reads.
bandConfig(cfg, band) ==
    NewDual(band.fft, band.hop, cfg.mtwAveraging,
            IF cfg.mtwAveraging = "Fifo" THEN cfg.depth ELSE 1, cfg.delay)

\* bufferCapacity of DualFftEngine.cpp: the skip is stored in the other ring.
dualCapacity(e) == AnCeil(AnMax(4 * e.fft + AnMax(e.delay, -e.delay), AnFloor))

Contiguous(frame) == \A i \in 1..(Len(frame) - 1) : frame[i + 1] = frame[i] + 1

\* accumulate.  Fifo: the frame that leaves is subtracted from the sum before its
\* slot is overwritten.  Exponential: the means are the frames that made them, the
\* one that seeded them first.
accumulate(e, power) ==
    LET frames == e.frames + 1
        slot   == (frames - 1) % e.depth
    IN  IF e.averaging = "Fifo"
        THEN [e EXCEPT !.frames = frames,
                       !.sum = @ + power - (IF frames > e.depth THEN e.fifo[slot] ELSE 0),
                       !.fifo[slot] = power]
        ELSE [e EXCEPT !.frames = frames,
                       !.mean = IF frames = 1 THEN <<power>> ELSE Append(@, power)]

\* analyseFramePair on the frames at the front of both rings; `pairs` keeps what
\* the pairs of the average were.
analyseFramePair(e) ==
    LET ref  == SubSeq(e.ref, 1, e.fft)
        meas == SubSeq(e.meas, 1, e.fft)
        pair == [at |-> ref[1], shift |-> meas[1] - ref[1],
                 whole |-> Contiguous(ref) /\ Contiguous(meas)]
        kept == IF e.averaging = "Fifo" /\ Len(e.pairs) = e.depth THEN Tail(e.pairs) ELSE e.pairs
    IN  [accumulate(e, ref[1]) EXCEPT !.ref = AnTail(@, e.hop), !.meas = AnTail(@, e.hop),
                                      !.pairs = Append(kept, pair)]

\* drainFrames: while both rings hold a frame.
drainFrames(e) ==
    LET n == FramesIn(e, AnMin(Len(e.ref), Len(e.meas)))
        after[k \in 0..n] == IF k = 0 THEN e ELSE analyseFramePair(after[k - 1])
    IN  after[n]

\* One pass of process's loop: while a skip is armed only the other channel is
\* stored, then both are, and frames are drained.
dualPass(s) ==
    LET e        == s.e
        cap      == dualCapacity(e)
        roomRef  == cap - Len(e.ref)
        roomMeas == cap - Len(e.meas)
        skip     == AnMax(e.measSkip, e.refSkip)
        room     == IF e.measSkip > 0 THEN roomRef
                    ELSE IF e.refSkip > 0 THEN roomMeas ELSE AnMin(roomRef, roomMeas)
        n        == IF skip > 0 THEN AnMin(skip, AnMin(Len(s.left), room))
                                ELSE AnMin(room, Len(s.left))
        now      == SubSeq(s.left, 1, n)
        rest     == AnTail(s.left, n)
        drained  == drainFrames(e)
    IN  IF s.left = <<>> \/ e.stuck THEN s
        ELSE IF room = 0
             THEN [s EXCEPT !.e = [drained EXCEPT !.stuck = drained.frames = e.frames]]
        ELSE IF e.measSkip > 0
             THEN [e |-> [e EXCEPT !.ref = @ \o now, !.measSkip = @ - n], left |-> rest]
        ELSE IF e.refSkip > 0
             THEN [e |-> [e EXCEPT !.meas = @ \o now, !.refSkip = @ - n], left |-> rest]
        ELSE [e |-> drainFrames([e EXCEPT !.ref = @ \o now, !.meas = @ \o now]), left |-> rest]

process(engine, block) ==
    LET pass[k \in 0..(2 * Len(block))] ==
            IF k = 0 THEN [e |-> engine, left |-> block] ELSE dualPass(pass[k - 1])
    IN  pass[2 * Len(block)].e

\* reset forgets the stream and re-arms the skip; the FIFO's slots keep their
\* old values and only the count of frames says that they are void.
resetDual(e) ==
    armDelaySkip([e EXCEPT !.ref = <<>>, !.meas = <<>>, !.sum = 0, !.mean = <<>>,
                           !.pairs = <<>>, !.frames = 0])

\* fifoEffectiveAverages: overlapping frames count for less than one each;
\* K frames are worth K / (1 + 2 sum (1 - m/K) c(m)^2).  Kept as a fraction.
Penalty(e, k) ==
    LET hops == {m \in 1..Len(AnCorrelation) : m * e.hop < e.fft /\ m < k}
        sum[m \in 0..Len(AnCorrelation)] ==
            IF m = 0 THEN 0
            ELSE sum[m - 1] + (IF m \in hops THEN (k - m) * AnCorrelation[m] ELSE 0)
    IN  sum[Len(AnCorrelation)]

fifoEffectiveAverages(e) ==
    LET k == AnMin(e.frames, e.depth)
    IN  IF k = 0 THEN [num |-> 0, den |-> 1]
        ELSE [num |-> k * k * 10000, den |-> k * 10000 + 2 * Penalty(e, k)]

\* exponentialEffectiveAverages: Kish's size of the weights (1-a)^(K-1), then
\* a (1-a)^(K-i), is size.num / size.den; every frame beyond the first is divided by
\* the penalty of all lags the window overlaps at.
exponentialEffectiveAverages(e) ==
    LET p    == AnAlpha[1]
        q    == AnAlpha[2]
        k    == e.frames
        size == [num |-> (2 * q - p) * q ^ (2 * (k - 1)),
                 den |-> 2 * (q - p) * (q - p) ^ (2 * (k - 1)) + p * q ^ (2 * (k - 1))]
        lags == {m \in 1..Len(AnCorrelation) : m * e.hop < e.fft}
        sum[m \in 0..Len(AnCorrelation)] ==
            IF m = 0 THEN 0 ELSE sum[m - 1] + (IF m \in lags THEN AnCorrelation[m] ELSE 0)
        excess == 2 * sum[Len(AnCorrelation)]
    IN  IF k = 0 THEN [num |-> 0, den |-> 1]
        ELSE [num |-> excess * size.den + 10000 * size.num,
              den |-> (10000 + excess) * size.den]

effectiveAverages(e) ==
    IF e.averaging = "Fifo" THEN fifoEffectiveAverages(e) ELSE exponentialEffectiveAverages(e)

\* makeSnapshot: coherence only past the gate.
coherenceUnlocked(e) ==
    effectiveAverages(e).num >= AnMinimum * effectiveAverages(e).den

-----------------------------------------------------------------------------
(* The Analyser.                                                            *)

\* A behaviour begins with an Analyser of one of the configurations; `paired`
\* says that its route has a reference; `length`, `resets` and `publishes` bound
\* what happens to it.
AnInit ==
    /\ anCfg \in AnConfigs
    /\ anTime = 0
    /\ anSpectrum = [c \in {"measurement", "reference"} |-> toEngineConfig(anCfg)]
    /\ anDual = [i \in 0..(anCfg.octaves + 1) |->
                    IF i = 0 THEN toDualConfig(anCfg)
                    ELSE bandConfig(anCfg, mtwBands(anCfg)[i - 1])]
    /\ anFlags = [reference |-> FALSE, pairs |-> FALSE, mtw |-> FALSE, sequence |-> 0]
    /\ anPub = <<>>
    /\ anSince = [start |-> 1, resets |-> 0]

Block(n) == [i \in 1..n |-> anTime + i]

\* Analyser::pushPair: the same instants to every engine, mtw_'s only if it is enabled.
AnPushPair(n) ==
    /\ anCfg.paired
    /\ anTime + n <= anCfg.length
    /\ anTime' = anTime + n
    /\ anSpectrum' = [c \in DOMAIN anSpectrum |-> processSpectrum(anSpectrum[c], Block(n))]
    /\ anDual' = [i \in DOMAIN anDual |->
                     IF i = 0 \/ anCfg.mtwEnabled THEN process(anDual[i], Block(n)) ELSE anDual[i]]
    /\ anFlags' = [anFlags EXCEPT !.reference = TRUE, !.pairs = TRUE,
                                  !.mtw = @ \/ anCfg.mtwEnabled]
    /\ UNCHANGED <<anCfg, anPub, anSince>>

\* Analyser::pushMeasurement, for a route without a reference.
AnPushMeasurement(n) ==
    /\ ~anCfg.paired
    /\ anTime + n <= anCfg.length
    /\ anTime' = anTime + n
    /\ anSpectrum' = [anSpectrum EXCEPT !["measurement"] = processSpectrum(@, Block(n))]
    /\ UNCHANGED <<anCfg, anDual, anFlags, anPub, anSince>>

AnReset ==
    /\ anSince.resets < anCfg.resets
    /\ anTime < anCfg.length
    /\ anTime > 0
    /\ anSpectrum' = [c \in DOMAIN anSpectrum |-> resetSpectrum(anSpectrum[c])]
    /\ anDual' = [i \in DOMAIN anDual |-> resetDual(anDual[i])]
    /\ anFlags' = [anFlags EXCEPT !.reference = FALSE, !.pairs = FALSE, !.mtw = FALSE]
    /\ anSince' = [start |-> anTime + 1, resets |-> anSince.resets + 1]
    /\ UNCHANGED <<anCfg, anTime, anPub>>

\* makeTransferBlock: what the transfer pane draws.
makeTransferBlock(e) ==
    [coherence |-> coherenceUnlocked(e), averages |-> effectiveAverages(e), applied |-> e.delay]

\* makeMtwResult and makeMtwBlock: every band's own bins at its own place in the
\* stitched curve.  A point is <<band, bin>>, the coherence of a band whose gate
\* is shut is absent.
makeMtwBlock(cfg, engines) ==
    [i \in 0..(Len(mtwFrequencies(cfg)) - 1) |->
        LET b == bandForIndex(cfg, i)
            band == mtwBands(cfg)[b]
        IN  [h |-> <<b, band.firstBin + (i - band.firstIndex)>>,
             coherence |-> coherenceUnlocked(engines[b + 1])]]

\* Analyser::publish
AnPublish ==
    /\ anFlags.sequence < anCfg.publishes
    /\ anFlags' = [anFlags EXCEPT !.sequence = @ + 1]
    /\ anPub' = <<[sequence |-> anFlags.sequence + 1,
                   frames |-> anSpectrum["measurement"].frames,
                   hasReference |-> anFlags.reference,
                   transfer |-> IF anFlags.pairs /\ anDual[0].frames > 0
                                THEN <<makeTransferBlock(anDual[0])>> ELSE <<>>,
                   mtw |-> IF anFlags.mtw THEN <<makeMtwBlock(anCfg, anDual)>> ELSE <<>>]>>
    /\ UNCHANGED <<anCfg, anTime, anSpectrum, anDual, anSince>>

AnNext ==
    \/ \E n \in AnChunks : AnPushPair(n) \/ AnPushMeasurement(n)
    \/ AnReset
    \/ AnPublish

AnSpec == AnInit /\ [][AnNext]_anVars

-----------------------------------------------------------------------------
\* DualFftEngine.process/drainFrames: whatever the lengths of the blocks, every
\* frame pair in the average holds contiguous samples, the measurement exactly
\* `delay` instants after the reference, and successive pairs are one hop apart.
AnPairsAligned ==
    \A i \in DOMAIN anDual :
        LET e == anDual[i]
        IN  \A k \in 1..Len(e.pairs) :
                /\ e.pairs[k].whole
                /\ e.pairs[k].shift = e.delay
                /\ k > 1 => e.pairs[k].at = e.pairs[k - 1].at + e.hop

\* How many frames a stream of `samples` instants holds.
FramesOf(e, samples) == FramesIn(e, AnMax(samples, 0))

\* SpectrumEngine.process, DualFftEngine.process: how many frames an engine has
\* analysed depends on how many instants passed since the last reset and on the
\* delay, never on how they were cut into blocks: no sample is lost or read
\* twice at the end of a block.  No engine ends up unable to drain.
AnNoSampleLost ==
    LET fed == anTime - anSince.start + 1
    IN  /\ anSpectrum["measurement"].frames = FramesOf(anSpectrum["measurement"], fed)
        /\ \A c \in DOMAIN anSpectrum : ~anSpectrum[c].stuck
        /\ \A i \in DOMAIN anDual :
               LET e == anDual[i]
               IN  /\ ~e.stuck
                   /\ anCfg.paired /\ (i = 0 \/ anCfg.mtwEnabled) =>
                          e.frames = FramesOf(e, fed - AnMax(e.delay, -e.delay))

\* DualFftEngine.accumulate and reset: a FIFO average is the sum over the last
\* `depth` frame pairs since the last reset and of nothing older, although the slots
\* keep what they held before it; an exponential one is seeded by the first pair
\* after it and moved once by every later one.
AnSumIsWindow ==
    \A i \in DOMAIN anDual :
        LET e == anDual[i]
            total[k \in 0..Len(e.pairs)] == IF k = 0 THEN 0 ELSE total[k - 1] + e.pairs[k].at
        IN  /\ \A k \in 1..Len(e.pairs) : e.pairs[k].at >= anSince.start
            /\ e.averaging = "Fifo" =>
                   /\ e.sum = total[Len(e.pairs)]
                   /\ Len(e.pairs) = AnMin(e.frames, e.depth)
            /\ e.averaging = "Exponential" =>
                   /\ Len(e.pairs) = e.frames
                   /\ e.mean = [k \in 1..Len(e.pairs) |-> e.pairs[k].at]

\* fifoEffectiveAverages, exponentialEffectiveAverages, makeSnapshot: no average is
\* worth more than the frame pairs in it, so coherence, which is 1 at every bin of a
\* single pair, is told only of at least minimumEffectiveAverages of them.
AnCoherenceEarned ==
    \A i \in DOMAIN anDual :
        LET worth == effectiveAverages(anDual[i])
        IN  /\ worth.num <= Len(anDual[i].pairs) * worth.den
            /\ coherenceUnlocked(anDual[i]) => Len(anDual[i].pairs) >= AnMinimum

\* mtwBands, mtwFrequencies, mtwPointCount, makeMtwBlock: for every legal
\* configuration the bands tile the stitched curve in ascending frequency, and
\* the bin published at an index is the bin of the frequency at that index.
AnStitched ==
    LET freq == mtwFrequencies(anCfg)
    IN  /\ Len(freq) = mtwPointCount(anCfg)
        /\ \A k \in 1..(Len(freq) - 1) : freq[k] < freq[k + 1]
        /\ anPub # <<>> =>
               \A block \in {anPub[1].mtw[j] : j \in 1..Len(anPub[1].mtw)} :
                   \A i \in DOMAIN block :
                       block[i].h[2] * 2 ^ block[i].h[1] = freq[i + 1]

\* The dual-channel estimators pair aligned samples, skip only what the delay asks for, and keep the
\* sums and the stitched spectrum of exactly the blocks in the window.
AnInv ==
    AnPairsAligned /\ AnNoSampleLost /\ AnSumIsWindow /\ AnCoherenceEarned /\ AnStitched
=============================================================================
