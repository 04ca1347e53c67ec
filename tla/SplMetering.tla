------------------------------ MODULE SplMetering ------------------------------
(***************************************************************************)
(* What one logged channel computes from its hops: SplMeter and its block  *)
(* accumulator, SplSession's chains and windows, SplChannelState's history,*)
(* alarms, dose and Ln histogram, and the view published from them.  A     *)
(* sample is its amplitude, a level is kept as energy (a sum of squares),  *)
(* so that "Leq > limit" is exact: sum > limit * samples.                  *)
(***************************************************************************)
EXTENDS Integers, Sequences, SequencesExt

CONSTANTS SplConfigs,      \* configurations: metrics, alarms, block, span, lnTick
          Amplitudes,      \* sample amplitudes
          FullScale,       \* kFullScaleThreshold
          OverloadRun,     \* kOverloadRunLength
          HopLengths,      \* samples per hop
          ReadyCapacity,   \* kReadyBufferCapacity
          TickCapacity,    \* lnTickBufferCapacity
          MaxWindowBlocks, \* kMaxWindowBlocks
          MaxMetrics,      \* SplConfig::kMaxMetrics
          MaxMarkers,      \* SplHistory::kMaxMarkers
          LnTop,           \* bins 1..LnTop of the level histogram
          MaxHops,         \* bound: hops fed to one session
          MaxDrops         \* bound: samples the bus refused

ASSUME SplAssumption == /\ \A c \in SplConfigs : c.block \in Nat \ {0} /\ c.span \in Nat
                        /\ ReadyCapacity \in Nat \ {0} /\ Amplitudes \subseteq Nat

VARIABLES splConfig,  \* the configuration in force
          order,      \* SplSession::chains_ : the weightings in order, the window's capacity
          chains,     \* weighting |-> SplSession::Chain
          drops,      \* bus drop count, the baseline taken of it
          channel,    \* SplChannelState
          splSeen     \* samples fed, ticks, blocks polled: what the properties compare with

splVars == <<splConfig, order, chains, drops, channel, splSeen>>

None == "none"
Never == -1  \* no transition yet
Spent == 0   \* no headroom to name: std::nullopt

-----------------------------------------------------------------------------
(* SplConfig and SplSession::start. *)

accepted(c) == IF Len(c.metrics) < MaxMetrics THEN c.metrics ELSE SubSeq(c.metrics, 1, MaxMetrics)

addOnce(ws, w) == IF \E i \in DOMAIN ws : ws[i] = w THEN ws ELSE Append(ws, w)

\* The distinct weightings in metric order, Z when there is none, and A always.
weightingsOf(c) ==
    LET own == FoldLeft(LAMBDA ws, m : addOnce(ws, m.w), <<>>, accepted(c))
    IN  addOnce(IF own = <<>> THEN <<"Z">> ELSE own, "A")

windowCapacity(c) ==
    LET longest == FoldLeft(LAMBDA n, m : IF m.win > n THEN m.win ELSE n, 1, accepted(c))
    IN  IF longest < MaxWindowBlocks THEN longest ELSE MaxWindowBlocks

freshAcc == [pending |-> 0, index |-> 0, sum |-> 0, peak |-> 0, dropped |-> 0, flags |-> {}]

freshChain == [acc |-> freshAcc, run |-> 0, ticker |-> 0, ticks |-> <<>>, lostTicks |-> 0,
               ready |-> <<>>, window |-> <<>>, closed |-> <<>>, blocks |-> 0,
               flagsSeen |-> {}, droppedTotal |-> 0]

-----------------------------------------------------------------------------
(* BlockAccumulator and SplMeter. *)

\* The A network attenuates, the others pass: what the weighting filters do to energy.
weigh(w, x) == IF w = "A" /\ x > 0 THEN x - 1 ELSE x

noteDroppedSamples(a, n) ==
    IF n = 0 THEN a ELSE [a EXCEPT !.dropped = @ + n, !.flags = @ \cup {"Gap"}]

closedBlock(a, block) == [index |-> a.index, samples |-> block, dropped |-> a.dropped,
                          sum |-> a.sum, peak |-> a.peak, flags |-> a.flags]

closeBlock(a) == [freshAcc EXCEPT !.index = a.index + 1]

\* One sample of SplMeter::push: the Ln tick, the overload run, the accumulator; a block it
\* closes goes to the ready buffer, or back into the accumulator as samples dropped.
pushSample(c, w, block, lnTick, x) ==
    LET y == weigh(w, x)
        run == IF x >= FullScale THEN c.run + 1 ELSE 0
        a == [c.acc EXCEPT !.pending = @ + 1, !.sum = @ + y * y,
                           !.peak = IF x > @ THEN x ELSE @,
                           !.flags = IF run >= OverloadRun THEN @ \cup {"Overload"} ELSE @]
        ticks == (c.ticker + 1) % lnTick = 0
        room == Len(c.ticks) < TickCapacity
        d == [c EXCEPT !.run = run, !.ticker = @ + 1,
                       !.ticks = IF ticks /\ room THEN Append(@, y) ELSE @,
                       !.lostTicks = IF ticks /\ ~room THEN @ + 1 ELSE @]
        b == closedBlock(a, block)
    IN  IF a.pending < block THEN [d EXCEPT !.acc = a]
        ELSE IF Len(c.ready) < ReadyCapacity
             THEN [d EXCEPT !.acc = closeBlock(a), !.ready = Append(@, b)]
             ELSE [d EXCEPT !.acc = [noteDroppedSamples(closeBlock(a), b.samples + b.dropped)
                                        EXCEPT !.flags = @ \cup {"Dropped"}]]

meterPush(c, w, hop) ==
    FoldLeft(LAMBDA d, x : pushSample(d, w, splConfig.block, splConfig.lnTick, x),
             [c EXCEPT !.ticks = <<>>], hop)

\* SplSession::feedHop polls every ready block into newlyClosed and the rolling window.
rollWindow(win, b, cap) == IF Len(win) < cap THEN Append(win, b) ELSE Append(Tail(win), b)

pollInto(c, b) ==
    [c EXCEPT !.blocks = @ + 1, !.flagsSeen = @ \cup b.flags, !.droppedTotal = @ + b.dropped,
              !.closed = Append(@, b), !.window = rollWindow(@, b, order.capacity)]

feedHop(c, w, hop) ==
    LET d == meterPush(c, w, hop)
    IN  FoldLeft(pollInto, [d EXCEPT !.closed = <<>>, !.ready = <<>>], d.ready)

\* noteDropCount: the first count is the baseline, later ones are owed to every chain.
noteDropCount(cs, d) ==
    IF ~d.based \/ d.bus <= d.last THEN cs
    ELSE [w \in DOMAIN cs |-> [cs[w] EXCEPT !.acc = noteDroppedSamples(@, d.bus - d.last)]]

-----------------------------------------------------------------------------
(* combineBlocks, the window at each close, and the alarms. *)

combineBlocks(bs) ==
    LET kept == SelectSeq(bs, LAMBDA b : "CalibrationInvalid" \notin b.flags)
    IN  [sum |-> FoldLeft(LAMBDA s, b : s + b.sum, 0, kept),
         samples |-> FoldLeft(LAMBDA s, b : s + b.samples, 0, kept),
         excluded |-> Len(bs) - Len(kept)]

suffix(s, n) == SubSeq(s, Len(s) - n + 1, Len(s))

windowAtCloseUntrimmed(closed, full, i) == full

\* windowAtClose: the part of the window that ends with the i-th block this hop closed.
windowAtClose(closed, full, i) ==
    IF Len(closed) <= Len(full) THEN SubSeq(full, 1, Len(full) - (Len(closed) - i))
    ELSE LET count == IF Len(full) < i THEN Len(full) ELSE i
         IN  SubSeq(closed, i - count + 1, i)

freshAlarm(spec, k) == [spec |-> spec, of |-> k, active |-> FALSE, state |-> "Filling",
                        everFull |-> FALSE, since |-> Never, headroom |-> Spent]

headroomOfWholeWindow(spec, tail, full, block) ==
    LET left == spec.limit * spec.win * block - combineBlocks(tail).sum
    IN  IF left <= 0 THEN Spent ELSE left

\* headroomDb in energy: what the next block may add before the window is over its limit.
headroom(spec, tail, full, block) ==
    LET recent == IF full THEN combineBlocks(Tail(tail)) ELSE combineBlocks(tail)
        window == IF full THEN recent.samples + block
                  ELSE (spec.win - combineBlocks(tail).excluded) * block
        left == spec.limit * window - recent.sum
    IN  IF (~full /\ recent.samples = 0) \/ window <= recent.samples \/ left <= 0 THEN Spent ELSE left

\* AlarmLatch::update: only a full window with energy moves it.
latchUpdate(a, w, limit) ==
    LET over == w.sum > limit * w.samples
    IN  IF w.samples = 0 \/ over = a.active THEN None ELSE IF over THEN "Fired" ELSE "Clear"

alarmUpdate(a, win, index) ==
    LET n == IF a.spec.win < Len(win) THEN a.spec.win ELSE Len(win)
        tail == suffix(win, n)
        full == n = a.spec.win
        w == combineBlocks(tail)
        t == IF full THEN latchUpdate(a, w, a.spec.limit) ELSE None
        first == full /\ ~a.everFull /\ w.samples > 0
    IN  [a EXCEPT !.active = IF t = None THEN @ ELSE t = "Fired",
                  !.state = IF t # None THEN t ELSE IF first THEN "Clear" ELSE @,
                  !.everFull = @ \/ first,
                  !.since = IF t # None THEN index ELSE @,
                  !.headroom = IF a.spec.win = 0 THEN Spent
                               ELSE headroom(a.spec, tail, full, splConfig.block)]

\* buildAlarmGroups: alarms grouped by the weighting of the metric they name.
alarmWeighting(c, spec) ==
    LET ms == {k \in DOMAIN c.metrics : c.metrics[k].id = spec.metric}
    IN  IF ms = {} THEN None ELSE c.metrics[CHOOSE k \in ms : \A j \in ms : k <= j].w

groupOrder(c) == FoldLeft(LAMBDA ws, s : addOnce(ws, alarmWeighting(c, s)), <<>>, c.alarms)

buildAlarmGroups(c) ==
    LET fresh == [k \in DOMAIN c.alarms |-> freshAlarm(c.alarms[k], k)]
    IN  [g \in DOMAIN groupOrder(c) |->
            [w |-> groupOrder(c)[g],
             alarms |-> SelectSeq(fresh, LAMBDA a : alarmWeighting(c, a.spec) = groupOrder(c)[g])]]

-----------------------------------------------------------------------------
(* SplHistory: a ring of blocks and a bounded list of markers. *)

freshHistory(span) == [pushed |-> 0, first |-> 0, ring |-> [k \in 0..(span - 1) |-> <<>>],
                       markers |-> <<>>, overflow |-> 0]

historyPush(h, b, span) ==
    IF span = 0 THEN h
    ELSE [h EXCEPT !.first = IF h.pushed = 0 THEN b.index ELSE @, !.pushed = @ + 1,
                   !.ring[h.pushed % span] = <<b>>]

addMarker(h, m) ==
    IF Len(h.markers) >= MaxMarkers THEN [h EXCEPT !.overflow = @ + 1]
    ELSE [h EXCEPT !.markers = Append(@, m)]

oldestBlockIndex(h, span) == IF h.pushed <= span THEN h.first ELSE h.first + h.pushed - span
newestBlockIndex(h) == h.first + h.pushed - 1

historyAt(h, i, span) ==
    IF h.pushed = 0 \/ i < oldestBlockIndex(h, span) \/ i > newestBlockIndex(h) THEN <<>>
    ELSE h.ring[(i - h.first) % span]

-----------------------------------------------------------------------------
(* LevelHistogram and Dose. *)

BelowSpan == 0
AboveSpan == LnTop + 1

freshHistogram == [below |-> 0, above |-> 0, total |-> 0, bins |-> [k \in 1..LnTop |-> 0]]

histogramAdd(h, v) ==
    LET g == [h EXCEPT !.total = @ + 1]
    IN  IF v < 1 THEN [g EXCEPT !.below = @ + 1]
        ELSE IF v > LnTop THEN [g EXCEPT !.above = @ + 1] ELSE [g EXCEPT !.bins[v] = @ + 1]

\* The bin of the k-th smallest level, counted from 0.
pick(h, k) ==
    LET upTo[b \in 0..LnTop] == IF b = 0 THEN h.below ELSE upTo[b - 1] + h.bins[b]
        hits == {b \in 1..LnTop : k < upTo[b]}
    IN  IF k < h.below THEN BelowSpan
        ELSE IF hits = {} THEN AboveSpan ELSE CHOOSE b \in hits : \A d \in hits : b <= d

\* percentile(n), in hundredths of a bin: the level exceeded n% of the time.
percentile(h, n) ==
    LET pos == (h.total - 1) * (100 - n)
        lo == pick(h, pos \div 100)
        hi == pick(h, IF pos \div 100 + 1 < h.total THEN pos \div 100 + 1 ELSE h.total - 1)
        absent(p) == [centi |-> 0, absence |-> IF p = BelowSpan THEN "BelowSpan" ELSE "AboveSpan"]
        off(p) == p \in {BelowSpan, AboveSpan}
    IN  CASE h.total = 0 -> [centi |-> 0, absence |-> "NoData"]
          [] h.total > 0 /\ off(lo) -> absent(lo)
          [] h.total > 0 /\ ~off(lo) /\ pos % 100 = 0 -> [centi |-> 100 * lo, absence |-> "None"]
          [] h.total > 0 /\ ~off(lo) /\ pos % 100 # 0 /\ off(hi) -> absent(hi)
          [] OTHER -> [centi |-> 100 * lo + (pos % 100) * (hi - lo), absence |-> "None"]

doseAddBlock(d, b) ==
    IF b.sum < splConfig.threshold * b.samples THEN [d EXCEPT !.total = @ + 1, !.below = @ + 1]
    ELSE [d EXCEPT !.total = @ + 1, !.exposed = @ + b.sum]

-----------------------------------------------------------------------------
(* SplChannelState. *)

freshChannel(c) == [history |-> freshHistory(c.span), groups |-> buildAlarmGroups(c),
                    histogram |-> freshHistogram, dose |-> [total |-> 0, below |-> 0, exposed |-> 0]]

marker(a, b, index) ==
    [index |-> index, of |-> a.of, direction |-> IF b.active THEN 1 ELSE -1]

\* Each alarm of the groups whose chain closed a block, and a marker per transition.  An alarm
\* that names no metric, or a refused one whose weighting has no chain, is never fed.
updateAlarms(st, cs, i) ==
    LET index == cs[order.of[1]].closed[i].index
        step(s, g) ==
            LET w == s.groups[g].w
            IN  IF w \notin DOMAIN cs THEN s
                ELSE LET old == s.groups[g].alarms
                         win == windowAtClose(cs[w].closed, cs[w].window, i)
                         new == [k \in DOMAIN old |-> alarmUpdate(old[k], win, index)]
                         moved == SelectSeq([k \in DOMAIN old |-> k],
                                            LAMBDA k : new[k].active # old[k].active)
                     IN  [s EXCEPT !.groups[g].alarms = new,
                                   !.history = FoldLeft(LAMBDA h, k : addMarker(h, marker(old[k], new[k], index)),
                                                        s.history, moved)]
    IN  FoldLeft(step, st, [g \in DOMAIN st.groups |-> g])

onBlockClosed(st, cs, i) ==
    LET front == cs[order.of[1]].closed[i]
        a == cs["A"].closed[i]
        s == [st EXCEPT !.history = historyPush(@, front, splConfig.span),
                        !.dose = IF "CalibrationInvalid" \in a.flags THEN @ ELSE doseAddBlock(@, a)]
    IN  updateAlarms(s, cs, i)

\* fillPublish: group order flattened, then put back in the order of the configuration.
flattened(st) == FoldLeft(LAMBDA s, g : s \o g.alarms, <<>>, st.groups)

fillPublish(st) ==
    LET all == flattened(st)
    IN  [k \in DOMAIN all |-> all[CHOOSE j \in DOMAIN all : all[j].of = k]]

\* buildSplBlockView: a metric is the last blocks of its own chain's window.
metricReading(m) ==
    LET win == chains[m.w].window
        n == IF m.win = 0 THEN 1 ELSE m.win
        tail == suffix(win, IF n < Len(win) THEN n ELSE Len(win))
    IN  [id |-> m.id, level |-> combineBlocks(tail), fill |-> Len(tail), of |-> n]

buildSplBlockView ==
    LET front == chains[order.of[1]].window
    IN  IF front = <<>> THEN None
        ELSE [block |-> Last(front), metrics |-> [k \in DOMAIN accepted(splConfig) |->
                                                    metricReading(splConfig.metrics[k])],
              alarms |-> fillPublish(channel), refused |-> Len(splConfig.metrics) - Len(accepted(splConfig)),
              overflowed |-> channel.history.overflow]

-----------------------------------------------------------------------------
freshSeen == [hops |-> 0, fed |-> 0, noted |-> 0, ticks |-> <<>>, polled |-> <<>>]

chainOrder(c) == [of |-> weightingsOf(c), capacity |-> windowCapacity(c)]

startState(c) ==
    /\ splConfig' = c
    /\ order' = chainOrder(c)
    /\ chains' = [w \in Range(weightingsOf(c)) |-> freshChain]
    /\ channel' = freshChannel(c)
    /\ splSeen' = freshSeen

SplInit ==
    /\ splConfig \in SplConfigs
    /\ order = chainOrder(splConfig)
    /\ chains = [w \in Range(order.of) |-> freshChain]
    /\ channel = freshChannel(splConfig)
    /\ drops = [bus |-> 0, last |-> 0, based |-> FALSE]
    /\ splSeen = freshSeen

\* SplSession::start on a running session: nothing of the old one remains.
SessionRestart ==
    /\ splSeen.hops > 0
    /\ \E c \in SplConfigs : startState(c)
    /\ drops' = [drops EXCEPT !.based = FALSE]

\* The bus refused samples (CaptureBus::dropCount).
BusDrops(n) ==
    /\ drops.bus + n <= MaxDrops
    /\ drops' = [drops EXCEPT !.bus = @ + n]
    /\ UNCHANGED <<splConfig, order, chains, channel, splSeen>>

\* feedSpl: drop count, hop, every closed block in turn, then the Ln ticks of the A chain.
FeedSpl(hop) ==
    LET noted == noteDropCount(chains, drops)
        fed == [w \in DOMAIN chains |-> feedHop(noted[w], w, hop)]
        front == fed[order.of[1]]
        st == FoldLeft(LAMBDA s, i : onBlockClosed(s, fed, i), channel,
                       [i \in DOMAIN front.closed |-> i])
        owed == IF drops.based /\ drops.bus > drops.last THEN drops.bus - drops.last ELSE 0
    IN  /\ splSeen.hops < MaxHops
        /\ chains' = fed
        /\ drops' = [drops EXCEPT !.last = drops.bus, !.based = TRUE]
        /\ channel' = [st EXCEPT !.histogram = FoldLeft(histogramAdd, @, fed["A"].ticks)]
        /\ splSeen' = [splSeen EXCEPT !.hops = @ + 1, !.fed = @ + Len(hop), !.noted = @ + owed,
                           !.ticks = @ \o fed["A"].ticks, !.polled = @ \o front.closed]
        /\ UNCHANGED <<splConfig, order>>

SplNext == \/ \E n \in 1..MaxDrops : BusDrops(n)
           \/ SessionRestart
           \/ \E l \in HopLengths : \E hop \in [1..l -> Amplitudes] : FeedSpl(hop)

SplSpec == SplInit /\ [][SplNext]_splVars

-----------------------------------------------------------------------------
frontChain == chains[order.of[1]]
readyOverflowed == "Dropped" \in frontChain.flagsSeen \cup frontChain.acc.flags

\* Every chain keeps within its capacities; the chains of one channel close blocks together.
SplTypeOK ==
    /\ splConfig \in SplConfigs
    /\ \A w \in DOMAIN chains :
        /\ chains[w].acc.pending \in 0..(splConfig.block - 1)
        /\ Len(chains[w].window) <= order.capacity
        /\ Len(chains[w].ticks) <= TickCapacity
        /\ chains[w].blocks = frontChain.blocks
    /\ Len(channel.history.markers) <= MaxMarkers

\* No sample vanishes: what was fed and what the bus refused since the baseline is in the
\* closed blocks, as samples or as dropped samples, or still in the accumulator.
SamplesAccounted ==
    \A w \in DOMAIN chains :
        LET c == chains[w] IN
        c.blocks * splConfig.block + c.droppedTotal + c.acc.pending + c.acc.dropped
            = splSeen.fed + splSeen.noted

\* SplHistory::at gives the block that was closed under an index for as long as the span
\* covers it, whatever the number of times the ring has wrapped.  A block the ready buffer
\* had no room for leaves a hole in the indices, which at() does not expect; that takes more
\* than kReadyBufferCapacity blocks in one hop.
HistoryFindsBlocks ==
    readyOverflowed \/ \A k \in DOMAIN splSeen.polled :
        LET b == splSeen.polled[k]
            kept == k > Len(splSeen.polled) - splConfig.span
        IN  historyAt(channel.history, b.index, splConfig.span) = (IF kept THEN <<b>> ELSE <<>>)

\* A window handed to the alarms ends with the block that closed and is a run of the blocks
\* closed up to it, of the length the capacity allows when the hop closed one block only.
WindowEndsAtItsBlock ==
    \A i \in DOMAIN frontChain.closed :
        LET win == windowAtClose(frontChain.closed, frontChain.window, i)
            upTo == Len(splSeen.polled) - Len(frontChain.closed) + i
            cap == order.capacity
        IN  /\ Len(win) \in 1..(IF upTo < cap THEN upTo ELSE cap)
            /\ win = SubSeq(splSeen.polled, upTo - Len(win) + 1, upTo)
            /\ Len(frontChain.closed) = 1 => Len(win) = (IF upTo < cap THEN upTo ELSE cap)

\* The published alarm k is the alarm k of the configuration: grouping by weighting must not
\* show the state of one under the name of another.
AlarmsInConfigOrder ==
    \A k \in DOMAIN splConfig.alarms : fillPublish(channel)[k].spec = splConfig.alarms[k]

\* An alarm is fired exactly when the last full window it saw was over its limit, and its
\* markers, while none overflowed, alternate between fired and cleared.
AlarmMarkersAlternate ==
    channel.history.overflow = 0 =>
        \A k \in DOMAIN splConfig.alarms :
            LET mine == SelectSeq(channel.history.markers, LAMBDA m : m.of = k)
            IN  /\ \A i \in DOMAIN mine : mine[i].direction = (IF i % 2 = 1 THEN 1 ELSE -1)
                /\ (fillPublish(channel)[k].state = "Fired") = (Len(mine) % 2 = 1)

\* Ln: a percentile read off the bins is the interpolated percentile of the sorted ticks
\* (percentileLevelDb), absent, with its reason, exactly when a level it needs is off the span.
LnIsPercentile ==
    LET sorted == SortSeq(splSeen.ticks, <)
        inSpan(v) == v \in 1..LnTop
        side(v) == IF v < 1 THEN "BelowSpan" ELSE "AboveSpan"
    IN  sorted # <<>> => \A n \in {0, 10, 50, 100} :
            LET pos == (Len(sorted) - 1) * (100 - n)
                lo == sorted[pos \div 100 + 1]
                hi == sorted[IF pos % 100 = 0 THEN pos \div 100 + 1 ELSE pos \div 100 + 2]
            IN  percentile(channel.histogram, n) =
                    IF ~inSpan(lo) THEN [centi |-> 0, absence |-> side(lo)]
                    ELSE IF ~inSpan(hi) THEN [centi |-> 0, absence |-> side(hi)]
                    ELSE [centi |-> 100 * lo + (pos % 100) * (hi - lo), absence |-> "None"]

\* The published view is of one moment: its block is the newest the session polled, every
\* metric is taken from a window of its own chain that ends with that block and is as full as
\* the blocks closed allow, and no alarm in it changed after that block.
ViewIsOfOneBlock ==
    LET v == buildSplBlockView
        seen == Len(splSeen.polled)
        least(S) == CHOOSE x \in S : \A y \in S : x <= y
    IN  IF seen = 0 THEN v = None
        ELSE /\ v.block = Last(splSeen.polled)
             /\ \A k \in DOMAIN v.metrics :
                    LET r == v.metrics[k]
                        m == splConfig.metrics[k]
                    IN  /\ r.id = m.id /\ Last(chains[m.w].window).index = v.block.index
                        /\ r.fill = least({r.of, seen, MaxWindowBlocks})
                        /\ m.w = order.of[1] => r.level = combineBlocks(suffix(splSeen.polled, r.fill))
             /\ \A k \in DOMAIN v.alarms : v.alarms[k].since <= v.block.index

\* The meter of one channel: no sample is lost, the history, the windows and the view name the
\* blocks that closed, and the alarms and percentiles are those of the levels fed.
SplInv == /\ SplTypeOK /\ SamplesAccounted /\ HistoryFindsBlocks /\ WindowEndsAtItsBlock
          /\ AlarmsInConfigOrder /\ AlarmMarkersAlternate /\ LnIsPercentile /\ ViewIsOfOneBlock

\* headroomDb (record section 15 A6) is what the NEXT block may be: when one block closes on
\* a window that was full, the alarm is over its limit exactly if that block exceeds it.
HeadroomForetells ==
    [][\A k \in DOMAIN splConfig.alarms :
          LET a == fillPublish(channel)[k]
              w == alarmWeighting(splConfig, splConfig.alarms[k])
              closed == IF w \in DOMAIN chains THEN chains'[w].closed ELSE <<>>
          IN  (/\ splSeen'.hops = splSeen.hops + 1 /\ w \in DOMAIN chains /\ Len(closed) = 1 /\ a.everFull
               /\ Len(chains[w].window) >= a.spec.win /\ a.spec.win > 0) =>
                LET over == fillPublish(channel')[k].state = "Fired"
                IN  IF a.headroom = Spent THEN over \/ closed[1].sum = 0
                    ELSE over = (closed[1].sum > a.headroom)
      ]_splVars
=============================================================================
