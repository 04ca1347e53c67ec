---------------------------- MODULE SyntheticFeed -----------------------------
(***************************************************************************)
(* SyntheticInput: the thread that stands in for an audio device.  It      *)
(* renders the output engine (or its own noise when the engine is quiet),  *)
(* sends output 0 and output 1 through their own paths onto the            *)
(* measurement channel, pushes one block, and paces itself by deadlines.   *)
(* Unlike a device it holds a block back while a ring has no room, but     *)
(* never for ever, and never while a resync waits for it.                  *)
(*                                                                         *)
(* DATA.  A sample is a small number, silence is 0; what the measurement   *)
(* channel hears is the pair of what the two paths add up.  The band-pass, *)
(* the room comb and the noise floor act on a sample after its delay and   *)
(* are left out.  Rings count blocks.  Time is relative: the lag behind    *)
(* the deadline and the time spent waiting for room.                       *)
(***************************************************************************)
EXTENDS Integers, Sequences, FiniteSets, FiniteSetsExt

CONSTANTS SyFrames,        \* Config::bufferSize
          SyDelays,        \* measurementDelaySamples and secondOutputDelaySamples: <<d0, d1>>
          SyRoom,          \* a ring's capacity, in blocks
          SyGiveUp,        \* kMaxBackPressureMs
          SyBlockMs,       \* a block's duration
          SyMaxLag,        \* kMaxLagMs
          SyBounds         \* the bounds of one behaviour: records [arms, resyncs, roles,
                           \* used], used the channels in use at the start

ASSUME SyAssumption == /\ SyFrames \in Nat \ {0} /\ SyDelays \in Nat \X Nat
                       /\ SyRoom \in Nat \ {0} /\ SyGiveUp \in Nat \ {0}
                       /\ SyBlockMs \in Nat \ {0} /\ SyMaxLag \in Nat
                       /\ SyBounds \subseteq [arms : Nat, resyncs : Nat, roles : Nat, used : SUBSET {0, 1}]

VARIABLES syEng,    \* the engine: armed, idle, the routed outputs
          syBus,    \* the bus: resync gate, blocks in each ring, the channels' use, active
          syFeed,   \* the thread: pc, whether it gave up, time waited, lag, asked to exit
          syBlock,  \* outputBlock_, and what the thread knew when it rendered it
          syPath,   \* the two delay lines: history and cursor
          syTape,   \* history: the last frames that left outputs 0 and 1
          syPushed, \* the last block handed to the bus: reference and measurement
          syDrop,   \* history: the last refused write, <<>> when there was none
          syBurst,  \* history: blocks pushed since the clock last moved
          syLeft    \* what is left of the behaviour's bounds

syVars == <<syEng, syBus, syFeed, syBlock, syPath, syTape, syPushed, syDrop, syBurst, syLeft>>

SyChannels == {0, 1}
SyWindow == Max({SyDelays[1], SyDelays[2]}) + SyFrames
SyQuiet == [i \in 1..SyFrames |-> 0]

(***************************************************************************)
(* SyntheticImpairment and SyntheticPacing.                                *)
(***************************************************************************)
\* DelayLine::process(): out[i] is the slot under the cursor, which then takes in[i].
delayLine(line, in) ==
    LET d == Len(line.history)
        slot(i) == (line.cursor + i - 1) % d      \* the slot sample i meets
        before(i) == {j \in 1..(i - 1) : slot(j) = slot(i)}
    IN  IF d = 0 THEN [line |-> line, out |-> in]
        ELSE [out |-> [i \in 1..Len(in) |->
                          IF before(i) = {} THEN line.history[slot(i) + 1] ELSE in[Max(before(i))]],
              line |-> [cursor |-> (line.cursor + Len(in)) % d,
                        history |-> [k \in 1..d |->
                           LET here == {i \in 1..Len(in) : slot(i) = k - 1}
                           IN  IF here = {} THEN line.history[k] ELSE in[Max(here)]]]]

SyLine(d) == [history |-> [k \in 1..d |-> 0], cursor |-> 0]

\* nextSyntheticPace(), of the lag now - due: the lag behind the next deadline.
nextSyntheticPace(lag) == IF lag - SyBlockMs > SyMaxLag THEN 0 ELSE lag - SyBlockMs

(***************************************************************************)
(* Back-pressure.                                                          *)
(***************************************************************************)
\* Mutation: only the first channel's ring is asked.
ringsHaveRoomInFirst == 0 \in syBus.used => syBus.fill[0] < SyRoom
ringsHaveRoom == \A ch \in syBus.used : syBus.fill[ch] < SyRoom

\* Mutation: a raised gate is not room.
mayPushWithRoom == ringsHaveRoom
mayPush == ringsHaveRoom \/ syBus.gate # "down"

giveUp == syFeed.waited >= SyGiveUp

SyGo(pc) == syFeed' = [syFeed EXCEPT !.pc = pc]
SyKept == <<syEng, syBus, syPath, syTape, syPushed, syDrop, syBurst, syLeft>>

\* The top of the loop.
SyCheck ==
    /\ syFeed.pc = "check"
    /\ IF syFeed.exit THEN SyGo("gone")
       ELSE IF mayPush THEN syFeed' = [syFeed EXCEPT !.pc = "render", !.stalled = FALSE]
       ELSE IF syFeed.stalled THEN SyGo("render")
       ELSE syFeed' = [syFeed EXCEPT !.pc = "waiting", !.waited = 0]
    /\ syBlock' = [syBlock EXCEPT !.used = syBus.used]
    /\ UNCHANGED SyKept

\* The wait ends when there is room, the time is up or the thread is asked to go.
SyWaited ==
    /\ syFeed.pc = "waiting" /\ (mayPush \/ giveUp \/ syFeed.exit)
    /\ syFeed' = [syFeed EXCEPT !.stalled = ~mayPush, !.pc = IF syFeed.exit THEN "gone" ELSE "render", !.waited = 0]
    /\ syBlock' = [syBlock EXCEPT !.used = syBus.used]
    /\ UNCHANGED SyKept

(***************************************************************************)
(* A block.                                                                *)
(***************************************************************************)
SySource == [i \in 1..SyFrames |-> i]             \* a block of the engine's source
SyNoise == [i \in 1..SyFrames |-> SyFrames + i]   \* a block of the feed's own pink or sine

\* OutputEngine::render(): a source that is armed, or still ramping down, is on the routed outputs.
SyRender ==
    /\ syFeed.pc = "render" /\ SyGo("mix")
    /\ LET sounds == syEng.armed \/ ~syEng.idle
       IN  /\ syBlock' = [syBlock EXCEPT !.out = [c \in {0, 1} |-> IF sounds /\ c \in syEng.routes THEN SySource ELSE SyQuiet],
                                         !.routes = IF sounds THEN syEng.routes ELSE {}]
           /\ syEng' = [syEng EXCEPT !.idle = ~syEng.armed]
    /\ UNCHANGED <<syBus, syPath, syTape, syPushed, syDrop, syBurst, syLeft>>

referenceOutput == IF syEng.routes = {} THEN 0 ELSE Min(syEng.routes)

secondPath(in) == delayLine(syPath[1], in)

\* The verdict on the loopback, read after the render, then the two paths.
SyMix ==
    /\ syFeed.pc = "mix" /\ SyGo("push")
    /\ LET loops == ~(syEng.idle /\ ~syEng.armed)
           out == IF loops THEN syBlock.out ELSE [c \in {0, 1} |-> IF c = 0 THEN SyNoise ELSE SyQuiet]
           main == delayLine(syPath[0], out[0])
           second == secondPath(out[1])
       IN  /\ syPath' = [c \in {0, 1} |-> IF c = 0 THEN main.line ELSE second.line]
           /\ syTape' = LET t == syTape \o [i \in 1..SyFrames |-> <<out[0][i], out[1][i]>>]
                        IN  SubSeq(t, Len(t) - SyWindow + 1, Len(t))
           /\ syPushed' = [ref |-> IF loops THEN out[referenceOutput] ELSE SyNoise,
                           meas |-> [i \in 1..SyFrames |-> <<main.out[i], second.out[i]>>],
                           heard |-> IF loops /\ syBlock.routes = syEng.routes /\ syEng.routes # {}
                                     THEN syBlock.out[Min(syEng.routes)] ELSE <<>>]
    /\ UNCHANGED <<syEng, syBus, syBlock, syDrop, syBurst, syLeft>>

\* pushFromCallback(): a raised gate is acknowledged and nothing is written; otherwise each used
\* channel's ring takes the whole block or none of it.  Then the pace.
SyPush ==
    /\ syFeed.pc = "push"
    /\ LET full == {ch \in syBus.used : syBus.fill[ch] >= SyRoom}
           lag == nextSyntheticPace(syFeed.lag)
       IN  /\ IF syBus.gate # "down"
              THEN syBus' = [syBus EXCEPT !.gate = "acked"] /\ UNCHANGED syDrop
              ELSE /\ syBus' = [syBus EXCEPT !.fill = [ch \in SyChannels |->
                                   IF ch \in syBus.used \ full THEN @[ch] + 1 ELSE @[ch]]]
                   /\ syDrop' = IF full = {} THEN syDrop
                                ELSE <<[stalled |-> syFeed.stalled, moved |-> syBlock.used # syBus.used]>>
           /\ syFeed' = [syFeed EXCEPT !.lag = lag, !.pc = IF lag < 0 THEN "sleeping" ELSE "check"]
           /\ syBurst' = syBurst + 1
    /\ UNCHANGED <<syEng, syBlock, syPath, syTape, syPushed, syLeft>>

SyWake == /\ syFeed.pc = "sleeping" /\ (syFeed.lag >= 0 \/ syFeed.exit) /\ SyGo("check")
          /\ UNCHANGED <<syEng, syBus, syBlock, syPath, syTape, syPushed, syDrop, syBurst, syLeft>>

(***************************************************************************)
(* The message thread, the consumer and the clock.                         *)
(***************************************************************************)
SyUse(what) == syLeft[what] > 0 /\ syLeft' = [syLeft EXCEPT ![what] = @ - 1]

SyArm(outs) == /\ SyUse("arms") /\ ~syEng.armed /\ syEng' = [syEng EXCEPT !.armed = TRUE, !.routes = outs]
               /\ UNCHANGED <<syBus, syFeed, syBlock, syPath, syTape, syPushed, syDrop, syBurst>>
SyDisarm == /\ syEng.armed /\ syEng' = [syEng EXCEPT !.armed = FALSE]
            /\ UNCHANGED <<syBus, syFeed, syBlock, syPath, syTape, syPushed, syDrop, syBurst, syLeft>>

SySetRole(ch) == /\ SyUse("roles")
                 /\ syBus' = [syBus EXCEPT !.used = IF ch \in @ THEN @ \ {ch} ELSE @ \cup {ch}]
                 /\ UNCHANGED <<syEng, syFeed, syBlock, syPath, syTape, syPushed, syDrop, syBurst>>

\* The consumer raises the gate, empties the rings once it is acknowledged, and lowers it.
SyRaise == /\ SyUse("resyncs") /\ syBus.gate = "down" /\ syBus' = [syBus EXCEPT !.gate = "raised"]
           /\ UNCHANGED <<syEng, syFeed, syBlock, syPath, syTape, syPushed, syDrop, syBurst>>
SyServe == /\ syBus.gate = "acked" /\ syBus' = [syBus EXCEPT !.gate = "down", !.fill = [ch \in SyChannels |-> 0]]
           /\ UNCHANGED <<syEng, syFeed, syBlock, syPath, syTape, syPushed, syDrop, syBurst, syLeft>>
SyDrain == /\ syBus.gate = "down" /\ syBus.used # {} /\ \A ch \in syBus.used : syBus.fill[ch] > 0
           /\ syBus' = [syBus EXCEPT !.fill = [ch \in SyChannels |-> IF ch \in syBus.used THEN @[ch] - 1 ELSE @[ch]]]
           /\ UNCHANGED <<syEng, syFeed, syBlock, syPath, syTape, syPushed, syDrop, syBurst, syLeft>>

\* A lag past SyMaxLag + SyBlockMs is re-anchored whatever it is: it is counted no further.
SyTick == /\ syFeed.pc # "gone"
          /\ syFeed' = [syFeed EXCEPT !.lag = Min({@ + 1, SyMaxLag + SyBlockMs + 1}),
                                      !.waited = IF syFeed.pc = "waiting" THEN Min({@ + 1, SyGiveUp}) ELSE @]
          /\ syBurst' = 0
          /\ UNCHANGED <<syEng, syBus, syBlock, syPath, syTape, syPushed, syDrop, syLeft>>

\* The destructor: asks the thread to go and, once it has, closes the bus.
SyAskExit == /\ ~syFeed.exit /\ syFeed' = [syFeed EXCEPT !.exit = TRUE]
             /\ UNCHANGED <<syEng, syBus, syBlock, syPath, syTape, syPushed, syDrop, syBurst, syLeft>>
SyClose == /\ syFeed.pc = "gone" /\ syBus.active /\ syBus' = [syBus EXCEPT !.active = FALSE]
           /\ UNCHANGED <<syEng, syFeed, syBlock, syPath, syTape, syPushed, syDrop, syBurst, syLeft>>

SyInit ==
    /\ syLeft \in SyBounds
    /\ syEng = [armed |-> FALSE, idle |-> TRUE, routes |-> {}]
    /\ syBus = [gate |-> "down", fill |-> [ch \in SyChannels |-> 0], used |-> syLeft.used, active |-> TRUE]
    /\ syFeed = [pc |-> "check", stalled |-> FALSE, waited |-> 0, lag |-> 0, exit |-> FALSE]
    /\ syBlock = [out |-> [c \in {0, 1} |-> SyQuiet], routes |-> {}, used |-> syLeft.used]
    /\ syPath = [c \in {0, 1} |-> SyLine(SyDelays[c + 1])]
    /\ syTape = [i \in 1..SyWindow |-> <<0, 0>>]
    /\ syPushed = [ref |-> SyQuiet, meas |-> [i \in 1..SyFrames |-> <<0, 0>>], heard |-> <<>>]
    /\ syDrop = <<>> /\ syBurst = 0

SyThread == SyCheck \/ SyWaited \/ SyRender \/ SyMix \/ SyPush \/ SyWake

SyNext == \/ SyThread \/ SyTick \/ SyAskExit \/ SyClose
          \/ (\E outs \in SUBSET {0, 1} \ {{}} : SyArm(outs)) \/ SyDisarm
          \/ (\E ch \in SyChannels : SySetRole(ch))
          \/ SyRaise \/ SyServe \/ SyDrain

\* The thread runs, its sleep between blocks ends, and the consumer serves a resync it started.
\* Nobody has to drain, and the wait for room need not run out.
SyFairness == /\ WF_syVars(SyThread) /\ WF_syVars(SyServe)
              /\ WF_syVars(syFeed.pc = "sleeping" /\ SyTick)

SySpec == SyInit /\ [][SyNext]_syVars /\ SyFairness

(***************************************************************************)
(* What the feed promises.                                                 *)
(***************************************************************************)
\* The frame of output c - 1 that left it one delay before frame i of the last block.
SyLate(i, c) == syTape[SyWindow - SyFrames + i - SyDelays[c]][c]

\* Whatever is pushed, the measurement channel is output 0 late by the first delay plus output 1
\* late by the second, across blocks, sources and silences (DelayLine keeps its cursor, both paths
\* run on every block).
SyMeasuredIsDelayed ==
    syFeed.pc = "push" =>
       \A i \in 1..SyFrames : syPushed.meas[i] = <<SyLate(i, 1), SyLate(i, 2)>>

\* The reference is what the loopback played, whichever outputs it is routed to: never the silence
\* of an output nothing plays on (runBody's referenceOutput).
SyReferenceIsPlayed ==
    syFeed.pc = "push" /\ syPushed.heard # <<>> => syPushed.ref = syPushed.heard

\* The feed drops a block only after it waited out the back-pressure time for a consumer that takes
\* nothing, or when a channel came into use after it looked (runBody's ringsHaveRoom).
SyDropsOnlyWhenStalled == syDrop # <<>> => syDrop[1].stalled \/ syDrop[1].moved

\* A thread that was away repays its lateness in a burst no longer than the allowed lag
\* (nextSyntheticPace re-anchors).
SyBurstBounded == syBurst <= (SyMaxLag + SyBlockMs) \div SyBlockMs + 1

\* A resync is acknowledged although the rings are full and nobody drains them: the feed does not
\* wait for room while the consumer waits for the feed (mayPush).
SyResyncCompletes == (syBus.gate # "down") ~> (syBus.gate = "down" \/ syFeed.exit)

\* With time running, the feed never waits for ever on a bus nobody drains (kMaxBackPressureMs).
SyFeedNeverStuck == WF_syVars(SyTick) => []<>(syFeed.pc # "waiting")

\* The synthetic feed: the measured channel is the played one delayed, drops mean a stalled reader,
\* and a late thread writes a bounded burst.
SyInv == SyMeasuredIsDelayed /\ SyReferenceIsPlayed /\ SyDropsOnlyWhenStalled /\ SyBurstBounded

\* A resync of the bus completes under the synthetic feed, and the feed never stops for good.
SyLive == SyResyncCompletes /\ SyFeedNeverStuck
===============================================================================
