----------------------------- MODULE RawCapture -------------------------------
(***************************************************************************)
(* The raw capture that LOCATE, SWEEP and CAL share: armLocateCapture puts   *)
(* up a request, the analysis thread takes it at its next drain, copies      *)
(* whole hops of the routed pair into the accumulator and publishes it when  *)
(* full.  The client polls for it, and refuses one that a resync or a        *)
(* refused ring write has cut: everything after the cut would be early, and  *)
(* a delay or an impulse response is read off that timeline.                 *)
(*                                                                         *)
(* One client at a time (OneHolder of OutputClients).  Three threads, one    *)
(* step per atomic access another thread can see.  The pair of rings is one  *)
(* sequence here: CaptureBus shows that a pair stays aligned, and how a gate *)
(* is acknowledged.                                                          *)
(*                                                                         *)
(* DATA.  A hop is the number of the callback that delivered it; a capture   *)
(* without a cut is a run of consecutive numbers.                            *)
(***************************************************************************)
EXTENDS Integers, Sequences

CONSTANTS
  Capacity,    \* ring capacity, in hops
  Length,      \* length of a capture, in hops
  MaxBlocks,   \* bound: callbacks
  MaxRaises,   \* bound: resyncs
  MaxArms      \* bound: presses that arm a capture

ASSUME RawCaptureAssumption ==
  /\ Capacity \in Nat \ {0} /\ Length \in Nat \ {0}
  /\ MaxBlocks \in Nat /\ MaxRaises \in Nat /\ MaxArms \in Nat

VARIABLES
  ring, block, drops,          \* hops waiting, number of the next callback, refused writes
  seq, pending, raising,       \* resyncSeq_, the gate, raiseGate() is half way
  request,                     \* locateArmRequested_: the arm asked for, or 0
  capturing, buf,              \* the accumulator: the arm it serves (0: none), its hops
  published,                   \* locateCapture_
  anPc, anLeft,                \* analysis thread: step, hops left of this drain
  pc, kind, arm,               \* message thread: step, client, the number of its arm
  baseSeq, baseDrops,          \* what the client noted when it armed
  got, handled,                \* the capture a poll read, the last one each client took
  holeAhead, resyncUnder,      \* history: see ConsumedIsWhole
  inFlight,                    \* history: see ConsumedIsOwn
  taken                        \* the capture a client has just accepted

busVars == <<ring, block, drops, seq, pending, raising>>
accVars == <<capturing, buf>>
anVars  == <<anPc, anLeft>>
baseVars == <<baseSeq, baseDrops>>
histVars == <<holeAhead, resyncUnder, inFlight, taken>>
mtVars  == <<pc, kind, arm, baseVars, got, handled>>
vars == <<busVars, request, accVars, published, anVars, mtVars, histVars>>

Kinds == {"LOCATE", "SWEEP", "CAL"}
NoCapture == [arm |-> 0, hops |-> <<>>]
Contiguous(s) == \A i \in 1 .. Len(s) - 1 : s[i + 1] = s[i] + 1

Init ==
  /\ ring = <<>> /\ block = 1 /\ drops = 0
  /\ seq = 0 /\ pending = FALSE /\ raising = FALSE
  /\ request = 0 /\ capturing = 0 /\ buf = <<>> /\ published = NoCapture
  /\ anPc = "tick" /\ anLeft = 0
  /\ pc = "idle" /\ kind = "LOCATE" /\ arm = 0
  /\ baseSeq = 0 /\ baseDrops = 0
  /\ got = NoCapture /\ handled = [k \in Kinds |-> 0]
  /\ holeAhead = FALSE /\ resyncUnder = FALSE /\ inFlight = FALSE /\ taken = NoCapture

-------------------------------------------------------------------------------
(* The callback, and whoever raises the resync gate.                       *)

\* pushFromCallback: refused by the gate, refused by a full ring, or written.
Callback ==
  /\ block <= MaxBlocks
  /\ block' = block + 1
  /\ \/ pending /\ UNCHANGED <<ring, drops>>
     \/ ~pending /\ Len(ring) = Capacity /\ drops' = drops + 1 /\ UNCHANGED ring
     \/ ~pending /\ Len(ring) < Capacity /\ ring' = Append(ring, block) /\ UNCHANGED drops
  /\ UNCHANGED <<seq, pending, raising, request, accVars, published, anVars, mtVars, histVars>>

\* raiseGate: the sequence moves, then the gate goes up.
RaiseSeq ==
  /\ ~raising /\ seq < 2 * MaxRaises
  /\ seq' = seq + 1 /\ raising' = TRUE
  /\ UNCHANGED <<ring, block, drops, pending, request, accVars, published, anVars, mtVars,
                 histVars>>

RaisePending ==
  /\ raising
  /\ pending' = TRUE /\ raising' = FALSE
  /\ UNCHANGED <<ring, block, drops, seq, request, accVars, published, anVars, mtVars,
                 histVars>>

-------------------------------------------------------------------------------
(* The analysis thread: one tick of runBody.                               *)

\* serviceResyncAsConsumer, acknowledged: the ring is emptied ...
ResyncDrain ==
  /\ anPc = "tick" /\ pending
  /\ ring' = <<>> /\ anPc' = "bump"
  /\ UNCHANGED <<block, drops, seq, pending, raising, request, accVars, published, anLeft,
                 mtVars, histVars>>

\* Mutation of ResyncBump: the sequence moves only when the gate goes up.
ResyncBumpNothing ==
  /\ anPc = "bump" /\ anPc' = "lower"
  /\ UNCHANGED <<busVars, request, accVars, published, anLeft, mtVars, histVars>>
\* ... the sequence moves a second time ...
ResyncBump ==
  /\ anPc = "bump" /\ anPc' = "lower"
  /\ seq' = seq + 1
  /\ UNCHANGED <<ring, block, drops, pending, raising, request, accVars, published, anLeft,
                 mtVars, histVars>>

\* ... and the gate comes down.
ResyncLower ==
  /\ anPc = "lower" /\ anPc' = "drain"
  /\ pending' = FALSE
  /\ UNCHANGED <<ring, block, drops, seq, raising, request, accVars, published, anLeft,
                 mtVars, histVars>>

\* No resync to serve; a gate that goes up after this look ends the tick.
TickGate ==
  \/ /\ anPc = "tick" /\ ~pending /\ anPc' = "drain"
     /\ UNCHANGED <<busVars, request, accVars, published, anLeft, mtVars, histVars>>
  \/ /\ anPc = "drain" /\ pending /\ anPc' = "tick"
     /\ UNCHANGED <<busVars, request, accVars, published, anLeft, mtVars, histVars>>

\* drain(): the request is taken and the accumulator starts over.
TakeRequest ==
  /\ anPc = "drain" /\ ~pending /\ anPc' = "sample"
  /\ request' = 0
  /\ capturing' = IF request = 0 THEN capturing ELSE request
  /\ buf' = IF request = 0 THEN buf ELSE <<>>
  /\ UNCHANGED <<busVars, published, anLeft, mtVars, histVars>>

\* The hops of this tick are counted once.
SampleHops ==
  /\ anPc = "sample" /\ anPc' = "hop"
  /\ anLeft' = Len(ring)
  /\ UNCHANGED <<busVars, request, accVars, published, mtVars, histVars>>

\* RawCaptureBuffer: feedHop up to the length of the capture, and isFull.
Fed(b, h) == IF Len(b) < Length THEN Append(b, h) ELSE b
\* Mutation of isFull: one hop too late.
isFullPast(b) == Len(b) > Length
isFull(b) == Len(b) >= Length

\* One hop: discarded from the ring, fed to the accumulator, published when full.
FeedHop ==
  /\ anPc = "hop" /\ anLeft > 0
  /\ anLeft' = anLeft - 1
  /\ ring' = Tail(ring)
  /\ IF capturing = 0
       THEN UNCHANGED <<accVars, published>>
       ELSE LET b == Fed(buf, Head(ring))
            IN IF isFull(b)
                 THEN /\ published' = [arm |-> capturing, hops |-> b]
                      /\ capturing' = 0 /\ buf' = <<>>
                 ELSE buf' = b /\ UNCHANGED <<capturing, published>>
  /\ UNCHANGED <<block, drops, seq, pending, raising, request, anPc, mtVars, histVars>>

TickEnd ==
  /\ anPc = "hop" /\ anLeft = 0 /\ anPc' = "tick"
  /\ UNCHANGED <<busVars, request, accVars, published, anLeft, mtVars, histVars>>

-------------------------------------------------------------------------------
(* The client, on the message thread.                                      *)

Step(to) == pc' = to /\ UNCHANGED <<busVars, accVars, anVars, kind, handled>>

\* A press, or LOCATE's settling over: not while a resync is pending, which CAL
\* does not ask.
Press ==
  /\ pc = "idle" /\ arm < MaxArms
  /\ kind' \in Kinds
  /\ kind' = "CAL" \/ ~pending
  /\ arm' = arm + 1 /\ pc' = "clear" /\ taken' = NoCapture
  /\ UNCHANGED <<busVars, request, accVars, published, anVars, baseVars, got, handled,
                 holeAhead, resyncUnder, inFlight>>

\* armLocateCapture: the old result goes, then the request becomes visible.
\* Mutation: the old result stays.
ArmClearNothing ==
  /\ pc = "clear" /\ Step("request")
  /\ inFlight' = (capturing # 0 \/ request # 0)
  /\ UNCHANGED <<request, published, arm, baseVars, got, holeAhead, resyncUnder, taken>>
ArmClear ==
  /\ pc = "clear" /\ Step("request")
  /\ published' = NoCapture
  /\ inFlight' = (capturing # 0 \/ request # 0)
  /\ UNCHANGED <<request, arm, baseVars, got, holeAhead, resyncUnder, taken>>

ArmRequest ==
  /\ pc = "request" /\ Step(IF kind = "CAL" THEN "waiting" ELSE "baseSeq")
  /\ request' = arm
  /\ UNCHANGED <<published, arm, baseVars, got, histVars>>

\* Resync sequence, then refused frames, as they stand after the arm.
NoteSeq ==
  /\ pc = "baseSeq" /\ Step("baseDrops")
  /\ baseSeq' = seq
  /\ UNCHANGED <<request, published, arm, baseDrops, got, histVars>>

NoteDrops ==
  /\ pc = "baseDrops" /\ Step("waiting")
  /\ baseDrops' = drops
  /\ LET begun == IF request = arm THEN <<>> ELSE buf
     IN holeAhead' = IF published.arm = arm
                       THEN ~Contiguous(published.hops)
                       ELSE \/ ~Contiguous(begun \o ring \o <<block>>)
                            \/ anPc = "lower" /\ begun # <<>>
  /\ UNCHANGED <<request, published, arm, baseSeq, got, resyncUnder, inFlight, taken>>

\* Timed out, or cancelled from outside: the accumulator goes on by itself.
Abandon ==
  /\ pc = "waiting" /\ Step("idle")
  /\ UNCHANGED <<request, published, arm, baseVars, got, histVars>>

\* A poll: the resync sequence, the capture, the refused frames.  CAL looks at the
\* capture only.
PollSeq ==
  /\ pc = "waiting" /\ kind # "CAL"
  /\ Step(IF seq # baseSeq THEN "idle" ELSE "capture")
  /\ UNCHANGED <<request, published, arm, baseVars, got, histVars>>

PollCapture ==
  /\ pc = "capture" \/ (pc = "waiting" /\ kind = "CAL")
  /\ got' = published /\ Step("drops")
  /\ resyncUnder' = (seq # baseSeq)
  /\ UNCHANGED <<request, published, arm, baseVars, holeAhead, inFlight, taken>>

\* Cut: abort.  Nothing new, or a SWEEP still in its pre-roll: wait.  Otherwise the
\* capture is taken; a SWEEP forgets which one it was.
PollDrops ==
  /\ pc = "drops"
  /\ LET cut == kind # "CAL" /\ drops # baseDrops
         new == got.arm # 0 /\ got.arm # handled[kind]
     IN \/ cut /\ pc' = "idle" /\ UNCHANGED <<handled, taken>>
        \/ ~cut /\ (~new \/ kind = "SWEEP") /\ pc' = "waiting" /\ UNCHANGED <<handled, taken>>
        \/ /\ ~cut /\ new /\ pc' = "idle"
           /\ taken' = got
           /\ handled' = [handled EXCEPT ![kind] = IF kind = "SWEEP" THEN 0 ELSE got.arm]
  /\ got' = NoCapture
  /\ UNCHANGED <<busVars, request, accVars, published, anVars, kind, arm, baseVars,
                 holeAhead, resyncUnder, inFlight>>

-------------------------------------------------------------------------------
Bus == Callback \/ RaiseSeq \/ RaisePending
Analysis == \/ ResyncDrain \/ ResyncBump \/ ResyncLower \/ TickGate
            \/ TakeRequest \/ SampleHops \/ FeedHop \/ TickEnd
Client == \/ Press \/ ArmClear \/ ArmRequest \/ NoteSeq \/ NoteDrops
          \/ Abandon \/ PollSeq \/ PollCapture \/ PollDrops

Next == Bus \/ Analysis \/ Client
Spec == Init /\ [][Next]_vars

-------------------------------------------------------------------------------
\* Every variable keeps its type; the ring and the accumulator stay in their bounds.
TypeOK ==
  /\ ring \in Seq(1..MaxBlocks) /\ Len(ring) <= Capacity
  /\ block \in 1 .. MaxBlocks + 1 /\ drops \in 0..MaxBlocks
  /\ seq \in 0 .. 4 * MaxRaises /\ pending \in BOOLEAN /\ raising \in BOOLEAN
  /\ request \in 0..MaxArms /\ capturing \in 0..MaxArms
  /\ buf \in Seq(1..MaxBlocks) /\ Len(buf) < Length
  /\ published.arm \in 0..MaxArms /\ Len(published.hops) \in {0, Length}
  /\ anPc \in {"tick", "bump", "lower", "drain", "sample", "hop"}
  /\ anLeft \in 0..Len(ring)
  /\ pc \in {"idle", "clear", "request", "baseSeq", "baseDrops", "waiting", "capture", "drops"}
  /\ kind \in Kinds /\ arm \in 0..MaxArms
  /\ baseSeq \in 0..seq /\ baseDrops \in 0..drops
  /\ handled \in [Kinds -> 0..MaxArms]

\* A capture of its own that LOCATE or SWEEP accepts is one uninterrupted run of callbacks, unless
\* the cut was already on its way when the client took its baselines (holeAhead) or a
\* resync began between a poll's look at the sequence and at the capture (resyncUnder).
ConsumedIsWhole ==
  taken.arm = arm /\ kind # "CAL" /\ ~holeAhead /\ ~resyncUnder => Contiguous(taken.hops)

\* A client accepts the capture it armed, unless an earlier, abandoned capture was still
\* being filled when it armed (inFlight).
ConsumedIsOwn == taken.arm # 0 /\ ~inFlight => taken.arm = arm
===============================================================================
