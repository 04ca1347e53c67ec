--------------------------- MODULE RawCaptureProofs ---------------------------
(***************************************************************************)
(* What a client of the raw capture accepts is its own, and is uncut, for   *)
(* every ring, every capture length and any number of callbacks, resyncs    *)
(* and arms.                                                                *)
(*                                                                         *)
(* The argument: between the arm and the publication the accumulator and    *)
(* the ring, put end to end, are one line of callbacks, and the next one    *)
(* carries it on while the gate is down.  Whatever breaks the line moves    *)
(* one of the two counters the client noted.                                *)
(***************************************************************************)
EXTENDS RawCapture, SequenceTheorems, TLAPS

Hops == 1..MaxBlocks
Captures == [arm : 0..MaxArms, hops : Seq(Hops)]

-------------------------------------------------------------------------------
(* The invariant.                                                          *)

CapturesOK == published \in Captures /\ got \in Captures /\ taken \in Captures

\* Resyncs that have moved the sequence once and not yet a second time.
Unbumped == (IF raising THEN 1 ELSE 0) + (IF pending /\ anPc # "lower" THEN 1 ELSE 0)

\* What bounds the counters, and what the analysis thread's step says of the ring.
Bounds ==
  /\ drops < block
  /\ seq + Unbumped <= 4 * MaxRaises
  /\ anPc \in {"bump", "lower"} => pending /\ ring = <<>>
  /\ anPc # "hop" => anLeft = 0

\* No arm is served before it is asked for.
ArmsArePast ==
  /\ request <= arm /\ capturing <= arm /\ published.arm <= arm
  /\ pc \in {"clear", "request"} => request < arm /\ capturing < arm /\ published.arm < arm

\* The client's arm is asked for, being filled, or published: one of the three.
Asked == request = arm /\ capturing # arm /\ published.arm # arm
Filling == request = 0 /\ capturing = arm /\ published.arm # arm
Published == request = 0 /\ capturing = 0 /\ published.arm = arm
Armed == pc \in {"baseSeq", "baseDrops", "waiting", "capture", "drops"}
ArmIsSomewhere == Armed => arm > 0 /\ (Asked \/ Filling \/ Published)

\* With no abandoned capture in flight there is none but the client's own.
NoneButOwn ==
  pc \notin {"idle", "clear"} /\ ~inFlight =>
    /\ request \in {0, arm} /\ capturing \in {0, arm}
    /\ published.arm \in {0, arm} /\ got.arm \in {0, arm}

\* A client that polls has taken nothing, and holds a capture only while it decides.
Undecided ==
  /\ pc # "idle" => taken = NoCapture
  /\ pc # "drops" => got = NoCapture

\* The hops of the client's arm that are already in the accumulator.
Begun == IF request = arm THEN <<>> ELSE buf
Line == Begun \o ring

\* Neither counter has moved since the client noted them.
Uncut == /\ kind # "CAL" /\ pc \in {"waiting", "capture", "drops"}
         /\ ~holeAhead /\ seq = baseSeq /\ drops = baseDrops

\* Until a counter moves the client's capture is one line of callbacks.
UncutIsWhole ==
  Uncut => /\ published.arm = arm => Contiguous(published.hops)
           /\ published.arm # arm =>
                /\ Contiguous(Line)
                /\ ~pending => Contiguous(Append(Line, block))
                /\ anPc = "lower" => Begun = <<>>

\* So is the one a poll holds, if no resync began under it.
GotIsWhole ==
  /\ kind # "CAL" /\ pc = "drops" /\ ~holeAhead /\ ~resyncUnder /\ drops = baseDrops
  /\ got.arm = arm
  => Contiguous(got.hops)

RawIInv == /\ TypeOK /\ CapturesOK /\ Bounds
           /\ ArmsArePast /\ ArmIsSomewhere /\ NoneButOwn /\ Undecided
           /\ UncutIsWhole /\ GotIsWhole
           /\ ConsumedIsWhole /\ ConsumedIsOwn

-------------------------------------------------------------------------------
(* Lines of callbacks.                                                     *)

\* A line of at most one callback has no cut.
LEMMA ShortIsWhole ==
  ASSUME NEW x \in Nat
  PROVE  Contiguous(<<>>) /\ Contiguous(Append(<<>>, x))
<1>1. Append(<<>>, x) \in Seq(Nat) /\ Len(Append(<<>>, x)) = 1
  BY EmptySeq, AppendProperties
<1>2. Contiguous(Append(<<>>, x))
  BY <1>1 DEF Contiguous
<1>3. Contiguous(<<>>)
  BY DEF Contiguous
<1> QED BY <1>2, <1>3

\* The next callback carries a line on.
LEMMA NextCarriesOn ==
  ASSUME NEW s \in Seq(Nat), NEW x \in Nat, Contiguous(Append(s, x))
  PROVE  Contiguous(s) /\ Contiguous(Append(Append(s, x), x + 1))
<1> DEFINE t == Append(s, x)
           u == Append(t, x + 1)
<1>1. /\ t \in Seq(Nat) /\ Len(t) = Len(s) + 1 /\ t[Len(s) + 1] = x
      /\ \A i \in 1..Len(s) : t[i] = s[i]
  BY AppendProperties
<1> HIDE DEF t
<1>2. /\ u \in Seq(Nat) /\ Len(u) = Len(t) + 1 /\ u[Len(t) + 1] = x + 1
      /\ \A i \in 1..Len(t) : u[i] = t[i]
  <2>1. x + 1 \in Nat
    OBVIOUS
  <2> QED BY <1>1, <2>1, AppendProperties
<1> HIDE DEF u
<1>3. Len(s) \in Nat /\ \A i \in 1 .. Len(t) - 1 : t[i + 1] = t[i] + 1
  BY DEF Contiguous, t
<1>4. Contiguous(s)
  <2>1. ASSUME NEW i \in 1 .. Len(s) - 1 PROVE s[i + 1] = s[i] + 1
    <3>1. i \in 1..Len(s) /\ i + 1 \in 1..Len(s) /\ i \in 1 .. Len(t) - 1
      BY <1>1, <1>3
    <3> QED BY <1>1, <1>3, <3>1
  <2> QED BY <2>1 DEF Contiguous
<1>5. Contiguous(u)
  <2>1. ASSUME NEW i \in 1 .. Len(u) - 1 PROVE u[i + 1] = u[i] + 1
    <3>1. CASE i = Len(t)
      BY <1>1, <1>2, <1>3, <3>1, SMTT(30)
    <3>2. CASE i # Len(t)
      <4>1. i \in 1..Len(t) /\ i + 1 \in 1..Len(t) /\ i \in 1 .. Len(t) - 1
        BY <1>1, <1>2, <1>3, <3>2
      <4> QED BY <1>2, <1>3, <4>1
    <3> QED BY <3>1, <3>2
  <2> QED BY <2>1 DEF Contiguous
<1> QED BY <1>4, <1>5 DEF u, t

\* Both parts of a line are lines.
LEMMA PartsAreWhole ==
  ASSUME NEW s \in Seq(Nat), NEW t \in Seq(Nat), Contiguous(s \o t)
  PROVE  Contiguous(s) /\ Contiguous(t)
<1> DEFINE u == s \o t
<1>1. /\ u \in Seq(Nat) /\ Len(u) = Len(s) + Len(t)
      /\ \A i \in 1 .. Len(s) + Len(t) : u[i] = IF i <= Len(s) THEN s[i] ELSE t[i - Len(s)]
  BY ConcatProperties
<1>2. \A i \in 1 .. Len(u) - 1 : u[i + 1] = u[i] + 1
  BY DEF Contiguous
<1> HIDE DEF u
<1>3. Len(s) \in Nat /\ Len(t) \in Nat
  OBVIOUS
<1>4. Contiguous(s)
  <2>1. ASSUME NEW i \in 1 .. Len(s) - 1 PROVE s[i + 1] = s[i] + 1
    <3>1. i <= Len(s) /\ i + 1 <= Len(s) /\ i \in 1 .. Len(u) - 1
          /\ i \in 1 .. Len(s) + Len(t) /\ i + 1 \in 1 .. Len(s) + Len(t)
      BY <1>1, <1>3
    <3>2. u[i] = s[i] /\ u[i + 1] = s[i + 1]
      BY <1>1, <3>1
    <3> QED BY <1>2, <3>1, <3>2
  <2> QED BY <2>1 DEF Contiguous
<1>5. Contiguous(t)
  <2>1. ASSUME NEW i \in 1 .. Len(t) - 1 PROVE t[i + 1] = t[i] + 1
    <3> DEFINE j == Len(s) + i
    <3>1. /\ ~(j <= Len(s)) /\ ~(j + 1 <= Len(s)) /\ j \in 1 .. Len(u) - 1
          /\ j \in 1 .. Len(s) + Len(t) /\ j + 1 \in 1 .. Len(s) + Len(t)
          /\ j - Len(s) = i /\ (j + 1) - Len(s) = i + 1
      BY <1>1, <1>3
    <3> HIDE DEF j
    <3>2. u[j] = t[i] /\ u[j + 1] = t[i + 1]
      BY <1>1, <3>1
    <3> QED BY <1>2, <3>1, <3>2
  <2> QED BY <2>1 DEF Contiguous
<1> QED BY <1>4, <1>5

\* A callback joins the line at the end of the ring.
LEMMA JoinsAtEnd ==
  ASSUME NEW b \in Seq(Nat), NEW r \in Seq(Nat), NEW x \in Nat
  PROVE  b \o Append(r, x) = Append(b \o r, x) /\ (b \o r) \o <<x>> = Append(b \o r, x)
<1>1. b \o r \in Seq(Nat) /\ <<x>> \in Seq(Nat)
  BY ConcatProperties
<1>2. Append(r, x) = r \o <<x>> /\ Append(b \o r, x) = (b \o r) \o <<x>>
  BY <1>1, AppendIsConcat
<1>3. (b \o r) \o <<x>> = b \o (r \o <<x>>)
  BY <1>1, ConcatAssociative
<1> QED BY <1>2, <1>3

\* A hop that moves from the ring to the accumulator stays in its place.
LEMMA MovesInPlace ==
  ASSUME NEW b \in Seq(Nat), NEW r \in Seq(Nat), r # <<>>
  PROVE  Append(b, Head(r)) \o Tail(r) = b \o r
<1> DEFINE h == Head(r)
           t == Tail(r)
<1>1. h \in Nat /\ t \in Seq(Nat) /\ Len(t) = Len(r) - 1 /\ \A i \in 1..Len(t) : t[i] = r[i + 1]
  BY HeadTailProperties
<1>2. <<h>> \in Seq(Nat) /\ Len(<<h>>) = 1 /\ <<h>>[1] = h /\ h = r[1] /\ Len(r) \in Nat \ {0}
  BY <1>1, EmptySeq
<1> HIDE DEF h, t
<1>3. r = <<h>> \o t
  <2>1. /\ <<h>> \o t \in Seq(Nat) /\ Len(<<h>> \o t) = 1 + Len(t)
        /\ \A i \in 1 .. 1 + Len(t) : (<<h>> \o t)[i] = IF i <= 1 THEN <<h>>[i] ELSE t[i - 1]
    BY <1>1, <1>2, ConcatProperties
  <2>2. ASSUME NEW i \in 1..Len(r) PROVE r[i] = (<<h>> \o t)[i]
    <3>1. CASE i = 1
      BY <1>1, <1>2, <2>1, <3>1
    <3>2. CASE i # 1
      <4>1. ~(i <= 1) /\ i \in 1 .. 1 + Len(t) /\ i - 1 \in 1..Len(t) /\ (i - 1) + 1 = i
        BY <1>1, <1>2, <3>2
      <4> QED BY <1>1, <2>1, <4>1
    <3> QED BY <3>1, <3>2
  <2> HIDE DEF h, t
  <2>3. Len(r) = Len(<<h>> \o t)
    BY <1>1, <1>2, <2>1
  <2> QED BY <2>1, <2>2, <2>3, SeqEqual
<1>4. Append(b, h) = b \o <<h>>
  BY <1>1, AppendIsConcat
<1>5. (b \o <<h>>) \o t = b \o (<<h>> \o t)
  BY <1>1, <1>2, ConcatAssociative, SMTT(30)
<1> QED BY <1>3, <1>4, <1>5 DEF h, t

\* What is left of a line without its first callback is a line.
LEMMA RestIsWhole ==
  ASSUME NEW r \in Seq(Nat), r # <<>>, NEW x \in Nat
  PROVE  /\ Contiguous(r) => Contiguous(Tail(r))
         /\ Contiguous(Append(r, x)) => Contiguous(Append(Tail(r), x))
<1> DEFINE h == Append(<<>>, Head(r))
           t == Tail(r)
<1>1. Head(r) \in Nat /\ t \in Seq(Nat)
  BY HeadTailProperties
<1>2. h \in Seq(Nat)
  BY <1>1, EmptySeq, AppendProperties
<1>3. h \o t = r
  <2>1. h \o t = <<>> \o r
    BY EmptySeq, MovesInPlace
  <2> QED BY <2>1, ConcatEmptySeq
<1> HIDE DEF h, t
<1>4. h \o Append(t, x) = Append(r, x)
  BY <1>1, <1>2, <1>3, JoinsAtEnd
<1>5. Append(t, x) \in Seq(Nat)
  BY <1>1, AppendProperties
<1>6. Contiguous(r) => Contiguous(t)
  BY <1>1, <1>2, <1>3, PartsAreWhole
<1>7. Contiguous(Append(r, x)) => Contiguous(Append(t, x))
  BY <1>2, <1>4, <1>5, PartsAreWhole
<1> QED BY <1>6, <1>7 DEF t

-------------------------------------------------------------------------------
(* Types and bounds.                                                       *)

TypesInv == TypeOK /\ CapturesOK /\ Bounds

\* No capture.
LEMMA NoCaptureIs == NoCapture \in Captures /\ NoCapture.arm = 0 /\ Len(NoCapture.hops) = 0
<1>1. 0 \in 0..MaxArms /\ <<>> \in Seq(Hops)
  BY RawCaptureAssumption
<1> QED BY <1>1 DEF NoCapture, Captures

\* A hop waits in the ring while a drain has some left to feed.
LEMMA HopWaits ==
  ASSUME TypesInv, anLeft > 0
  PROVE  /\ ring # <<>> /\ Head(ring) \in Hops
         /\ Tail(ring) \in Seq(Hops) /\ Len(Tail(ring)) = Len(ring) - 1
<1>1. ring \in Seq(Hops) /\ anLeft \in 0..Len(ring) /\ Len(ring) \in Nat
  BY DEF TypesInv, TypeOK, Hops
<1>2. ring # <<>>
  BY <1>1
<1> QED BY <1>1, <1>2, HeadTailProperties

\* What one hop of the drain does to the accumulator: nothing, a hop more, or the
\* last one, which publishes it.
LEMMA FeedKinds ==
  ASSUME TypesInv, FeedHop
  PROVE  /\ anPc = "hop" /\ anPc' = "hop" /\ anLeft > 0 /\ anLeft' = anLeft - 1
         /\ ring' = Tail(ring)
         /\ UNCHANGED <<block, drops, seq, pending, raising, request, mtVars, histVars>>
         /\ \/ capturing = 0 /\ UNCHANGED <<capturing, buf, published>>
            \/ /\ capturing # 0 /\ UNCHANGED <<capturing, published>>
               /\ buf' = Append(buf, Head(ring)) /\ Len(buf') < Length
            \/ /\ capturing # 0 /\ capturing' = 0 /\ buf' = <<>>
               /\ published' = [arm |-> capturing, hops |-> Append(buf, Head(ring))]
               /\ Len(Append(buf, Head(ring))) = Length
<1>1. Len(buf) < Length /\ Len(buf) \in Nat /\ buf \in Seq(Hops)
  BY DEF TypesInv, TypeOK, Hops
<1>2. Head(ring) \in Hops
  BY HopWaits DEF FeedHop
<1> DEFINE b == Append(buf, Head(ring))
<1>3. Fed(buf, Head(ring)) = b
  BY <1>1 DEF Fed
<1>4. Len(b) = Len(buf) + 1
  BY <1>1, <1>2, AppendProperties
<1>5. isFull(b) <=> Len(b) = Length
  BY <1>1, <1>4, RawCaptureAssumption DEF isFull
<1> HIDE DEF b
<1>6. /\ anPc = "hop" /\ anPc' = "hop" /\ anLeft > 0 /\ anLeft' = anLeft - 1
      /\ ring' = Tail(ring)
      /\ UNCHANGED <<block, drops, seq, pending, raising, request, mtVars, histVars>>
  BY DEF FeedHop
<1>7. CASE capturing = 0
  BY <1>6, <1>7 DEF FeedHop, accVars
<1>8. CASE capturing # 0 /\ isFull(b)
  BY <1>3, <1>5, <1>6, <1>8 DEF FeedHop, b
<1>9. CASE capturing # 0 /\ ~isFull(b)
  <2>1. buf' = b /\ UNCHANGED <<capturing, published>>
    BY <1>3, <1>9 DEF FeedHop
  <2>2. Len(b) < Length
    BY <1>1, <1>4, <1>5, <1>9, RawCaptureAssumption
  <2> QED BY <1>6, <1>9, <2>1, <2>2 DEF b
<1> QED BY <1>7, <1>8, <1>9

\* The first state.
LEMMA TypesBegin == Init => TypesInv
<1> SUFFICES ASSUME Init PROVE TypesInv
  OBVIOUS
<1> USE RawCaptureAssumption, NoCaptureIs DEF Init
<1>1. TypeOK
  <2>1. 0 \in 0 .. 4 * MaxRaises /\ 1 \in 1 .. MaxBlocks + 1 /\ 0 \in 0..MaxArms
    OBVIOUS
  <2>2. ring \in Seq(1..MaxBlocks) /\ buf \in Seq(1..MaxBlocks) /\ Len(ring) = 0 /\ Len(buf) = 0
    OBVIOUS
  <2>3. kind \in Kinds /\ handled \in [Kinds -> 0..MaxArms]
    BY <2>1 DEF Kinds
  <2>4. 0 <= Capacity /\ 0 < Length /\ 0 \in 0..MaxBlocks /\ 0 \in 0..0
    OBVIOUS
  <2> QED BY <2>1, <2>2, <2>3, <2>4 DEF TypeOK
<1>2. CapturesOK
  BY DEF CapturesOK
<1>3. Unbumped = 0
  BY DEF Unbumped
<1>4. Bounds
  BY <1>3 DEF Bounds
<1> QED BY <1>1, <1>2, <1>4 DEF TypesInv

\* A step that leaves the gate alone, and the analysis thread's place in it, owes as
\* many bumps after it as before.
LEMMA SameGate ==
  ASSUME UNCHANGED <<raising, pending>>, (anPc' = "lower") <=> (anPc = "lower")
  PROVE  Unbumped' = Unbumped
  BY DEF Unbumped

\* At most two resyncs have moved the sequence once only.
LEMMA AtMostTwo == Unbumped \in {0, 1, 2} /\ (~raising => Unbumped \in {0, 1})
  BY DEF Unbumped

\* A step of the callback or of whoever raises the gate.
LEMMA BusTypes ==
  ASSUME TypesInv, Bus
  PROVE  TypesInv'
<1> USE RawCaptureAssumption
    DEF TypesInv, CapturesOK, accVars, anVars, mtVars, baseVars, histVars
<1>1. CASE Callback
  <2>1. block \in Nat /\ block <= MaxBlocks /\ block' = block + 1 /\ drops < block /\ drops \in Nat
        /\ UNCHANGED <<seq, pending, raising, anPc, anLeft>>
    BY <1>1 DEF Callback, TypeOK, Bounds
  <2>2. CASE UNCHANGED <<ring, drops>>
    BY <1>1, <2>1, <2>2 DEF Callback, TypeOK, Bounds, Unbumped
  <2>3. CASE drops' = drops + 1 /\ UNCHANGED ring
    BY <1>1, <2>1, <2>3 DEF Callback, TypeOK, Bounds, Unbumped
  <2>4. CASE ~pending /\ Len(ring) < Capacity /\ ring' = Append(ring, block) /\ UNCHANGED drops
    <3>1. ring \in Seq(1..MaxBlocks) /\ block \in 1..MaxBlocks /\ Len(ring) \in Nat
      BY <1>1, <2>1 DEF TypeOK
    <3>2. ring' \in Seq(1..MaxBlocks) /\ Len(ring') = Len(ring) + 1
      BY <2>4, <3>1, AppendProperties
    <3> QED BY <1>1, <2>1, <2>4, <3>1, <3>2 DEF Callback, TypeOK, Bounds, Unbumped
  <2> QED BY <1>1, <2>2, <2>3, <2>4 DEF Callback
<1>2. CASE RaiseSeq
  <2>1. seq \in Nat /\ seq < 2 * MaxRaises /\ seq' = seq + 1 /\ ~raising
    BY <1>2 DEF RaiseSeq, TypeOK
  <2>2. Unbumped' \in {1, 2}
    BY <1>2 DEF RaiseSeq, Unbumped
  <2>3. seq' + Unbumped' <= 4 * MaxRaises /\ seq' \in 0 .. 4 * MaxRaises
    <3> DEFINE u == Unbumped'
               v == seq'
    <3>1. u \in {1, 2} /\ v = seq + 1
      BY <2>1, <2>2
    <3> HIDE DEF u, v
    <3>2. v + u <= 4 * MaxRaises /\ v \in 0 .. 4 * MaxRaises
      BY <2>1, <3>1, SMT
    <3> QED BY <3>2 DEF u, v
  <2>4. TypeOK' /\ CapturesOK'
    BY <1>2, <2>1, <2>3 DEF RaiseSeq, TypeOK
  <2> QED BY <1>2, <2>3, <2>4 DEF RaiseSeq, Bounds
<1>3. CASE RaisePending
  <2>1. Unbumped' \in {0, 1} /\ Unbumped \in {Unbumped', Unbumped' + 1}
    BY <1>3 DEF RaisePending, TypeOK, Unbumped
  <2>2. seq' = seq /\ seq \in Nat
    BY <1>3 DEF RaisePending, TypeOK
  <2>3. seq' + Unbumped' <= 4 * MaxRaises
    <3> DEFINE u == Unbumped'
               v == Unbumped
               m == 4 * MaxRaises
    <3>1. m \in Nat
      OBVIOUS
    <3>2. seq + v <= m
      BY DEF Bounds
    <3> HIDE DEF u, v, m
    <3>3. seq + u <= m
      <4>1. u \in {0, 1} /\ v \in {u, u + 1}
        BY <2>1 DEF u, v
      <4> QED BY <2>2, <3>1, <3>2, <4>1
    <3> QED BY <2>2, <3>3 DEF u, m
  <2>4. TypeOK' /\ CapturesOK'
    BY <1>3 DEF RaisePending, TypeOK
  <2> QED BY <1>3, <2>3, <2>4 DEF RaisePending, Bounds
<1> QED BY <1>1, <1>2, <1>3 DEF Bus

\* A step of the analysis thread.
LEMMA AnalysisTypes ==
  ASSUME TypesInv, Analysis
  PROVE  TypesInv'
<1> USE RawCaptureAssumption
    DEF TypesInv, CapturesOK, busVars, accVars, anVars, mtVars, baseVars, histVars
<1>1. CASE ResyncDrain
  <2>1. anLeft = 0
    BY <1>1 DEF ResyncDrain, Bounds
  <2> QED BY <1>1, <2>1 DEF ResyncDrain, TypeOK, Bounds, Unbumped
<1>2. CASE ResyncBump
  <2>1. pending /\ anPc = "bump" /\ anPc' = "lower" /\ UNCHANGED <<pending, raising>>
    BY <1>2 DEF ResyncBump, Bounds
  <2>2. seq \in Nat /\ seq' = seq + 1 /\ Unbumped = Unbumped' + 1 /\ Unbumped' \in Nat
    BY <1>2, <2>1 DEF ResyncBump, TypeOK, Unbumped
  <2>3. seq' + Unbumped' <= 4 * MaxRaises /\ seq' \in 0 .. 4 * MaxRaises
    <3>1. seq + Unbumped <= 4 * MaxRaises
      BY DEF Bounds
    <3> DEFINE u == Unbumped'
               v == Unbumped
               m == 4 * MaxRaises
               q == seq'
    <3>2. m \in Nat
      OBVIOUS
    <3> HIDE DEF u, v, m, q
    <3>3. q + u <= m /\ q \in 0..m
      <4>1. seq + v <= m
        BY <3>1 DEF m, v
      <4>2. u \in Nat /\ v = u + 1 /\ seq \in Nat /\ q = seq + 1
        BY <2>2 DEF u, v, q
      <4> QED BY <3>2, <4>1, <4>2
    <3> QED BY <3>3 DEF u, m, q
  <2>4. TypeOK' /\ CapturesOK'
    BY <1>2, <2>2, <2>3 DEF ResyncBump, TypeOK
  <2> QED BY <1>2, <2>1, <2>3, <2>4 DEF ResyncBump, Bounds
<1>3. CASE ResyncLower
  BY <1>3 DEF ResyncLower, TypeOK, Bounds, Unbumped
<1>4. CASE TickGate
  <2>1. Unbumped' = Unbumped
    BY <1>4, SameGate DEF TickGate
  <2>2. TypeOK' /\ CapturesOK'
    BY <1>4 DEF TickGate, TypeOK
  <2> QED BY <1>4, <2>1, <2>2 DEF TickGate, Bounds
<1>5. CASE TakeRequest
  <2>1. Unbumped' = Unbumped
    BY <1>5, SameGate DEF TakeRequest
  <2>2. capturing' \in 0..MaxArms /\ request' \in 0..MaxArms
    BY <1>5 DEF TakeRequest, TypeOK
  <2>3. buf' \in Seq(1..MaxBlocks) /\ Len(buf') < Length
    <3>1. CASE buf' = buf
      BY <3>1 DEF TypeOK
    <3>2. CASE buf' = <<>>
      BY <3>2
    <3> QED BY <1>5, <3>1, <3>2 DEF TakeRequest
  <2>4. TypeOK' /\ CapturesOK'
    BY <1>5, <2>2, <2>3 DEF TakeRequest, TypeOK
  <2> QED BY <1>5, <2>1, <2>4 DEF TakeRequest, Bounds
<1>6. CASE SampleHops
  BY <1>6 DEF SampleHops, TypeOK, Bounds, Unbumped
<1>7. CASE FeedHop
  <2>1. /\ anPc = "hop" /\ anPc' = "hop" /\ anLeft > 0 /\ anLeft' = anLeft - 1
        /\ ring' = Tail(ring)
        /\ UNCHANGED <<block, drops, seq, pending, raising, request, mtVars, histVars>>
    BY <1>7, FeedKinds
  <2>2. Head(ring) \in Hops /\ Tail(ring) \in Seq(Hops) /\ Len(Tail(ring)) = Len(ring) - 1
    BY <2>1, HopWaits
  <2>3. Len(ring) \in Nat /\ buf \in Seq(Hops) /\ Len(buf) < Length /\ capturing \in 0..MaxArms
        /\ Len(ring) <= Capacity /\ anLeft \in 0..Len(ring)
    BY DEF TypeOK, Hops
  <2>4. Append(buf, Head(ring)) \in Seq(Hops)
    BY <2>2, <2>3, AppendProperties
  <2>5. capturing' \in 0..MaxArms /\ buf' \in Seq(Hops) /\ Len(buf') < Length
        /\ published' \in Captures /\ Len(published'.hops) \in {0, Length}
    <3>1. CASE UNCHANGED <<capturing, buf, published>>
      BY <2>3, <3>1 DEF TypeOK
    <3>2. CASE /\ UNCHANGED <<capturing, published>>
               /\ buf' = Append(buf, Head(ring)) /\ Len(buf') < Length
      BY <2>3, <2>4, <3>2 DEF TypeOK
    <3>3. CASE /\ capturing' = 0 /\ buf' = <<>>
               /\ published' = [arm |-> capturing, hops |-> Append(buf, Head(ring))]
               /\ Len(Append(buf, Head(ring))) = Length
      <4>1. buf' \in Seq(Hops) /\ Len(buf') < Length /\ capturing' \in 0..MaxArms
        BY <3>3
      <4>2. published' \in Captures /\ published'.hops = Append(buf, Head(ring))
        BY <2>3, <2>4, <3>3 DEF Captures
      <4> QED BY <3>3, <4>1, <4>2
    <3> QED BY <1>7, <3>1, <3>2, <3>3, FeedKinds
  <2>6. published'.arm \in 0..MaxArms
    BY <2>5 DEF Captures
  <2>7. ring' \in Seq(Hops) /\ Len(ring') <= Capacity /\ anLeft' \in 0..Len(ring')
    BY <2>1, <2>2, <2>3, RawCaptureAssumption
  <2>8. Unbumped' = Unbumped
    BY <2>1, SameGate
  <2>9. TypeOK' /\ CapturesOK'
    BY <2>1, <2>5, <2>6, <2>7 DEF TypeOK, Hops
  <2> QED BY <2>1, <2>8, <2>9 DEF Bounds
<1>8. CASE TickEnd
  BY <1>8 DEF TickEnd, TypeOK, Bounds, Unbumped
<1> QED BY <1>1, <1>2, <1>3, <1>4, <1>5, <1>6, <1>7, <1>8 DEF Analysis

\* A step of the client.
LEMMA ClientTypes ==
  ASSUME TypesInv, Client
  PROVE  TypesInv'
<1> USE RawCaptureAssumption, NoCaptureIs
    DEF TypesInv, CapturesOK, busVars, accVars, anVars, mtVars, baseVars, histVars, Step
<1>1. CASE Press
  BY <1>1 DEF Press, TypeOK, Bounds, Unbumped
<1>2. CASE ArmClear
  BY <1>2 DEF ArmClear, TypeOK, Bounds, Unbumped
<1>3. CASE ArmRequest
  BY <1>3 DEF ArmRequest, TypeOK, Bounds, Unbumped
<1>4. CASE NoteSeq
  BY <1>4 DEF NoteSeq, TypeOK, Bounds, Unbumped
<1>5. CASE NoteDrops
  BY <1>5 DEF NoteDrops, TypeOK, Bounds, Unbumped
<1>6. CASE Abandon
  BY <1>6 DEF Abandon, TypeOK, Bounds, Unbumped
<1>7. CASE PollSeq
  BY <1>7 DEF PollSeq, TypeOK, Bounds, Unbumped
<1>8. CASE PollCapture
  BY <1>8 DEF PollCapture, TypeOK, Bounds, Unbumped
<1>9. CASE PollDrops
  <2>1. got.arm \in 0..MaxArms
    BY DEF Captures
  <2>2. handled' \in [Kinds -> 0..MaxArms]
    <3>1. handled' = handled \/ handled' = [handled EXCEPT ![kind] = IF kind = "SWEEP" THEN 0 ELSE got.arm]
      BY <1>9 DEF PollDrops
    <3> QED BY <2>1, <3>1, SMTT(30) DEF TypeOK
  <2>3. pc' \in {"idle", "waiting"} /\ taken' \in {taken, got} /\ got' = NoCapture
    BY <1>9 DEF PollDrops
  <2> QED BY <1>9, <2>2, <2>3 DEF PollDrops, TypeOK, Bounds, Unbumped
<1> QED BY <1>1, <1>2, <1>3, <1>4, <1>5, <1>6, <1>7, <1>8, <1>9 DEF Client

\* Every step keeps the types and the bounds.
LEMMA TypesStep ==
  ASSUME TypesInv, [Next]_vars
  PROVE  TypesInv'
<1>1. CASE UNCHANGED vars
  BY <1>1 DEF vars, busVars, accVars, anVars, mtVars, baseVars, histVars, TypesInv, TypeOK,
     CapturesOK, Bounds, Unbumped
<1> QED BY <1>1, BusTypes, AnalysisTypes, ClientTypes DEF Next

-------------------------------------------------------------------------------
(* Whose capture it is.                                                    *)

ArmsInv == ArmsArePast /\ ArmIsSomewhere /\ NoneButOwn /\ Undecided /\ ConsumedIsOwn

\* The numbers of the arms are natural numbers.
LEMMA ArmTypes ==
  ASSUME TypesInv
  PROVE  /\ request \in Nat /\ capturing \in Nat /\ arm \in Nat
         /\ published.arm \in Nat /\ got.arm \in Nat
  BY RawCaptureAssumption DEF TypesInv, TypeOK, CapturesOK, Captures

\* The first state.
LEMMA ArmsBegin == Init => ArmsInv
  BY NoCaptureIs
  DEF Init, ArmsInv, ArmsArePast, ArmIsSomewhere, Armed, NoneButOwn, Undecided, ConsumedIsOwn

\* A step that leaves the captures and the client alone.
LEMMA ArmsUntouched ==
  ASSUME ArmsInv, UNCHANGED <<request, capturing, published, pc, arm, got, inFlight, taken>>
  PROVE  ArmsInv'
  BY DEF ArmsInv, ArmsArePast, ArmIsSomewhere, Armed, Asked, Filling, Published, NoneButOwn,
     Undecided, ConsumedIsOwn

\* A step of the analysis thread.
LEMMA AnalysisArms ==
  ASSUME TypesInv, ArmsInv, Analysis
  PROVE  ArmsInv'
<1> USE DEF busVars, accVars, anVars, mtVars, baseVars, histVars
<1>1. CASE TakeRequest
  <2>1. /\ request' = 0 /\ capturing' = IF request = 0 THEN capturing ELSE request
        /\ UNCHANGED <<published, pc, arm, got, inFlight, taken>>
    BY <1>1 DEF TakeRequest
  <2>2. ArmsArePast'
    BY <2>1, ArmTypes DEF ArmsInv, ArmsArePast
  <2>3. ArmIsSomewhere'
    BY <2>1, ArmTypes
    DEF ArmsInv, ArmsArePast, ArmIsSomewhere, Armed, Asked, Filling, Published
  <2>4. NoneButOwn' /\ Undecided' /\ ConsumedIsOwn'
    BY <2>1 DEF ArmsInv, NoneButOwn, Undecided, ConsumedIsOwn
  <2> QED BY <2>2, <2>3, <2>4 DEF ArmsInv
<1>2. CASE FeedHop
  <2>1. UNCHANGED <<request, pc, arm, got, inFlight, taken>>
    BY <1>2, FeedKinds
  <2>2. CASE UNCHANGED <<capturing, published>>
    BY <2>1, <2>2, ArmsUntouched
  <2>3. CASE capturing # 0 /\ capturing' = 0 /\ published'.arm = capturing
    <3>1. ArmsArePast'
      BY <2>1, <2>3, ArmTypes DEF ArmsInv, ArmsArePast
    <3>2. ArmIsSomewhere'
      BY <2>1, <2>3, ArmTypes
      DEF ArmsInv, ArmIsSomewhere, Armed, Asked, Filling, Published
    <3>3. NoneButOwn' /\ Undecided' /\ ConsumedIsOwn'
      BY <2>1, <2>3 DEF ArmsInv, NoneButOwn, Undecided, ConsumedIsOwn
    <3> QED BY <3>1, <3>2, <3>3 DEF ArmsInv
  <2> QED BY <1>2, <2>2, <2>3, FeedKinds
<1>3. CASE ResyncDrain \/ ResyncBump \/ ResyncLower \/ TickGate \/ SampleHops \/ TickEnd
  <2>1. UNCHANGED <<request, capturing, published, pc, arm, got, inFlight, taken>>
    BY <1>3 DEF ResyncDrain, ResyncBump, ResyncLower, TickGate, SampleHops, TickEnd
  <2> QED BY <2>1, ArmsUntouched
<1> QED BY <1>1, <1>2, <1>3 DEF Analysis

\* A step of the client.
LEMMA ClientArms ==
  ASSUME TypesInv, ArmsInv, Client
  PROVE  ArmsInv'
<1> USE ArmTypes, NoCaptureIs
    DEF busVars, accVars, anVars, mtVars, baseVars, histVars, Step
<1>1. CASE Press
  <2>1. /\ pc' = "clear" /\ arm' = arm + 1 /\ taken' = NoCapture /\ pc = "idle"
        /\ UNCHANGED <<request, capturing, published, got, inFlight>>
    BY <1>1 DEF Press
  <2>2. ArmsArePast'
    BY <2>1 DEF ArmsInv, ArmsArePast
  <2>3. ArmIsSomewhere' /\ NoneButOwn' /\ Undecided' /\ ConsumedIsOwn'
    BY <2>1 DEF ArmsInv, ArmIsSomewhere, Armed, NoneButOwn, Undecided, ConsumedIsOwn
  <2> QED BY <2>2, <2>3 DEF ArmsInv
<1>2. CASE ArmClear
  <2>1. /\ pc = "clear" /\ pc' = "request" /\ published' = NoCapture
        /\ UNCHANGED <<request, capturing, arm, got, taken>>
    BY <1>2 DEF ArmClear
  <2>2. ~inFlight' => capturing = 0 /\ request = 0
    BY <1>2 DEF ArmClear
  <2>3. ArmsArePast'
    BY <2>1 DEF ArmsInv, ArmsArePast
  <2>4. NoneButOwn'
    BY <2>1, <2>2 DEF ArmsInv, NoneButOwn, Undecided
  <2>5. ArmIsSomewhere' /\ Undecided' /\ ConsumedIsOwn'
    BY <2>1 DEF ArmsInv, ArmIsSomewhere, Armed, Undecided, ConsumedIsOwn
  <2> QED BY <2>3, <2>4, <2>5 DEF ArmsInv
<1>3. CASE ArmRequest
  <2>1. /\ pc = "request" /\ pc' \in {"waiting", "baseSeq"} /\ request' = arm
        /\ UNCHANGED <<capturing, published, arm, got, inFlight, taken>>
    BY <1>3 DEF ArmRequest
  <2>2. ArmsArePast' /\ ArmIsSomewhere'
    BY <2>1 DEF ArmsInv, ArmsArePast, ArmIsSomewhere, Armed, Asked
  <2>3. NoneButOwn' /\ Undecided' /\ ConsumedIsOwn'
    BY <2>1 DEF ArmsInv, NoneButOwn, Undecided, ConsumedIsOwn
  <2> QED BY <2>2, <2>3 DEF ArmsInv
<1>4. CASE NoteSeq \/ NoteDrops \/ PollSeq \/ Abandon
  <2>1. /\ pc \in {"baseSeq", "baseDrops", "waiting"}
        /\ pc' \in {"baseDrops", "waiting", "capture", "idle"}
        /\ UNCHANGED <<request, capturing, published, arm, got, inFlight, taken>>
    BY <1>4 DEF NoteSeq, NoteDrops, PollSeq, Abandon
  <2>2. ArmsArePast' /\ ArmIsSomewhere'
    BY <2>1 DEF ArmsInv, ArmsArePast, ArmIsSomewhere, Armed, Asked, Filling, Published
  <2>3. NoneButOwn' /\ Undecided' /\ ConsumedIsOwn'
    BY <2>1 DEF ArmsInv, NoneButOwn, Undecided, ConsumedIsOwn
  <2> QED BY <2>2, <2>3 DEF ArmsInv
<1>5. CASE PollCapture
  <2>1. /\ pc \in {"capture", "waiting"} /\ pc' = "drops" /\ got' = published
        /\ UNCHANGED <<request, capturing, published, arm, inFlight, taken>>
    BY <1>5 DEF PollCapture
  <2>2. ArmsArePast' /\ ArmIsSomewhere'
    BY <2>1 DEF ArmsInv, ArmsArePast, ArmIsSomewhere, Armed, Asked, Filling, Published
  <2>3. NoneButOwn' /\ Undecided' /\ ConsumedIsOwn'
    BY <2>1 DEF ArmsInv, NoneButOwn, Undecided, ConsumedIsOwn
  <2> QED BY <2>2, <2>3 DEF ArmsInv
<1>6. CASE PollDrops
  <2>1. /\ pc = "drops" /\ got' = NoCapture
        /\ UNCHANGED <<request, capturing, published, arm, inFlight>>
        /\ \/ pc' \in {"idle", "waiting"} /\ UNCHANGED taken
           \/ pc' = "idle" /\ taken' = got
    BY <1>6 DEF PollDrops
  <2>2. ArmsArePast' /\ ArmIsSomewhere'
    BY <2>1 DEF ArmsInv, ArmsArePast, ArmIsSomewhere, Armed, Asked, Filling, Published
  <2>3. NoneButOwn' /\ Undecided' /\ ConsumedIsOwn'
    BY <2>1 DEF ArmsInv, NoneButOwn, Undecided, ConsumedIsOwn
  <2> QED BY <2>2, <2>3 DEF ArmsInv
<1> QED BY <1>1, <1>2, <1>3, <1>4, <1>5, <1>6 DEF Client

\* Every step keeps the arms in order.
LEMMA ArmsStep ==
  ASSUME TypesInv, ArmsInv, [Next]_vars
  PROVE  ArmsInv'
<1> USE DEF busVars, accVars, anVars, mtVars, baseVars, histVars
<1>1. CASE UNCHANGED vars
  BY <1>1, ArmsUntouched DEF vars
<1>2. CASE Bus
  BY <1>2, ArmsUntouched DEF Bus, Callback, RaiseSeq, RaisePending
<1> QED BY <1>1, <1>2, AnalysisArms, ClientArms DEF Next

-------------------------------------------------------------------------------
(* Whether it is whole.                                                    *)

WholeInv == UncutIsWhole /\ GotIsWhole /\ ConsumedIsWhole

\* The ring, the accumulator and the line they make are sequences of numbers.
LEMMA LineTypes ==
  ASSUME TypesInv
  PROVE  /\ ring \in Seq(Nat) /\ buf \in Seq(Nat) /\ Begun \in Seq(Nat) /\ Line \in Seq(Nat)
         /\ block \in Nat /\ seq \in Nat /\ drops \in Nat
         /\ baseSeq \in Nat /\ baseDrops \in Nat /\ baseSeq <= seq /\ baseDrops <= drops
<1>1. 1..MaxBlocks \subseteq Nat
  BY RawCaptureAssumption
<1>2. ring \in Seq(1..MaxBlocks) /\ buf \in Seq(1..MaxBlocks)
  BY DEF TypesInv, TypeOK
<1>3. ring \in Seq(Nat) /\ buf \in Seq(Nat)
  BY <1>1, <1>2, SeqMonotonic
<1>4. Begun \in Seq(Nat)
  BY <1>3, EmptySeq DEF Begun
<1>5. Line \in Seq(Nat)
  BY <1>3, <1>4, ConcatProperties DEF Line
<1>6. block \in Nat /\ seq \in Nat /\ drops \in Nat
  BY RawCaptureAssumption DEF TypesInv, TypeOK
<1>7. baseSeq \in Nat /\ baseDrops \in Nat /\ baseSeq <= seq /\ baseDrops <= drops
  BY <1>6 DEF TypesInv, TypeOK
<1> QED BY <1>3, <1>4, <1>5, <1>6, <1>7

\* The first state.
LEMMA WholeBegins == Init => WholeInv
<1>1. NoCapture.hops = <<>> /\ Contiguous(<<>>)
  BY DEF NoCapture, Contiguous
<1> QED BY <1>1 DEF Init, WholeInv, UncutIsWhole, Uncut, GotIsWhole, ConsumedIsWhole

\* The client's side of the other two threads' steps.
ClientStands == UNCHANGED <<mtVars, histVars>>

\* The counters only grow: what is uncut after a step was uncut before it.
LEMMA CountersOnlyGrow ==
  ASSUME TypesInv, WholeInv, ClientStands,
         seq' \in {seq, seq + 1}, drops' \in {drops, drops + 1}
  PROVE  /\ Uncut' => Uncut /\ seq' = seq /\ drops' = drops
         /\ GotIsWhole' /\ ConsumedIsWhole'
<1>1. UNCHANGED <<kind, pc, arm, baseSeq, baseDrops, got, holeAhead, resyncUnder, taken>>
  BY DEF ClientStands, mtVars, baseVars, histVars
<1>2. baseSeq' = seq' => seq' = seq
  BY <1>1, LineTypes
<1>3. baseDrops' = drops' => drops' = drops
  BY <1>1, LineTypes
<1>4. Uncut' => Uncut /\ seq' = seq /\ drops' = drops
  BY <1>1, <1>2, <1>3 DEF Uncut
<1>5. GotIsWhole'
  BY <1>1, <1>3 DEF WholeInv, GotIsWhole
<1>6. ConsumedIsWhole'
  BY <1>1 DEF WholeInv, ConsumedIsWhole
<1> QED BY <1>4, <1>5, <1>6

\* A callback: the line goes on, or one of the counters or the gate knows.
LEMMA CallbackWhole ==
  ASSUME TypesInv, WholeInv, Callback
  PROVE  WholeInv'
<1>1. /\ ClientStands /\ block' = block + 1
      /\ UNCHANGED <<seq, pending, request, buf, published, anPc>>
  BY DEF Callback, ClientStands, accVars, anVars
<1>2. drops' \in {drops, drops + 1}
  BY DEF Callback
<1>3. GotIsWhole' /\ ConsumedIsWhole'
  BY <1>1, <1>2, CountersOnlyGrow
<1>4. UncutIsWhole'
  <2> SUFFICES ASSUME Uncut'
               PROVE  /\ published.arm = arm => Contiguous(published.hops)
                      /\ published.arm # arm =>
                           /\ Contiguous(Line')
                           /\ ~pending => Contiguous(Append(Line', block + 1))
                           /\ anPc = "lower" => Begun' = <<>>
    BY <1>1 DEF UncutIsWhole, ClientStands, mtVars
  <2>1. Uncut /\ drops' = drops
    BY <1>1, <1>2, CountersOnlyGrow
  <2>2. UncutIsWhole /\ Begun' = Begun
    BY <1>1 DEF WholeInv, Begun, ClientStands, mtVars
  <2>3. CASE pending
    <3>1. ring' = ring
      BY <2>3 DEF Callback
    <3> QED BY <2>1, <2>2, <2>3, <3>1 DEF UncutIsWhole, Line
  <2>4. CASE ~pending
    <3>1. ring' = Append(ring, block)
      <4>1. drops' # drops + 1
        BY <2>1, LineTypes
      <4> QED BY <2>4, <4>1 DEF Callback
    <3>2. Line' = Append(Line, block)
      BY <2>2, <3>1, LineTypes, JoinsAtEnd DEF Line
    <3> SUFFICES ASSUME published.arm # arm
                 PROVE  Contiguous(Line') /\ Contiguous(Append(Line', block + 1))
      BY <2>1, <2>2 DEF UncutIsWhole
    <3>3. Contiguous(Append(Line, block))
      BY <2>1, <2>2, <2>4 DEF UncutIsWhole
    <3>4. Contiguous(Append(Append(Line, block), block + 1))
      BY <3>3, LineTypes, NextCarriesOn
    <3> QED BY <3>2, <3>3, <3>4
  <2> QED BY <2>3, <2>4
<1> QED BY <1>3, <1>4 DEF WholeInv

\* The gate goes up, is acknowledged, and comes down.
LEMMA GateWhole ==
  ASSUME TypesInv, WholeInv,
         RaiseSeq \/ RaisePending \/ ResyncDrain \/ ResyncBump \/ ResyncLower
  PROVE  WholeInv'
<1> USE DEF accVars, anVars
<1>1. ClientStands /\ UNCHANGED <<block, drops, request, buf, published>>
  BY DEF RaiseSeq, RaisePending, ResyncDrain, ResyncBump, ResyncLower, ClientStands
<1>2. seq' \in {seq, seq + 1}
  BY DEF RaiseSeq, RaisePending, ResyncDrain, ResyncBump, ResyncLower
<1>3. GotIsWhole' /\ ConsumedIsWhole' /\ (Uncut' => Uncut /\ seq' = seq)
  BY <1>1, <1>2, CountersOnlyGrow
<1>4. UncutIsWhole'
  <2> SUFFICES ASSUME Uncut'
               PROVE  /\ published.arm = arm => Contiguous(published.hops)
                      /\ published.arm # arm =>
                           /\ Contiguous(Line')
                           /\ ~pending' => Contiguous(Append(Line', block))
                           /\ anPc' = "lower" => Begun' = <<>>
    BY <1>1 DEF UncutIsWhole, ClientStands, mtVars
  <2>1. Uncut /\ seq' = seq /\ UncutIsWhole /\ Begun' = Begun
    BY <1>1, <1>3 DEF WholeInv, Begun, ClientStands, mtVars
  <2>2. ~RaiseSeq /\ ~ResyncBump
    BY <2>1, LineTypes DEF RaiseSeq, ResyncBump
  <2>3. CASE RaisePending
    BY <2>1, <2>3 DEF RaisePending, UncutIsWhole, Line
  <2>4. CASE ResyncDrain
    <3>1. pending' = pending /\ pending /\ ring' = <<>> /\ anPc' = "bump"
      BY <2>4 DEF ResyncDrain
    <3>2. Line' = Begun
      <4>1. Begun \o <<>> = Begun
        BY LineTypes, ConcatEmptySeq
      <4> QED BY <2>1, <3>1, <4>1 DEF Line
    <3>3. Contiguous(Begun \o ring) => Contiguous(Begun)
      BY LineTypes, PartsAreWhole
    <3> QED BY <2>1, <3>1, <3>2, <3>3 DEF UncutIsWhole, Line
  <2>5. CASE ResyncLower
    <3>1. anPc = "lower" /\ anPc' = "drain" /\ ring' = ring /\ ring = <<>>
      BY <2>5 DEF ResyncLower, TypesInv, Bounds
    <3> SUFFICES ASSUME published.arm # arm
                 PROVE  Contiguous(Line') /\ Contiguous(Append(Line', block))
      BY <2>1, <3>1 DEF UncutIsWhole
    <3>2. Begun = <<>>
      BY <2>1, <3>1 DEF UncutIsWhole
    <3>3. Line' = <<>>
      <4>1. <<>> \o <<>> = <<>>
        BY EmptySeq, ConcatEmptySeq
      <4> QED BY <2>1, <3>1, <3>2, <4>1 DEF Line
    <3> QED BY <3>3, ShortIsWhole, LineTypes
  <2> QED BY <2>2, <2>3, <2>4, <2>5
<1> QED BY <1>3, <1>4 DEF WholeInv

\* A step of the tick that feeds nothing.
LEMMA TickWhole ==
  ASSUME TypesInv, ArmsInv, WholeInv, TickGate \/ TakeRequest \/ SampleHops \/ TickEnd
  PROVE  WholeInv'
<1> USE DEF busVars, accVars, anVars
<1>1. ClientStands /\ UNCHANGED <<ring, block, drops, seq, pending, published>>
  BY DEF TickGate, TakeRequest, SampleHops, TickEnd, ClientStands
<1>2. anPc' # "lower"
  BY DEF TickGate, TakeRequest, SampleHops, TickEnd
<1>3. GotIsWhole' /\ ConsumedIsWhole' /\ (Uncut' => Uncut)
  BY <1>1, CountersOnlyGrow
<1>4. UncutIsWhole'
  <2> SUFFICES ASSUME Uncut' PROVE Begun' = Begun
    BY <1>1, <1>2, <1>3 DEF WholeInv, UncutIsWhole, Line, ClientStands, mtVars
  <2>1. arm' = arm
    BY <1>1 DEF ClientStands, mtVars
  <2>2. CASE TakeRequest
    <3>1. request \in {0, arm} /\ arm > 0
      BY <1>3, ArmTypes
      DEF ArmsInv, ArmIsSomewhere, Armed, Asked, Filling, Published, Uncut
    <3>2. /\ request' = 0 /\ buf' = IF request = 0 THEN buf ELSE <<>>
      BY <2>2 DEF TakeRequest
    <3> QED BY <2>1, <3>1, <3>2, ArmTypes DEF Begun
  <2>3. CASE TickGate \/ SampleHops \/ TickEnd
    BY <2>1, <2>3 DEF TickGate, SampleHops, TickEnd, Begun
  <2> QED BY <2>2, <2>3
<1> QED BY <1>3, <1>4 DEF WholeInv

\* One hop of the drain moves along the line.
LEMMA FeedWhole ==
  ASSUME TypesInv, ArmsInv, WholeInv, FeedHop
  PROVE  WholeInv'
<1>1. /\ ClientStands /\ UNCHANGED <<block, drops, seq, pending, request>>
      /\ ring' = Tail(ring) /\ anPc' = "hop" /\ anLeft > 0
  BY FeedKinds DEF ClientStands
<1>2. GotIsWhole' /\ ConsumedIsWhole' /\ (Uncut' => Uncut)
  BY <1>1, CountersOnlyGrow
<1>3. ring # <<>>
  BY <1>1, HopWaits
<1>4. UncutIsWhole'
  <2> SUFFICES ASSUME Uncut'
               PROVE  /\ published'.arm = arm => Contiguous(published'.hops)
                      /\ published'.arm # arm =>
                           /\ Contiguous(Line')
                           /\ ~pending => Contiguous(Append(Line', block))
    BY <1>1 DEF UncutIsWhole, ClientStands, mtVars
  <2>1. Uncut /\ UncutIsWhole /\ arm' = arm /\ arm > 0
    BY <1>1, <1>2 DEF WholeInv, ClientStands, mtVars, ArmsInv, ArmIsSomewhere, Armed, Uncut
  <2>2. CASE Asked
    <3>1. Begun = <<>> /\ Begun' = <<>>
      BY <1>1, <2>1, <2>2 DEF Asked, Begun
    <3>2. Line = ring /\ Line' = Tail(ring)
      <4>1. <<>> \o ring = ring
        BY LineTypes, ConcatEmptySeq
      <4>2. <<>> \o Tail(ring) = Tail(ring)
        BY <1>3, LineTypes, HeadTailProperties, ConcatEmptySeq
      <4> QED BY <1>1, <3>1, <4>1, <4>2 DEF Line
    <3>3. Contiguous(ring) /\ (~pending => Contiguous(Append(ring, block)))
      BY <2>1, <2>2, <3>2 DEF UncutIsWhole, Asked
    <3>4. Contiguous(Tail(ring)) /\ (~pending => Contiguous(Append(Tail(ring), block)))
      BY <1>3, <3>3, LineTypes, RestIsWhole
    <3>5. published'.arm # arm
      BY <2>2, FeedKinds DEF Asked
    <3> QED BY <3>2, <3>4, <3>5
  <2>3. CASE Filling
    <3> DEFINE b == Append(buf, Head(ring))
    <3>1. request # arm /\ request' # arm' /\ capturing # 0
      BY <1>1, <2>1, <2>3, ArmTypes DEF Filling
    <3>2. Begun = buf /\ Begun' = buf'
      BY <3>1 DEF Begun
    <3>3. Line = buf \o ring /\ b \o Tail(ring) = buf \o ring
      BY <1>3, <3>2, LineTypes, MovesInPlace DEF Line
    <3>4. Contiguous(Line) /\ (~pending => Contiguous(Append(Line, block)))
      BY <2>1, <2>3 DEF UncutIsWhole, Filling
    <3>5. CASE UNCHANGED published /\ buf' = b
      <4>1. Line' = Line
        BY <1>1, <3>2, <3>3, <3>5 DEF Line
      <4> QED BY <2>3, <3>4, <3>5, <4>1 DEF Filling
    <3>6. CASE published' = [arm |-> capturing, hops |-> b]
      <4>1. published'.arm = arm /\ published'.hops = b
        BY <2>3, <3>6 DEF Filling
      <4>2. b \in Seq(Nat) /\ Tail(ring) \in Seq(Nat)
        BY <1>3, LineTypes, HeadTailProperties, AppendProperties
      <4> HIDE DEF b
      <4>3. Contiguous(b)
        BY <3>3, <3>4, <4>2, PartsAreWhole
      <4> QED BY <4>1, <4>3
    <3> QED BY <3>1, <3>5, <3>6, FeedKinds
  <2>4. CASE Published
    <3>1. UNCHANGED published
      BY <2>4, FeedKinds DEF Published
    <3> QED BY <2>1, <2>4, <3>1 DEF UncutIsWhole, Published
  <2> QED BY <2>1, <2>2, <2>3, <2>4 DEF ArmsInv, ArmIsSomewhere, Armed, Uncut
<1> QED BY <1>2, <1>4 DEF WholeInv

\* A step of the client.
LEMMA ClientWhole ==
  ASSUME TypesInv, ArmsInv, WholeInv, Client
  PROVE  WholeInv'
<1> USE DEF busVars, accVars, anVars, mtVars, baseVars, histVars, Step
<1>1. NoCapture.arm = 0 /\ NoCapture.hops = <<>> /\ Contiguous(<<>>)
  BY LineTypes, ShortIsWhole DEF NoCapture
<1>2. ASSUME taken' = NoCapture PROVE ConsumedIsWhole'
  BY <1>1, <1>2 DEF ConsumedIsWhole
<1>3. pc # "idle" => taken = NoCapture
  BY DEF ArmsInv, Undecided
<1>4. CASE Press \/ ArmClear \/ ArmRequest \/ NoteSeq
  <2>1. taken' = NoCapture
    BY <1>3, <1>4 DEF Press, ArmClear, ArmRequest, NoteSeq
  <2>2. pc' \in {"clear", "request", "baseSeq", "baseDrops"} \/ (kind' = "CAL" /\ pc' = "waiting")
    BY <1>4 DEF Press, ArmClear, ArmRequest, NoteSeq
  <2> QED BY <1>2, <2>1, <2>2 DEF WholeInv, UncutIsWhole, Uncut, GotIsWhole
<1>5. CASE NoteDrops
  <2>1. /\ pc = "baseDrops" /\ pc' = "waiting"
        /\ UNCHANGED <<ring, block, pending, request, buf, published, anPc, arm, taken>>
    BY <1>5 DEF NoteDrops
  <2>2. Begun' = Begun /\ Line' = Line
    BY <2>1 DEF Begun, Line
  <2>3. holeAhead' = IF published.arm = arm
                       THEN ~Contiguous(published.hops)
                       ELSE \/ ~Contiguous(Line \o <<block>>)
                            \/ anPc = "lower" /\ Begun # <<>>
    BY <1>5 DEF NoteDrops, Begun, Line
  <2>4. Line \o <<block>> = Append(Line, block)
    BY LineTypes, JoinsAtEnd DEF Line
  <2>5. Contiguous(Append(Line, block)) => Contiguous(Line)
    BY LineTypes, NextCarriesOn
  <2>6. ~holeAhead' => /\ published.arm = arm => Contiguous(published.hops)
                       /\ published.arm # arm =>
                            /\ Contiguous(Append(Line, block))
                            /\ anPc = "lower" => Begun = <<>>
    BY <2>3, <2>4
  <2>7. UncutIsWhole'
    BY <2>1, <2>2, <2>5, <2>6 DEF UncutIsWhole, Uncut
  <2>8. GotIsWhole' /\ ConsumedIsWhole'
    BY <1>2, <1>3, <2>1 DEF GotIsWhole
  <2> QED BY <2>7, <2>8 DEF WholeInv
<1>6. CASE Abandon \/ PollSeq
  <2>1. /\ pc = "waiting" /\ pc' \in {"idle", "capture"}
        /\ UNCHANGED <<ring, block, pending, request, buf, published, anPc, arm, taken>>
        /\ UNCHANGED <<kind, seq, drops, baseSeq, baseDrops, holeAhead>>
    BY <1>6 DEF Abandon, PollSeq
  <2>2. Begun' = Begun /\ Line' = Line /\ (Uncut' => Uncut)
    BY <2>1 DEF Begun, Line, Uncut
  <2>3. UncutIsWhole'
    BY <2>1, <2>2 DEF WholeInv, UncutIsWhole
  <2>4. GotIsWhole' /\ ConsumedIsWhole'
    BY <1>2, <1>3, <2>1 DEF GotIsWhole
  <2> QED BY <2>3, <2>4 DEF WholeInv
<1>7. CASE PollCapture
  <2>1. /\ pc = "capture" \/ (pc = "waiting" /\ kind = "CAL")
        /\ pc' = "drops" /\ got' = published
        /\ UNCHANGED <<ring, block, pending, request, buf, published, anPc, arm, taken>>
        /\ UNCHANGED <<kind, seq, drops, baseSeq, baseDrops, holeAhead>>
    BY <1>7 DEF PollCapture
  <2>2. resyncUnder' = (seq # baseSeq)
    BY <1>7 DEF PollCapture
  <2>3. ~resyncUnder' => seq = baseSeq
    BY <2>2
  <2>4. Begun' = Begun /\ Line' = Line /\ (Uncut' => Uncut)
    BY <2>1 DEF Begun, Line, Uncut
  <2>5. UncutIsWhole'
    BY <2>1, <2>4 DEF WholeInv, UncutIsWhole
  <2>6. GotIsWhole'
    BY <2>1, <2>3 DEF WholeInv, UncutIsWhole, Uncut, GotIsWhole
  <2> QED BY <1>2, <1>3, <2>1, <2>5, <2>6 DEF WholeInv
<1>8. CASE PollDrops
  <2>1. /\ pc = "drops" /\ pc' \in {"idle", "waiting"}
        /\ UNCHANGED <<ring, block, pending, request, buf, published, anPc, arm>>
        /\ UNCHANGED <<kind, seq, drops, baseSeq, baseDrops, holeAhead, resyncUnder>>
    BY <1>8 DEF PollDrops
  <2>2. taken' = taken \/ (taken' = got /\ (kind # "CAL" => drops = baseDrops))
    BY <1>8 DEF PollDrops
  <2>3. Begun' = Begun /\ Line' = Line /\ (Uncut' => Uncut)
    BY <2>1 DEF Begun, Line, Uncut
  <2>4. UncutIsWhole' /\ GotIsWhole'
    BY <2>1, <2>3 DEF WholeInv, UncutIsWhole, GotIsWhole
  <2>5. CASE taken' = taken
    BY <1>2, <1>3, <2>1, <2>4, <2>5 DEF WholeInv
  <2>6. CASE taken' = got /\ (kind # "CAL" => drops = baseDrops)
    <3>1. ConsumedIsWhole'
      BY <2>1, <2>6 DEF WholeInv, GotIsWhole, ConsumedIsWhole
    <3> QED BY <2>4, <3>1 DEF WholeInv
  <2> QED BY <2>2, <2>5, <2>6
<1> QED BY <1>4, <1>5, <1>6, <1>7, <1>8 DEF Client

\* Every step keeps what is uncut whole.
LEMMA WholeStep ==
  ASSUME TypesInv, ArmsInv, WholeInv, [Next]_vars
  PROVE  WholeInv'
<1>1. CASE UNCHANGED vars
  BY <1>1 DEF vars, busVars, accVars, anVars, mtVars, baseVars, histVars, WholeInv,
     UncutIsWhole, Uncut, Begun, Line, GotIsWhole, ConsumedIsWhole
<1>2. CASE Bus
  BY <1>2, CallbackWhole, GateWhole DEF Bus
<1>3. CASE Analysis
  BY <1>3, GateWhole, TickWhole, FeedWhole DEF Analysis
<1> QED BY <1>1, <1>2, <1>3, ClientWhole DEF Next

-------------------------------------------------------------------------------
(* The theorems.                                                           *)

\* The inductive invariant of the raw capture.
THEOREM RawInvariant == Spec => []RawIInv
<1>1. Init => TypesInv /\ ArmsInv /\ WholeInv
  BY TypesBegin, ArmsBegin, WholeBegins
<1>2. TypesInv /\ ArmsInv /\ WholeInv /\ [Next]_vars => (TypesInv /\ ArmsInv /\ WholeInv)'
  BY TypesStep, ArmsStep, WholeStep
<1>3. TypesInv /\ ArmsInv /\ WholeInv => RawIInv
  BY DEF TypesInv, ArmsInv, WholeInv, RawIInv
<1> QED BY <1>1, <1>2, <1>3, PTL DEF Spec

\* Every variable keeps its type; ring and accumulator stay in their bounds, and the
\* resync sequence moves at most twice for each resync.
THEOREM TypeCorrect == Spec => []TypeOK
<1>1. RawIInv => TypeOK
  BY DEF RawIInv
<1> QED BY <1>1, RawInvariant, PTL

\* LOCATE and SWEEP accept a capture of their own only if it is one uninterrupted run
\* of callbacks, but for the two windows ConsumedIsWhole names.
THEOREM AcceptedIsWhole == Spec => []ConsumedIsWhole
<1>1. RawIInv => ConsumedIsWhole
  BY DEF RawIInv
<1> QED BY <1>1, RawInvariant, PTL

\* A client accepts no capture but the one it armed, unless an abandoned one was still
\* in flight when it armed.
THEOREM AcceptedIsOwn == Spec => []ConsumedIsOwn
<1>1. RawIInv => ConsumedIsOwn
  BY DEF RawIInv
<1> QED BY <1>1, RawInvariant, PTL
===============================================================================
