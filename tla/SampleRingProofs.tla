--------------------------- MODULE SampleRingProofs ---------------------------
(***************************************************************************)
(* RingBuffer is a bounded queue, for every capacity, index width and       *)
(* block length: SampleRing implements BoundedFifo.                         *)
(*                                                                         *)
(* The argument is modular arithmetic.  Both indices run freely modulo the  *)
(* word, the capacity divides the word, and at most a capacity of samples   *)
(* lies between them; so the slots the producer copies to and those the     *)
(* consumer may read differ, however far both copies have come.             *)
(***************************************************************************)
EXTENDS SampleRing, SequenceTheorems, TLAPS

-------------------------------------------------------------------------------
(* Division with remainder.                                                *)

\* What \div and % return.
LEMMA DivMod ==
  ASSUME NEW a \in Int, NEW m \in Nat \ {0}
  PROVE  a % m \in 0..(m - 1) /\ a \div m \in Int /\ a = m * (a \div m) + (a % m)
  OBVIOUS

\* A remainder is a natural number.
LEMMA ModNat ==
  ASSUME NEW a \in Int, NEW m \in Nat \ {0}
  PROVE  a % m \in Nat
  BY DivMod

\* A positive multiple of m is at least m.
LEMMA Multiple ==
  ASSUME NEW m \in Nat \ {0}, NEW k \in Int, k >= 1
  PROVE  m * k >= m /\ m * k \in Int
  OBVIOUS

\* Quotient and remainder are unique.
LEMMA Unique ==
  ASSUME NEW m \in Nat \ {0}, NEW q1 \in Int, NEW q2 \in Int,
         NEW r1 \in 0..(m - 1), NEW r2 \in 0..(m - 1), m * q1 + r1 = m * q2 + r2
  PROVE  q1 = q2 /\ r1 = r2
<1>1. ASSUME NEW x \in Int, NEW y \in Int, NEW r \in 0..(m - 1), NEW s \in 0..(m - 1),
             m * x + r = m * y + s
      PROVE  ~(x > y)
  <2> SUFFICES ASSUME x > y PROVE FALSE
    OBVIOUS
  <2>1. m * (x - y) >= m
    BY Multiple
  <2>2. m * (x - y) = m * x - m * y /\ m * x \in Int /\ m * y \in Int
    OBVIOUS
  <2> QED BY <1>1, <2>1, <2>2
<1>2. ~(q1 > q2)
  BY <1>1
<1>3. ~(q2 > q1)
  BY <1>1
<1> QED BY <1>2, <1>3

\* The remainder, from any representation.
LEMMA ModIs ==
  ASSUME NEW a \in Int, NEW m \in Nat \ {0}, NEW q \in Int, NEW r \in 0..(m - 1), a = m * q + r
  PROVE  a % m = r
  BY DivMod, Unique

\* Multiples of m do not change the remainder.
LEMMA ModShift ==
  ASSUME NEW a \in Int, NEW m \in Nat \ {0}, NEW k \in Int
  PROVE  (a + m * k) % m = a % m
<1>1. a = m * (a \div m) + (a % m) /\ a \div m \in Int /\ a % m \in 0..(m - 1)
  BY DivMod
<1>2. m * k \in Int
  OBVIOUS
<1>3. m * (a \div m + k) = m * (a \div m) + m * k
  BY <1>1
<1>4. a + m * k = m * (a \div m + k) + (a % m)
  BY <1>1, <1>3
<1> DEFINE q == a \div m + k
<1>5. q \in Int
  BY <1>1
<1>6. a + m * k \in Int /\ a + m * k = m * q + (a % m)
  BY <1>2, <1>4
<1> HIDE DEF q
<1> QED BY <1>1, <1>5, <1>6, ModIs

-------------------------------------------------------------------------------
(* Indices and slots.                                                      *)

\* The capacity divides the word, so a wrap of an index does not move a slot.
LEMMA WrapKeepsSlot ==
  ASSUME NEW a \in Int, NEW k \in Int
  PROVE  (a + RgWord * k) % RgCapacity = a % RgCapacity
<1> USE RgAssumption
<1> DEFINE j == RgWord \div RgCapacity
           n == j * k
<1>1. RgWord = RgCapacity * j /\ j \in Int
  BY DivMod
<1>2. n \in Int
  BY <1>1
<1> HIDE DEF j
<1>3. RgWord * k = RgCapacity * n
  BY <1>1
<1> HIDE DEF n
<1>4. (a + RgCapacity * n) % RgCapacity = a % RgCapacity
  BY <1>2, ModShift
<1> QED BY <1>3, <1>4

\* The two copies of a block that wraps reach the slots in order.
LEMMA SlotIs ==
  ASSUME NEW x \in Int, NEW i \in Nat, i < RgCapacity
  PROVE  RgSlot(x % RgCapacity, i) = (x + i) % RgCapacity
<1> USE RgAssumption
<1> DEFINE s == x % RgCapacity
           q == x \div RgCapacity
<1>1. s \in 0..(RgCapacity - 1) /\ q \in Int /\ x = RgCapacity * q + s
  BY DivMod
<1> HIDE DEF s, q
<1>2. CASE i < RgCapacity - s
  <2>1. RgSlot(s, i) = s + i
    BY <1>2 DEF RgSlot
  <2>2. x + i \in Int /\ s + i \in 0..(RgCapacity - 1) /\ x + i = RgCapacity * q + (s + i)
    BY <1>1, <1>2
  <2>3. (x + i) % RgCapacity = s + i
    BY <1>1, <2>2, ModIs
  <2> QED BY <2>1, <2>3 DEF s
<1>3. CASE ~(i < RgCapacity - s)
  <2>1. RgSlot(s, i) = i - (RgCapacity - s)
    BY <1>3 DEF RgSlot
  <2> DEFINE r == i - (RgCapacity - s)
  <2>2. r \in 0..(RgCapacity - 1) /\ q + 1 \in Int
    BY <1>1, <1>3
  <2>3. RgCapacity * (q + 1) = RgCapacity * q + RgCapacity
    BY <1>1
  <2>4. x + i \in Int /\ x + i = RgCapacity * (q + 1) + r
    BY <1>1, <2>3
  <2> HIDE DEF r
  <2>5. (x + i) % RgCapacity = r
    BY <2>2, <2>4, ModIs
  <2> QED BY <2>1, <2>5 DEF s, r
<1> QED BY <1>2, <1>3

\* Positions less than a capacity apart have different slots.
LEMMA SlotsDiffer ==
  ASSUME NEW x \in Int, NEW y \in Int, x < y, y - x < RgCapacity
  PROVE  x % RgCapacity # y % RgCapacity
<1> USE RgAssumption
<1> SUFFICES ASSUME x % RgCapacity = y % RgCapacity PROVE FALSE
  OBVIOUS
<1> DEFINE p == x \div RgCapacity
           q == y \div RgCapacity
<1>1. p \in Int /\ q \in Int /\ x % RgCapacity \in Int
      /\ x = RgCapacity * p + (x % RgCapacity) /\ y = RgCapacity * q + (x % RgCapacity)
  BY DivMod
<1> HIDE DEF p, q
<1>2. y - x = RgCapacity * (q - p)
  BY <1>1
<1>3. CASE q - p >= 1
  <2>1. RgCapacity * (q - p) >= RgCapacity
    BY <1>1, <1>3, Multiple
  <2> QED BY <1>2, <2>1
<1>4. CASE ~(q - p >= 1)
  <2>1. RgCapacity * (q - p) <= 0
    BY <1>1, <1>4
  <2> QED BY <1>2, <2>1
<1> QED BY <1>3, <1>4

\* Writing n samples and moving the write index makes n more available.
LEMMA WriteMovesAvailable ==
  ASSUME NEW w \in Int, NEW r \in Int, NEW n \in Nat, ((w - r) % RgWord) + n < RgWord
  PROVE  (((w + n) % RgWord) - r) % RgWord = ((w - r) % RgWord) + n
<1> USE RgAssumption
<1> DEFINE p == (w + n) \div RgWord  v == (w + n) % RgWord
           q == (w - r) \div RgWord  a == (w - r) % RgWord
<1>1. p \in Int /\ v \in Nat /\ w + n = RgWord * p + v
  BY DivMod
<1>2. q \in Int /\ a \in Nat /\ w - r = RgWord * q + a /\ a + n < RgWord
  BY DivMod, SMTT(30)
<1> HIDE DEF p, v, q, a
<1>3. v - r = RgWord * (q - p) + (a + n)
  BY <1>1, <1>2
<1>4. v - r \in Int /\ q - p \in Int /\ a + n \in 0..(RgWord - 1)
  BY <1>1, <1>2
<1> DEFINE x == v - r  k == q - p  b == a + n
<1>5. x % RgWord = b
  <2>1. x \in Int /\ k \in Int /\ b \in 0..(RgWord - 1) /\ x = RgWord * k + b /\ RgWord \in Nat \ {0}
    BY <1>3, <1>4
  <2> HIDE DEF x, k, b
  <2> QED BY <2>1, ModIs
<1> QED BY <1>5 DEF v, a

\* Discarding n samples makes n fewer available.
LEMMA DiscardMovesAvailable ==
  ASSUME NEW w \in Int, NEW r \in Int, NEW n \in Nat, n <= (w - r) % RgWord
  PROVE  (w - ((r + n) % RgWord)) % RgWord = ((w - r) % RgWord) - n
<1> USE RgAssumption
<1> DEFINE p == (r + n) \div RgWord  v == (r + n) % RgWord
           q == (w - r) \div RgWord  a == (w - r) % RgWord
<1>1. p \in Int /\ v \in Nat /\ r + n = RgWord * p + v
  BY DivMod
<1>2. q \in Int /\ a \in 0..(RgWord - 1) /\ w - r = RgWord * q + a /\ n <= a
  <2>1. w - r \in Int /\ RgWord \in Nat \ {0}
    OBVIOUS
  <2> QED BY <2>1, DivMod
<1> HIDE DEF p, v, q, a
<1>3. w - v = RgWord * (q + p) + (a - n)
  BY <1>1, <1>2
<1>4. w - v \in Int /\ q + p \in Int /\ a - n \in 0..(RgWord - 1)
  BY <1>1, <1>2
<1> DEFINE x == w - v  k == q + p  b == a - n
<1>5. x % RgWord = b
  <2>1. x \in Int /\ k \in Int /\ b \in 0..(RgWord - 1) /\ x = RgWord * k + b /\ RgWord \in Nat \ {0}
    BY <1>3, <1>4
  <2> HIDE DEF x, k, b
  <2> QED BY <2>1, ModIs
<1> QED BY <1>5 DEF v, a

\* A wrap of the read index does not move the slots that follow it.
LEMMA ReadSlot ==
  ASSUME NEW r \in Int, NEW i \in Int
  PROVE  ((r % RgWord) + i) % RgCapacity = (r + i) % RgCapacity
<1> USE RgAssumption
<1> DEFINE q == r \div RgWord  a == r % RgWord
<1>1. q \in Int /\ a \in Nat /\ r = RgWord * q + a
  BY DivMod
<1> HIDE DEF q, a
<1>2. a + i \in Int /\ r + i = (a + i) + RgWord * q
  BY <1>1
<1>3. ((a + i) + RgWord * q) % RgCapacity = (a + i) % RgCapacity
  BY <1>1, <1>2, WrapKeepsSlot
<1> QED BY <1>2, <1>3 DEF a

-------------------------------------------------------------------------------
(* The invariant.                                                          *)

SlotOf(x) == x % RgCapacity
RgSamples == Nat
RgFields == {"op", "start", "count", "done", "dst"}
RgCalls == [op : {"idle", "write", "peek", "discard"}, start : Nat, count : Nat, done : Nat,
            dst : Seq(RgSamples)]

RgTypeOK ==
  /\ rgStore \in [0..(RgCapacity - 1) -> RgSamples]
  /\ rgWriteIndex \in Nat /\ rgReadIndex \in Nat /\ rgNext \in Nat
  /\ rgWriter \in RgCalls /\ rgWriter.op \in {"idle", "write"}
  /\ rgReader \in RgCalls /\ rgReader.op \in {"idle", "peek", "discard"}

\* No more than a capacity of samples lies between the indices.
RgFits == availableToRead <= RgCapacity

\* A block being written fits into what is free, and has been copied up to `done`.
RgWriting ==
  rgWriter.op = "write" =>
    /\ rgWriter.start = SlotOf(rgWriteIndex)
    /\ rgWriter.count > 0 /\ rgWriter.done <= rgWriter.count
    /\ availableToRead + rgWriter.count <= RgCapacity
    /\ \A i \in Nat : i < rgWriter.done =>
         rgStore[SlotOf(rgWriteIndex + i)] = (rgNext + i) % RgTags

\* What a peek has copied is what lies there still.
RgLookedFrom(offset) ==
  /\ rgReader.start = SlotOf(rgReadIndex + offset)
  /\ offset + rgReader.count <= availableToRead
  /\ rgReader.done <= rgReader.count
  /\ Len(rgReader.dst) = rgReader.done
  /\ \A i \in 1..rgReader.done :
       rgReader.dst[i] = rgStore[SlotOf(rgReadIndex + offset + i - 1)]
RgLooking == rgReader.op = "peek" => \E offset \in Nat : RgLookedFrom(offset)

\* A discard drops no more than there is: only the consumer takes samples away.
RgDropping == rgReader.op = "discard" => rgReader.count <= availableToRead

\* The inductive invariant.
RgIInv == RgTypeOK /\ RgFits /\ RgWriting /\ RgLooking /\ RgDropping

\* The sizes, as the steps need them.
LEMMA Sizes ==
  /\ RgCapacity \in Nat \ {0} /\ RgWord \in Nat \ {0} /\ RgTags \in Nat \ {0}
  /\ RgCapacity < RgWord
  BY RgAssumption

\* The slots of the indices, without their arithmetic.
LEMMA Slots ==
  /\ \A x \in Int, i \in Nat : i < RgCapacity => RgSlot(SlotOf(x), i) = SlotOf(x + i)
  /\ \A x, y \in Int : x < y /\ y - x < RgCapacity => SlotOf(x) # SlotOf(y)
  BY SlotIs, SlotsDiffer DEF SlotOf

\* A slot is a place in the storage, and what is available a natural number.
LEMMA RingTypes ==
  ASSUME RgTypeOK
  PROVE  /\ \A x \in Int : SlotOf(x) \in 0..(RgCapacity - 1)
         /\ \A x \in Int : rgStore[SlotOf(x)] \in RgSamples
         /\ availableToRead \in Nat
<1> USE RgAssumption
<1>1. \A x \in Int : SlotOf(x) \in 0..(RgCapacity - 1)
  BY DivMod DEF SlotOf
<1>2. availableToRead \in Nat
  <2> DEFINE d == rgWriteIndex - rgReadIndex
  <2>1. d \in Int /\ RgWord \in Nat \ {0}
    BY DEF RgTypeOK
  <2> HIDE DEF d
  <2>2. d % RgWord \in Nat
    BY <2>1, DivMod
  <2> QED BY <2>2 DEF d, availableToRead
<1>3. \A x \in Int : rgStore[SlotOf(x)] \in RgSamples
  BY <1>1 DEF RgTypeOK
<1> QED BY <1>1, <1>2, <1>3

\* The write index lies `available` slots after the read index.
LEMMA WriteSlot ==
  ASSUME RgTypeOK, NEW i \in Int
  PROVE  SlotOf(rgWriteIndex + i) = SlotOf(rgReadIndex + availableToRead + i)
<1> DEFINE d == rgWriteIndex - rgReadIndex
           q == d \div RgWord
<1>1. d \in Int /\ rgWriteIndex \in Int /\ rgReadIndex \in Int
  BY DEF RgTypeOK
<1>2. rgWriteIndex = rgReadIndex + d
  BY <1>1
<1>3. availableToRead = d % RgWord
  BY DEF availableToRead
<1> HIDE DEF d
<1>4. q \in Int /\ d % RgWord \in Int /\ d = RgWord * q + (d % RgWord)
  BY <1>1, DivMod, Sizes
<1> HIDE DEF q
<1> DEFINE x == rgReadIndex + availableToRead + i
<1>5. x \in Int /\ rgWriteIndex + i = x + RgWord * q
  BY <1>1, <1>2, <1>3, <1>4, Sizes
<1> HIDE DEF x
<1>6. (x + RgWord * q) % RgCapacity = x % RgCapacity
  BY <1>4, <1>5, WrapKeepsSlot
<1> QED BY <1>5, <1>6 DEF SlotOf, x

\* The queue is the run of slots from the read index on.
LEMMA QueueIs ==
  ASSUME RgTypeOK
  PROVE  /\ RgQueue \in Seq(RgSamples) /\ Len(RgQueue) = availableToRead
         /\ RgQueue = [i \in 1..availableToRead |-> rgStore[SlotOf(rgReadIndex + i - 1)]]
<1>1. availableToRead \in Nat /\ \A x \in Int : rgStore[SlotOf(x)] \in RgSamples
  BY RingTypes
<1>2. RgQueue = [i \in 1..availableToRead |-> rgStore[SlotOf(rgReadIndex + i - 1)]]
  BY DEF RgQueue, SlotOf
<1>3. \A i \in 1..availableToRead : rgReadIndex + i - 1 \in Int
  BY <1>1 DEF RgTypeOK
<1>4. RgQueue \in [1..availableToRead -> RgSamples]
  BY <1>1, <1>2, <1>3
<1>5. RgQueue \in Seq(RgSamples)
  BY <1>1, <1>4
<1>6. Len(RgQueue) = availableToRead
  BY <1>1, <1>4, <1>5
<1> QED BY <1>2, <1>5, <1>6

\* The same in the state after a step.
LEMMA NextQueueIs ==
  ASSUME RgTypeOK'
  PROVE  /\ RgQueue' \in Seq(RgSamples) /\ Len(RgQueue') = availableToRead'
         /\ RgQueue' = [i \in 1..availableToRead' |-> rgStore'[SlotOf(rgReadIndex' + i - 1)]]
<1>1. availableToRead' \in Nat /\ \A x \in Int : rgStore'[SlotOf(x)] \in RgSamples
  <2>1. \A x \in Int : SlotOf(x) \in 0..(RgCapacity - 1)
    BY DivMod, RgAssumption DEF SlotOf
  <2> DEFINE d == rgWriteIndex' - rgReadIndex'
  <2>2. d \in Int /\ RgWord \in Nat \ {0}
    BY RgAssumption DEF RgTypeOK
  <2> HIDE DEF d
  <2>3. d % RgWord \in Nat
    BY <2>2, DivMod, RgAssumption
  <2>4. availableToRead' \in Nat
    BY <2>3 DEF d, availableToRead
  <2> QED BY <2>1, <2>4 DEF RgTypeOK
<1>2. RgQueue' = [i \in 1..availableToRead' |-> rgStore'[SlotOf(rgReadIndex' + i - 1)]]
  BY DEF RgQueue, SlotOf
<1>3. \A i \in 1..availableToRead' : rgReadIndex' + i - 1 \in Int
  BY <1>1 DEF RgTypeOK
<1>4. RgQueue' \in [1..availableToRead' -> RgSamples]
  BY <1>1, <1>2, <1>3
<1>5. RgQueue' \in Seq(RgSamples)
  BY <1>1, <1>4
<1>6. Len(RgQueue') = availableToRead'
  BY <1>1, <1>4, <1>5
<1> QED BY <1>2, <1>5, <1>6

\* A call that begins has copied nothing.
LEMMA CallBegins ==
  ASSUME NEW op \in {"idle", "write", "peek", "discard"}, NEW s \in Nat, NEW n \in Nat
  PROVE  /\ RgCall(op, s, n) \in RgCalls
         /\ RgCall(op, s, n).op = op /\ RgCall(op, s, n).start = s /\ RgCall(op, s, n).count = n
         /\ RgCall(op, s, n).done = 0 /\ RgCall(op, s, n).dst = <<>>
  BY DEF RgCall, RgCalls, RgSamples

\* A call at rest.
LEMMA IdleIs == RgIdle \in RgCalls /\ RgIdle.op = "idle"
  BY CallBegins DEF RgIdle

\* A copy has come one sample further.
LEMMA CallAdvances ==
  ASSUME NEW c \in RgCalls, NEW x, x = [c EXCEPT !.done = @ + 1]
  PROVE  /\ x \in RgCalls /\ x.op = c.op /\ x.start = c.start /\ x.count = c.count
         /\ x.done = c.done + 1
  BY DEF RgCalls

-------------------------------------------------------------------------------
(* The steps: each keeps the invariant, and is a step of the queue or none.  *)

FifoStep == [Fifo!BfNext]_(Fifo!bfVars)

\* A step that leaves the samples and the indices alone leaves the queue alone.
LEMMA SameQueue ==
  ASSUME UNCHANGED <<rgStore, rgWriteIndex, rgReadIndex>>
  PROVE  availableToRead' = availableToRead /\ RgQueue' = RgQueue
  BY DEF availableToRead, RgQueue

\* write() has found room.
LEMMA WriteCallStep ==
  ASSUME RgIInv, NEW n \in 1..RgChunk, RgWriteCall(n)
  PROVE  RgIInv' /\ FifoStep
<1> USE Sizes DEF RgIInv
<1>1. UNCHANGED <<rgStore, rgWriteIndex, rgReadIndex, rgNext, rgReader, rgOut>>
      /\ availableToRead' = availableToRead /\ RgQueue' = RgQueue
  BY SameQueue DEF RgWriteCall
<1>2. availableToRead \in Nat /\ SlotOf(rgWriteIndex) \in Nat
  <2>1. rgWriteIndex \in Int
    BY DEF RgTypeOK
  <2> QED BY <2>1, RingTypes
<1>3. rgWriter' \in RgCalls /\ rgWriter'.op = "write" /\ rgWriter'.count = n /\ rgWriter'.done = 0
      /\ rgWriter'.start = SlotOf(rgWriteIndex) /\ n \in Nat
  <2>1. rgWriter' = RgCall("write", SlotOf(rgWriteIndex), n)
    BY DEF RgWriteCall, SlotOf
  <2>2. n \in Nat
    BY RgAssumption
  <2> QED BY <1>2, <2>1, <2>2, CallBegins
<1>4. availableToRead + n <= RgCapacity
  BY <1>2, <1>3 DEF RgWriteCall, availableToWrite
<1>5. RgTypeOK' /\ RgFits'
  BY <1>1, <1>3 DEF RgTypeOK, RgFits
<1>6. RgWriting'
  BY <1>1, <1>3, <1>4 DEF RgWriting
<1>7. RgLooking' /\ RgDropping'
  BY <1>1 DEF RgLooking, RgLookedFrom, RgDropping
<1>8. FifoStep
  BY <1>1 DEF FifoStep, Fifo!bfVars
<1> QED BY <1>5, <1>6, <1>7, <1>8

\* One sample of write(): it goes to a slot that nobody may read.
LEMMA WriteCopyStep ==
  ASSUME RgIInv, RgWriteCopy
  PROVE  RgIInv' /\ FifoStep
<1> USE Sizes DEF RgIInv
<1> DEFINE d == rgWriter.done
           v == (rgNext + d) % RgTags
           here == SlotOf(rgWriteIndex + d)
<1>1. /\ rgWriter.op = "write" /\ d < rgWriter.count
      /\ rgStore' = [rgStore EXCEPT ![RgSlot(rgWriter.start, d)] = v]
      /\ rgWriter' = [rgWriter EXCEPT !.done = @ + 1]
      /\ UNCHANGED <<rgWriteIndex, rgReadIndex, rgNext, rgReader, rgOut>>
  BY DEF RgWriteCopy
<1>2. /\ availableToRead \in Nat /\ d \in Nat /\ rgWriter.count \in Nat
      /\ rgWriteIndex \in Nat /\ rgReadIndex \in Nat /\ rgNext \in Nat
      /\ \A x \in Int : SlotOf(x) \in 0..(RgCapacity - 1)
  BY RingTypes DEF RgTypeOK, RgCalls
<1>3. /\ rgWriter.start = SlotOf(rgWriteIndex) /\ availableToRead + rgWriter.count <= RgCapacity
      /\ \A i \in Nat : i < d => rgStore[SlotOf(rgWriteIndex + i)] = (rgNext + i) % RgTags
  BY <1>1 DEF RgWriting
<1>4. v \in RgSamples
  <2>1. rgNext + d \in Int
    BY <1>2
  <2> QED BY <2>1, DivMod DEF RgSamples
<1>5. RgSlot(rgWriter.start, d) = here
  BY <1>1, <1>2, <1>3, Slots
<1> HIDE DEF v
<1>6. rgStore' = [rgStore EXCEPT ![here] = v] /\ here \in 0..(RgCapacity - 1)
  BY <1>1, <1>2, <1>5
<1>7. /\ rgWriter' \in RgCalls /\ rgWriter'.op = "write" /\ rgWriter'.done = d + 1
      /\ rgWriter'.count = rgWriter.count /\ rgWriter'.start = rgWriter.start
  BY <1>1, CallAdvances DEF RgTypeOK
<1>8. availableToRead' = availableToRead
  BY <1>1 DEF availableToRead
<1>9. RgTypeOK' /\ RgFits' /\ RgDropping'
  BY <1>1, <1>4, <1>6, <1>7, <1>8 DEF RgTypeOK, RgFits, RgDropping
\* The slot written is none of those that are available ...
<1>10. ASSUME NEW j \in Nat, j < availableToRead PROVE SlotOf(rgReadIndex + j) # here
  <2>1. here = SlotOf(rgReadIndex + availableToRead + d)
    <3>1. RgTypeOK /\ d \in Int
      BY <1>2
    <3> HIDE DEF d
    <3> QED BY <3>1, WriteSlot
  <2> DEFINE x == rgReadIndex + j
             y == rgReadIndex + availableToRead + d
  <2>2. x \in Int /\ y \in Int /\ x < y /\ y - x < RgCapacity
    BY <1>1, <1>2, <1>3, <1>10
  <2> HIDE DEF x, y
  <2>3. SlotOf(x) # SlotOf(y)
    BY <2>2, Slots
  <2> HIDE DEF here
  <2> QED BY <2>1, <2>3 DEF x, y
\* ... and none of those the block has filled already.
<1>11. ASSUME NEW j \in Nat, j < d PROVE SlotOf(rgWriteIndex + j) # here
  <2> DEFINE x == rgWriteIndex + j
             y == rgWriteIndex + d
  <2>1. x \in Int /\ y \in Int /\ x < y /\ y - x < RgCapacity
    BY <1>1, <1>2, <1>3, <1>11
  <2> HIDE DEF x, y
  <2>2. SlotOf(x) # SlotOf(y)
    BY <2>1, Slots
  <2> QED BY <2>2 DEF x, y
<1>12. \A j \in Nat : j < availableToRead =>
         rgStore'[SlotOf(rgReadIndex + j)] = rgStore[SlotOf(rgReadIndex + j)]
  <2> TAKE j \in Nat
  <2> HAVE j < availableToRead
  <2>1. SlotOf(rgReadIndex + j) \in 0..(RgCapacity - 1) /\ SlotOf(rgReadIndex + j) # here
    BY <1>2, <1>10
  <2> HIDE DEF here
  <2> QED BY <1>6, <2>1 DEF RgTypeOK
<1>13. RgWriting'
  <2>1. ASSUME NEW i \in Nat, i < d + 1
        PROVE  rgStore'[SlotOf(rgWriteIndex + i)] = (rgNext + i) % RgTags
    <3>1. CASE i = d
      BY <1>6, <3>1 DEF RgTypeOK, v
    <3>2. CASE i < d
      <4>1. SlotOf(rgWriteIndex + i) \in 0..(RgCapacity - 1) /\ SlotOf(rgWriteIndex + i) # here
        BY <1>2, <1>11, <3>2
      <4>2. rgStore'[SlotOf(rgWriteIndex + i)] = rgStore[SlotOf(rgWriteIndex + i)]
        BY <1>6, <4>1 DEF RgTypeOK
      <4> QED BY <1>3, <3>2, <4>2
    <3> QED BY <1>2, <2>1, <3>1, <3>2
  <2> QED BY <1>1, <1>2, <1>3, <1>7, <1>8, <2>1 DEF RgWriting
<1>14. RgLooking'
  <2> SUFFICES ASSUME rgReader.op = "peek" PROVE \E offset \in Nat : RgLookedFrom(offset)'
    BY <1>1 DEF RgLooking
  <2>1. PICK offset \in Nat : RgLookedFrom(offset)
    BY DEF RgLooking
  <2>2. ASSUME NEW i \in 1..rgReader.done
        PROVE  rgReader.dst[i] = rgStore'[SlotOf(rgReadIndex + offset + i - 1)]
    <3> DEFINE j == offset + i - 1
    <3>1. j \in Nat /\ j < availableToRead /\ rgReadIndex + offset + i - 1 = rgReadIndex + j
      BY <1>2, <2>1, SMTT(30) DEF RgLookedFrom, RgTypeOK, RgCalls
    <3>2. rgReader.dst[i] = rgStore[SlotOf(rgReadIndex + j)]
      BY <2>1, <3>1 DEF RgLookedFrom
    <3> HIDE DEF j
    <3> QED BY <1>12, <3>1, <3>2
  <2>3. RgLookedFrom(offset)'
    BY <1>1, <1>8, <2>1, <2>2 DEF RgLookedFrom
  <2> QED BY <2>3
<1>15. RgQueue' = RgQueue
  <2>1. RgQueue = [i \in 1..availableToRead |-> rgStore[SlotOf(rgReadIndex + i - 1)]]
    BY QueueIs
  <2>2. RgQueue' = [i \in 1..availableToRead |-> rgStore'[SlotOf(rgReadIndex + i - 1)]]
    BY <1>1, <1>8, <1>9, NextQueueIs
  <2>3. \A i \in 1..availableToRead :
          rgStore'[SlotOf(rgReadIndex + i - 1)] = rgStore[SlotOf(rgReadIndex + i - 1)]
    <3> TAKE i \in 1..availableToRead
    <3> DEFINE j == i - 1
    <3>1. j \in Nat /\ j < availableToRead /\ rgReadIndex + i - 1 = rgReadIndex + j
      BY <1>2
    <3> HIDE DEF j
    <3> QED BY <1>12, <3>1
  <2> QED BY <2>1, <2>2, <2>3
<1>16. FifoStep
  BY <1>1, <1>15 DEF FifoStep, Fifo!bfVars
<1> QED BY <1>9, <1>13, <1>14, <1>16

\* The write index moves: the block appears whole at the end of the queue.
LEMMA WritePublishStep ==
  ASSUME RgIInv, RgWritePublish
  PROVE  RgIInv' /\ FifoStep
<1> USE Sizes DEF RgIInv
<1> DEFINE n == rgWriter.count
           a == availableToRead
<1>1. /\ rgWriter.op = "write" /\ rgWriter.done = n
      /\ rgWriteIndex' = (rgWriteIndex + n) % RgWord /\ rgNext' = (rgNext + n) % RgTags
      /\ rgWriter' = RgIdle
      /\ UNCHANGED <<rgStore, rgReadIndex, rgReader, rgOut>>
  BY DEF RgWritePublish
<1>2. /\ a \in Nat /\ n \in Nat /\ rgWriteIndex \in Int /\ rgReadIndex \in Int /\ rgNext \in Int
      /\ n > 0 /\ a + n <= RgCapacity
      /\ \A i \in Nat : i < n => rgStore[SlotOf(rgWriteIndex + i)] = (rgNext + i) % RgTags
  BY <1>1, RingTypes, SMTT(30) DEF RgTypeOK, RgCalls, RgWriting
<1>3. availableToRead' = a + n
  <2>1. a = (rgWriteIndex - rgReadIndex) % RgWord
    BY DEF availableToRead
  <2>2. availableToRead' = (((rgWriteIndex + n) % RgWord) - rgReadIndex) % RgWord
    BY <1>1 DEF availableToRead
  <2>3. a + n < RgWord
    BY <1>2
  <2> HIDE DEF n, a
  <2> QED BY <1>2, <2>1, <2>2, <2>3, WriteMovesAvailable
<1>4. RgTypeOK'
  <2> HIDE DEF n
  <2>1. rgWriteIndex + n \in Int /\ rgNext + n \in Int
    BY <1>2
  <2> DEFINE x == rgWriteIndex + n
             y == rgNext + n
  <2>2. x \in Int /\ y \in Int /\ rgWriteIndex' = x % RgWord /\ rgNext' = y % RgTags
    BY <1>1, <2>1
  <2> HIDE DEF x, y
  <2>3. x % RgWord \in Nat
    BY <2>2, ModNat
  <2>4. y % RgTags \in Nat
    BY <2>2, ModNat
  <2> QED BY <1>1, <2>2, <2>3, <2>4, IdleIs DEF RgTypeOK
<1>5. RgFits' /\ RgWriting' /\ RgDropping'
  <2>1. rgReader.count \in Nat
    BY DEF RgTypeOK, RgCalls
  <2> QED BY <1>1, <1>2, <1>3, <2>1, IdleIs DEF RgFits, RgWriting, RgDropping
<1>6. RgLooking'
  <2> SUFFICES ASSUME rgReader.op = "peek" PROVE \E offset \in Nat : RgLookedFrom(offset)'
    BY <1>1 DEF RgLooking
  <2>1. PICK offset \in Nat : RgLookedFrom(offset)
    BY DEF RgLooking
  <2>2. rgReader.count \in Nat
    BY DEF RgTypeOK, RgCalls
  <2>3. offset + rgReader.count <= availableToRead'
    BY <1>2, <1>3, <2>1, <2>2 DEF RgLookedFrom
  <2>4. RgLookedFrom(offset)'
    BY <1>1, <2>1, <2>3 DEF RgLookedFrom
  <2> QED BY <2>4
<1> DEFINE b == Fifo!BfBlock(n)
<1>7. b \in Seq(RgSamples) /\ Len(b) = n /\ \A i \in 1..n : b[i] = (rgNext + i - 1) % RgTags
  <2> HIDE DEF n
  <2>1. b = [i \in 1..n |-> (rgNext + i - 1) % RgTags]
    BY DEF Fifo!BfBlock
  <2>2. \A i \in 1..n : (rgNext + i - 1) % RgTags \in RgSamples
    <3> TAKE i \in 1..n
    <3> DEFINE x == rgNext + i - 1
    <3>1. x \in Int
      BY <1>2
    <3> HIDE DEF x
    <3>2. x % RgTags \in Nat
      BY <3>1, ModNat
    <3> QED BY <3>2 DEF RgSamples, x
  <2>3. b \in [1..n -> RgSamples]
    BY <2>1, <2>2
  <2> HIDE DEF b
  <2>4. b \in Seq(RgSamples) /\ Len(b) = n
    BY <1>2, <2>3
  <2> QED BY <2>1, <2>4
<1>8. RgQueue' = RgQueue \o b
  <2>1. /\ RgQueue \in Seq(RgSamples) /\ Len(RgQueue) = a
        /\ RgQueue = [i \in 1..a |-> rgStore[SlotOf(rgReadIndex + i - 1)]]
    BY QueueIs
  <2>2. /\ RgQueue' \in Seq(RgSamples) /\ Len(RgQueue') = a + n
        /\ RgQueue' = [i \in 1..(a + n) |-> rgStore[SlotOf(rgReadIndex + i - 1)]]
    BY <1>1, <1>3, <1>4, NextQueueIs
  <2> HIDE DEF a, n, b
  <2>3. /\ RgQueue \o b \in Seq(RgSamples) /\ Len(RgQueue \o b) = a + n
        /\ \A i \in 1..(a + n) : (RgQueue \o b)[i] = IF i <= a THEN RgQueue[i] ELSE b[i - a]
    BY <1>7, <2>1, ConcatProperties, ZenonT(40)
  <2>4. ASSUME NEW i \in 1..(a + n) PROVE RgQueue'[i] = (RgQueue \o b)[i]
    <3>1. RgQueue'[i] = rgStore[SlotOf(rgReadIndex + i - 1)]
      BY <2>2
    <3>2. CASE i <= a
      <4>1. i \in 1..a
        BY <1>2, <3>2
      <4> QED BY <2>1, <2>3, <3>1, <3>2, <4>1
    <3>3. CASE ~(i <= a)
      <4> DEFINE j == i - a - 1
      <4>1. j \in Nat /\ j < n /\ i - a \in 1..n /\ rgReadIndex + i - 1 = rgReadIndex + a + j
            /\ rgNext + (i - a) - 1 = rgNext + j
        BY <1>2, <3>3
      <4> HIDE DEF j
      <4>2. SlotOf(rgWriteIndex + j) = SlotOf(rgReadIndex + a + j)
        <5>1. RgTypeOK /\ j \in Int
          BY <4>1
        <5> QED BY <5>1, WriteSlot DEF a
      <4>3. rgStore[SlotOf(rgWriteIndex + j)] = (rgNext + j) % RgTags
        BY <1>2, <4>1
      <4>4. b[i - a] = (rgNext + j) % RgTags
        BY <1>7, <4>1
      <4>5. (RgQueue \o b)[i] = b[i - a]
        BY <2>3, <3>3
      <4> QED BY <3>1, <4>1, <4>2, <4>3, <4>4, <4>5
    <3> QED BY <3>2, <3>3
  <2> QED BY <2>2, <2>3, <2>4, SeqEqual
<1>9. Fifo!BfWrite
  <2>1. n \in 1..(RgCapacity - Len(RgQueue))
    <3>1. Len(RgQueue) = a
      BY QueueIs
    <3> HIDE DEF n, a
    <3> QED BY <1>2, <3>1
  <2>2. RgQueue' = RgQueue \o Fifo!BfBlock(n) /\ rgNext' = (rgNext + n) % RgTags /\ UNCHANGED rgOut
    BY <1>1, <1>8
  <2> HIDE DEF n
  <2> QED BY <2>1, <2>2 DEF Fifo!BfWrite
<1>10. FifoStep
  BY <1>9 DEF FifoStep, Fifo!BfNext
<1> QED BY <1>4, <1>5, <1>6, <1>10

\* A call of the consumer that begins forgets what the last look returned.
LEMMA LookAtNothing ==
  ASSUME RgTypeOK, rgOut' = <<>>, RgQueue' = RgQueue, rgNext' = rgNext
  PROVE  FifoStep
<1>1. Len(RgQueue) \in Nat
  BY QueueIs, RingTypes
<1>2. SubSeq(RgQueue, 0 + 1, 0) = <<>>
  BY SubSeqEmpty
<1>3. 0 \in 0..Len(RgQueue)
  BY <1>1
<1>4. Fifo!BfPeek
  BY <1>2, <1>3 DEF Fifo!BfPeek
<1> QED BY <1>4 DEF FifoStep, Fifo!BfNext

\* peek() has taken its length from the indices it loaded.
LEMMA PeekCallStep ==
  ASSUME RgIInv, NEW size \in 1..RgChunk, NEW offset \in 0..(RgCapacity - 1),
         RgPeekCall(size, offset)
  PROVE  RgIInv' /\ FifoStep
<1> USE Sizes DEF RgIInv
<1> DEFINE a == availableToRead
           n == IF size < a - offset THEN size ELSE a - offset
<1>1. /\ UNCHANGED <<rgStore, rgWriteIndex, rgReadIndex, rgNext, rgWriter>> /\ rgOut' = <<>>
      /\ offset < a /\ rgReader' = RgCall("peek", SlotOf(rgReadIndex + offset), n)
  BY DEF RgPeekCall, SlotOf
<1>2. availableToRead' = a /\ RgQueue' = RgQueue
  BY <1>1, SameQueue
<1>3. a \in Nat /\ offset \in Nat /\ size \in Nat /\ rgReadIndex \in Nat
      /\ SlotOf(rgReadIndex + offset) \in Nat
  <2>1. a \in Nat /\ offset \in Nat /\ size \in Nat /\ rgReadIndex \in Nat
    BY RingTypes, RgAssumption DEF RgTypeOK
  <2>2. rgReadIndex + offset \in Int
    BY <2>1
  <2> QED BY <2>1, <2>2, RingTypes
<1>4. n \in Nat /\ offset + n <= a
  BY <1>1, <1>3
<1> HIDE DEF n, a
<1>5. /\ rgReader' \in RgCalls /\ rgReader'.op = "peek" /\ rgReader'.count = n
      /\ rgReader'.done = 0 /\ rgReader'.dst = <<>>
      /\ rgReader'.start = SlotOf(rgReadIndex + offset)
  BY <1>1, <1>3, <1>4, CallBegins
<1>6. RgTypeOK' /\ RgFits' /\ RgWriting' /\ RgDropping'
  BY <1>1, <1>2, <1>5 DEF RgTypeOK, RgFits, RgWriting, RgDropping, a
<1>7. RgLookedFrom(offset)'
  BY <1>1, <1>2, <1>4, <1>5 DEF RgLookedFrom
<1>8. RgLooking'
  BY <1>3, <1>7 DEF RgLooking
<1>9. FifoStep
  BY <1>1, <1>2, LookAtNothing
<1> QED BY <1>6, <1>8, <1>9

\* One sample of peek(): it comes from a slot that is available.
LEMMA PeekCopyStep ==
  ASSUME RgIInv, RgPeekCopy
  PROVE  RgIInv' /\ FifoStep
<1> USE Sizes DEF RgIInv
<1> DEFINE d == rgReader.done
           v == rgStore[RgSlot(rgReader.start, d)]
<1>1. /\ rgReader.op = "peek" /\ d < rgReader.count
      /\ rgReader' = [rgReader EXCEPT !.done = @ + 1, !.dst = Append(@, v)]
      /\ UNCHANGED <<rgStore, rgWriteIndex, rgReadIndex, rgNext, rgWriter, rgOut>>
  BY DEF RgPeekCopy
<1>2. availableToRead' = availableToRead /\ RgQueue' = RgQueue
  BY <1>1, SameQueue
<1>3. PICK offset \in Nat : RgLookedFrom(offset)
  BY <1>1 DEF RgLooking
<1>4. /\ availableToRead \in Nat /\ d \in Nat /\ rgReader.count \in Nat /\ rgReadIndex \in Nat
      /\ rgReader.start \in Nat /\ rgReader.dst \in Seq(RgSamples)
      /\ availableToRead <= RgCapacity /\ offset + rgReader.count <= availableToRead
      /\ rgReader.start = SlotOf(rgReadIndex + offset) /\ Len(rgReader.dst) = d
  BY <1>3, RingTypes DEF RgTypeOK, RgCalls, RgLookedFrom, RgFits
<1> DEFINE x == rgReadIndex + offset
<1>5. v = rgStore[SlotOf(rgReadIndex + offset + d)] /\ v \in RgSamples
  <2>1. x \in Int /\ x + d \in Int /\ d < RgCapacity /\ rgReader.start = SlotOf(x)
        /\ rgReadIndex + offset + d = x + d
    BY <1>1, <1>4, SMTT(30)
  <2> HIDE DEF x, d
  <2>2. RgSlot(SlotOf(x), d) = SlotOf(x + d)
    BY <1>4, <2>1, Slots
  <2>3. rgStore[SlotOf(x + d)] \in RgSamples
    BY <2>1, RingTypes
  <2> QED BY <2>1, <2>2, <2>3
<1> HIDE DEF v
<1> DEFINE dst == Append(rgReader.dst, v)
<1>6. /\ dst \in Seq(RgSamples) /\ Len(dst) = d + 1
      /\ \A i \in 1..d : dst[i] = rgReader.dst[i]
      /\ dst[d + 1] = v
  BY <1>4, <1>5, AppendProperties, SMTT(30)
<1> HIDE DEF dst
<1>7. /\ rgReader' \in RgCalls /\ rgReader'.op = "peek" /\ rgReader'.start = rgReader.start
      /\ rgReader'.count = rgReader.count /\ rgReader'.done = d + 1 /\ rgReader'.dst = dst
  <2>1. rgReader = [f \in RgFields |-> rgReader[f]]
    BY DEF RgTypeOK, RgCalls, RgFields
  <2>2. rgReader' = [op |-> "peek", start |-> rgReader.start, count |-> rgReader.count,
                     done |-> d + 1, dst |-> dst]
    BY <1>1, <2>1, Zenon DEF RgFields, dst
  <2>3. d + 1 \in Nat
    BY <1>4
  <2> HIDE DEF d
  <2> QED BY <1>4, <1>6, <2>2, <2>3 DEF RgCalls
<1>8. RgTypeOK' /\ RgFits' /\ RgWriting' /\ RgDropping'
  BY <1>1, <1>2, <1>7 DEF RgTypeOK, RgFits, RgWriting, RgDropping
<1>9. \A i \in 1..(d + 1) : dst[i] = rgStore[SlotOf(rgReadIndex + offset + i - 1)]
  <2> TAKE i \in 1..(d + 1)
  <2>1. CASE i = d + 1
    <3>1. rgReadIndex + offset + i - 1 = rgReadIndex + offset + d
      BY <1>4, <2>1
    <3> QED BY <1>5, <1>6, <2>1, <3>1
  <2>2. CASE i # d + 1
    <3>1. i \in 1..d
      BY <1>4, <2>2
    <3> QED BY <1>3, <1>6, <3>1 DEF RgLookedFrom
  <2> QED BY <2>1, <2>2
<1>10. RgLookedFrom(offset)'
  <2>1. d + 1 <= rgReader.count
    BY <1>1, <1>4, SMTT(30)
  <2> QED BY <1>1, <1>2, <1>3, <1>4, <1>6, <1>7, <1>9, <2>1 DEF RgLookedFrom
<1>11. RgLooking'
  BY <1>10 DEF RgLooking
<1>12. FifoStep
  BY <1>1, <1>2 DEF FifoStep, Fifo!bfVars
<1> QED BY <1>8, <1>11, <1>12

\* peek() returns: what it copied is a run of the queue as it is now.
LEMMA PeekReturnStep ==
  ASSUME RgIInv, RgPeekReturn
  PROVE  RgIInv' /\ FifoStep
<1> USE Sizes DEF RgIInv
<1> DEFINE n == rgReader.count
           a == availableToRead
           dst == rgReader.dst
<1>1. /\ rgReader.op = "peek" /\ rgReader.done = n /\ rgOut' = dst /\ rgReader' = RgIdle
      /\ UNCHANGED <<rgStore, rgWriteIndex, rgReadIndex, rgNext, rgWriter>>
  BY DEF RgPeekReturn
<1>2. availableToRead' = a /\ RgQueue' = RgQueue
  BY <1>1, SameQueue
<1>3. RgIInv'
  BY <1>1, <1>2, IdleIs DEF RgTypeOK, RgFits, RgWriting, RgLooking, RgDropping
<1>4. PICK offset \in Nat : RgLookedFrom(offset)
  BY <1>1 DEF RgLooking
<1>5. /\ a \in Nat /\ n \in Nat /\ rgReadIndex \in Nat /\ dst \in Seq(RgSamples)
      /\ offset + n <= a /\ Len(dst) = n
      /\ \A i \in 1..n : dst[i] = rgStore[SlotOf(rgReadIndex + offset + i - 1)]
  BY <1>1, <1>4, RingTypes DEF RgTypeOK, RgCalls, RgLookedFrom
<1>6. /\ RgQueue \in Seq(RgSamples) /\ Len(RgQueue) = a
      /\ RgQueue = [i \in 1..a |-> rgStore[SlotOf(rgReadIndex + i - 1)]]
  BY QueueIs
<1> HIDE DEF a, n, dst
<1> DEFINE lo == offset + 1
           hi == offset + n
           s == SubSeq(RgQueue, lo, hi)
<1>7. s \in Seq(RgSamples) /\ Len(s) = n /\ \A i \in 1..n : s[i] = RgQueue[offset + i]
  <2>1. lo \in Int /\ hi \in Int /\ \A i \in lo..hi : RgQueue[i] \in RgSamples
    <3>1. lo \in Int /\ hi \in Int /\ \A i \in lo..hi : i \in 1..a
      BY <1>5
    <3>2. \A i \in 1..a : RgQueue[i] \in RgSamples
      <4>1. RgQueue \in Seq(RgSamples) /\ Len(RgQueue) = a
        BY <1>6
      <4> QED BY <4>1, LenProperties
    <3> HIDE DEF lo, hi
    <3> QED BY <3>1, <3>2
  <2>2. hi - lo + 1 = n /\ (lo <= hi <=> n > 0) /\ \A i \in 1..n : lo + i - 1 = offset + i
    BY <1>5
  <2> HIDE DEF lo, hi
  <2>3. /\ s \in Seq(RgSamples) /\ Len(s) = IF lo <= hi THEN hi - lo + 1 ELSE 0
        /\ \A i \in 1..(hi - lo + 1) : s[i] = RgQueue[lo + i - 1]
    BY <2>1, SubSeqProperties
  <2> HIDE DEF s
  <2> QED BY <1>5, <2>2, <2>3
<1>8. dst = s
  <2>1. ASSUME NEW i \in 1..n PROVE dst[i] = s[i]
    <3>1. offset + i \in 1..a /\ rgReadIndex + (offset + i) - 1 = rgReadIndex + offset + i - 1
      BY <1>5
    <3>2. RgQueue[offset + i] = rgStore[SlotOf(rgReadIndex + (offset + i) - 1)]
      BY <1>6, <3>1
    <3> HIDE DEF s
    <3> QED BY <1>5, <1>7, <3>1, <3>2
  <2> HIDE DEF s
  <2> QED BY <1>5, <1>7, <2>1, SeqEqual
<1>9. Fifo!BfPeek
  <2>1. offset \in 0..Len(RgQueue) /\ hi \in offset..Len(RgQueue)
    BY <1>5, <1>6
  <2>2. rgOut' = SubSeq(RgQueue, offset + 1, hi) /\ UNCHANGED <<RgQueue, rgNext>>
    BY <1>1, <1>2, <1>8
  <2> HIDE DEF hi
  <2> QED BY <2>1, <2>2 DEF Fifo!BfPeek
<1> QED BY <1>3, <1>9 DEF FifoStep, Fifo!BfNext

\* discard() has loaded the indices.
LEMMA DiscardLoadStep ==
  ASSUME RgIInv, NEW n \in 1..RgChunk, RgDiscardLoad(n)
  PROVE  RgIInv' /\ FifoStep
<1> USE Sizes DEF RgIInv
<1> DEFINE a == availableToRead
           c == IF n < a THEN n ELSE a
<1>1. /\ UNCHANGED <<rgStore, rgWriteIndex, rgReadIndex, rgNext, rgWriter>> /\ rgOut' = <<>>
      /\ rgReader' = RgCall("discard", 0, c)
  BY DEF RgDiscardLoad
<1>2. availableToRead' = a /\ RgQueue' = RgQueue
  BY <1>1, SameQueue
<1>3. c \in Nat /\ c <= a
  <2>1. a \in Nat /\ n \in Nat
    BY RingTypes, RgAssumption
  <2> QED BY <2>1
<1> HIDE DEF c
<1>4. rgReader' \in RgCalls /\ rgReader'.op = "discard" /\ rgReader'.count = c
  BY <1>1, <1>3, CallBegins
<1>5. RgIInv'
  BY <1>1, <1>2, <1>3, <1>4 DEF RgTypeOK, RgFits, RgWriting, RgLooking, RgDropping
<1>6. FifoStep
  BY <1>1, <1>2, LookAtNothing
<1> QED BY <1>5, <1>6

\* The read index moves: the samples leave the front of the queue.
LEMMA DiscardStoreStep ==
  ASSUME RgIInv, RgDiscardStore
  PROVE  RgIInv' /\ FifoStep
<1> USE Sizes DEF RgIInv
<1> DEFINE n == rgReader.count
           a == availableToRead
           r == rgReadIndex
<1>1. /\ rgReader.op = "discard" /\ rgReadIndex' = (r + n) % RgWord /\ rgReader' = RgIdle
      /\ UNCHANGED <<rgStore, rgWriteIndex, rgNext, rgWriter, rgOut>>
  BY DEF RgDiscardStore
<1>2. a \in Nat /\ n \in Nat /\ rgWriteIndex \in Int /\ r \in Int /\ n <= a /\ r + n \in Int
  <2>1. a \in Nat /\ n \in Nat /\ rgWriteIndex \in Int /\ r \in Int
    BY RingTypes DEF RgTypeOK, RgCalls
  <2>2. n <= a
    BY <1>1 DEF RgDropping
  <2> QED BY <2>1, <2>2
<1>3. availableToRead' = a - n
  <2>1. a = (rgWriteIndex - r) % RgWord
    BY DEF availableToRead
  <2>2. availableToRead' = (rgWriteIndex - ((r + n) % RgWord)) % RgWord
    <3>1. rgWriteIndex' = rgWriteIndex /\ rgReadIndex' = (r + n) % RgWord
      BY <1>1
    <3>2. availableToRead' = (rgWriteIndex' - rgReadIndex') % RgWord
      BY DEF availableToRead
    <3> QED BY <3>1, <3>2, Zenon
  <2> HIDE DEF n, a, r
  <2> QED BY <1>2, <2>1, <2>2, DiscardMovesAvailable, ZenonT(40)
<1>4. \A i \in Int : SlotOf(rgReadIndex' + i) = SlotOf(r + n + i)
  <2> TAKE i \in Int
  <2> DEFINE x == r + n
  <2>1. x \in Int /\ rgReadIndex' = x % RgWord
    BY <1>1, <1>2
  <2> HIDE DEF x
  <2>2. ((x % RgWord) + i) % RgCapacity = (x + i) % RgCapacity
    BY <2>1, ReadSlot
  <2> QED BY <2>1, <2>2 DEF SlotOf, x
<1>5. RgTypeOK'
  <2> DEFINE x == r + n
  <2>1. x \in Int /\ rgReadIndex' = x % RgWord
    BY <1>1, <1>2
  <2> HIDE DEF x
  <2>2. x % RgWord \in Nat
    BY <2>1, ModNat
  <2> QED BY <1>1, <2>1, <2>2, IdleIs DEF RgTypeOK
<1>6. RgFits' /\ RgLooking' /\ RgDropping'
  BY <1>1, <1>2, <1>3, IdleIs DEF RgFits, RgLooking, RgDropping
<1>7. RgWriting'
  <2>1. rgWriter.count \in Nat
    BY DEF RgTypeOK, RgCalls
  <2>2. rgWriter.op = "write" => availableToRead' + rgWriter.count <= RgCapacity
    BY <1>2, <1>3, <2>1 DEF RgWriting
  <2> QED BY <1>1, <2>2 DEF RgWriting
<1>8. RgQueue' = SubSeq(RgQueue, n + 1, a)
  <2> HIDE DEF n
  <2>1. /\ RgQueue \in Seq(RgSamples) /\ Len(RgQueue) = a
        /\ RgQueue = [i \in 1..a |-> rgStore[SlotOf(r + i - 1)]]
    BY QueueIs
  <2>2. /\ RgQueue' \in Seq(RgSamples) /\ Len(RgQueue') = a - n
        /\ RgQueue' = [i \in 1..(a - n) |-> rgStore[SlotOf(rgReadIndex' + i - 1)]]
    BY <1>1, <1>3, <1>5, NextQueueIs
  <2> DEFINE lo == n + 1
             s == SubSeq(RgQueue, lo, a)
  <2> HIDE DEF a
  <2>3. s \in Seq(RgSamples) /\ Len(s) = a - n /\ \A i \in 1..(a - n) : s[i] = RgQueue[n + i]
    <3>1. lo \in Int /\ a \in Int /\ \A i \in lo..a : RgQueue[i] \in RgSamples
      <4>1. lo \in Int /\ a \in Int /\ \A i \in lo..a : i \in 1..a
        BY <1>2
      <4>2. \A i \in 1..a : RgQueue[i] \in RgSamples
        <5>1. RgQueue \in Seq(RgSamples) /\ Len(RgQueue) = a
          BY <2>1
        <5> QED BY <5>1, LenProperties
      <4> HIDE DEF lo
      <4> QED BY <4>1, <4>2
    <3>2. a - lo + 1 = a - n /\ (lo <= a <=> a - n > 0) /\ \A i \in 1..(a - n) : lo + i - 1 = n + i
      BY <1>2
    <3> HIDE DEF lo
    <3>3. /\ s \in Seq(RgSamples) /\ Len(s) = IF lo <= a THEN a - lo + 1 ELSE 0
          /\ \A i \in 1..(a - lo + 1) : s[i] = RgQueue[lo + i - 1]
      BY <3>1, SubSeqProperties
    <3> HIDE DEF s
    <3> QED BY <1>2, <3>2, <3>3
  <2>4. ASSUME NEW i \in 1..(a - n) PROVE RgQueue'[i] = s[i]
    <3> DEFINE j == i - 1
    <3>1. j \in Int /\ n + i \in 1..a /\ r + (n + i) - 1 = r + n + j
      BY <1>2
    <3>2. RgQueue'[i] = rgStore[SlotOf(rgReadIndex' + j)]
      <4>1. rgReadIndex' + i - 1 = rgReadIndex' + j
        BY <1>5 DEF RgTypeOK
      <4> QED BY <2>2, <4>1
    <3>3. RgQueue[n + i] = rgStore[SlotOf(r + (n + i) - 1)]
      BY <2>1, <3>1
    <3> HIDE DEF s, j
    <3> QED BY <1>4, <2>3, <3>1, <3>2, <3>3
  <2> HIDE DEF s
  <2>5. RgQueue' = s
    BY <2>2, <2>3, <2>4, SeqEqual
  <2> QED BY <2>5 DEF s
<1>9. FifoStep
  <2>1. Len(RgQueue) = a /\ RgQueue \in Seq(RgSamples)
    BY QueueIs
  <2>2. CASE n = 0
    <3>1. SubSeq(RgQueue, 1, Len(RgQueue)) = RgQueue
      BY <2>1
    <3> QED BY <1>1, <1>8, <2>1, <2>2, <3>1 DEF FifoStep, Fifo!bfVars
  <2>3. CASE n # 0
    <3>1. n \in 1..Len(RgQueue) /\ RgQueue' = SubSeq(RgQueue, n + 1, Len(RgQueue))
          /\ UNCHANGED <<rgNext, rgOut>>
      BY <1>1, <1>2, <1>8, <2>1, <2>3
    <3> HIDE DEF n
    <3>2. Fifo!BfDiscard
      BY <3>1 DEF Fifo!BfDiscard
    <3> QED BY <3>2 DEF FifoStep, Fifo!BfNext
  <2> QED BY <2>2, <2>3
<1> QED BY <1>5, <1>6, <1>7, <1>9

\* With both indices at 0 the queue is empty.
LEMMA EmptyQueue ==
  /\ rgWriteIndex = 0 /\ rgReadIndex = 0 => availableToRead = 0 /\ RgQueue = <<>>
  /\ rgWriteIndex' = 0 /\ rgReadIndex' = 0 => availableToRead' = 0 /\ RgQueue' = <<>>
<1>1. (0 - 0) % RgWord = 0
  <2>1. 0 - 0 = RgWord * 0 + 0 /\ 0 \in 0..(RgWord - 1) /\ 0 - 0 \in Int
    BY Sizes
  <2> QED BY <2>1, ModIs, Sizes
<1>2. ASSUME rgWriteIndex = 0, rgReadIndex = 0 PROVE availableToRead = 0 /\ RgQueue = <<>>
  <2>1. availableToRead = 0
    BY <1>1, <1>2 DEF availableToRead
  <2> QED BY <2>1 DEF RgQueue
<1>3. ASSUME rgWriteIndex' = 0, rgReadIndex' = 0 PROVE availableToRead' = 0 /\ RgQueue' = <<>>
  <2>1. availableToRead' = 0
    BY <1>1, <1>3 DEF availableToRead
  <2> QED BY <2>1 DEF RgQueue
<1> QED BY <1>2, <1>3

\* reset(), with nobody in a call.
LEMMA ResetStep ==
  ASSUME RgIInv, RgReset
  PROVE  RgIInv' /\ FifoStep
<1> USE Sizes DEF RgIInv
<1>1. /\ rgWriter.op = "idle" /\ rgReader.op = "idle" /\ rgReadIndex' = 0 /\ rgWriteIndex' = 0
      /\ UNCHANGED <<rgStore, rgNext, rgWriter, rgReader, rgOut>>
  BY DEF RgReset
<1>2. availableToRead' = 0 /\ RgQueue' = <<>>
  BY <1>1, EmptyQueue
<1>3. RgIInv'
  BY <1>1, <1>2 DEF RgTypeOK, RgFits, RgWriting, RgLooking, RgDropping
<1>4. Fifo!BfReset
  BY <1>1, <1>2 DEF Fifo!BfReset
<1> QED BY <1>3, <1>4 DEF FifoStep, Fifo!BfNext

-------------------------------------------------------------------------------
(* The theorem.                                                            *)

\* RingBuffer(minCapacity): an empty queue.
LEMMA RingBegins == RgInit => RgIInv /\ Fifo!BfInit
<1> SUFFICES ASSUME RgInit PROVE RgIInv /\ Fifo!BfInit
  OBVIOUS
<1>1. availableToRead = 0 /\ RgQueue = <<>>
  BY EmptyQueue DEF RgInit
<1>2. RgTypeOK
  BY Sizes, IdleIs DEF RgInit, RgTypeOK, RgSamples
<1>3. RgFits /\ RgWriting /\ RgLooking /\ RgDropping
  BY <1>1, Sizes, IdleIs DEF RgInit, RgFits, RgWriting, RgLooking, RgDropping
<1>4. Fifo!BfInit
  BY <1>1 DEF RgInit, Fifo!BfInit
<1> QED BY <1>2, <1>3, <1>4 DEF RgIInv

\* Every step of either thread keeps the invariant and is a step of the queue
\* or leaves the queue alone.
LEMMA RingSteps ==
  ASSUME RgIInv, [RgNext]_rgVars
  PROVE  RgIInv' /\ FifoStep
<1>1. CASE RgNext
  BY <1>1, WriteCallStep, WriteCopyStep, WritePublishStep, PeekCallStep, PeekCopyStep,
     PeekReturnStep, DiscardLoadStep, DiscardStoreStep, ResetStep DEF RgNext
<1>2. CASE UNCHANGED rgVars
  <2>1. availableToRead' = availableToRead /\ RgQueue' = RgQueue
    BY <1>2, SameQueue DEF rgVars
  <2>2. FifoStep
    BY <1>2, <2>1 DEF rgVars, FifoStep, Fifo!bfVars
  <2>3. RgIInv'
    BY <1>2, <2>1 DEF rgVars, RgIInv, RgTypeOK, RgFits, RgWriting, RgLooking, RgLookedFrom,
       RgDropping
  <2> QED BY <2>2, <2>3
<1> QED BY <1>1, <1>2

\* RingBuffer.write/peek/discard/reset implement a bounded queue, for every
\* capacity, index width and block length: a block appears whole and in order,
\* nothing that was not discarded is overwritten, and a peek that overlaps a
\* write returns a run of queued samples.
THEOREM RingImplementsFifo == RgSpec => RgImplementsFifo
<1>1. RgInit => RgIInv /\ Fifo!BfInit
  BY RingBegins
<1>2. RgIInv /\ [RgNext]_rgVars => RgIInv' /\ [Fifo!BfNext]_(Fifo!bfVars)
  BY RingSteps DEF FifoStep
<1> QED BY <1>1, <1>2, PTL DEF RgSpec, RgImplementsFifo, Fifo!BfSpec
===============================================================================
