----------------------------- MODULE SampleRing -----------------------------
(***************************************************************************)
(* RingBuffer (core/include/rta/dsp/RingBuffer.h): the single-producer     *)
(* single-consumer ring every sample of the program passes through.  The   *)
(* producer and the consumer run on two threads and share two free-running *)
(* indices of size_t; storage is copied with memcpy, one sample per step   *)
(* here, so that the two copies can overlap in every way.                  *)
(***************************************************************************)
EXTENDS Integers, Sequences

CONSTANTS
    RgMin,        \* the constructor's minCapacity
    RgWord,       \* size_t holds 0..RgWord-1
    RgTags,       \* samples are told apart by their number modulo RgTags
    RgChunk       \* bound: the longest block written, looked at or discarded

\* std::bit_ceil
BitCeil(n) == CHOOSE c \in {2 ^ k : k \in 0..n} :
                  c >= n /\ \A k \in 0..n : 2 ^ k >= n => c <= 2 ^ k

RgCapacity == BitCeil(RgMin)

ASSUME RgAssumption ==
    /\ RgMin \in Nat \ {0} /\ RgCapacity \in Nat \ {0}   \* a power of two is positive
    /\ RgChunk \in Nat \ {0}
    /\ RgTags \in Nat /\ RgTags > RgCapacity
    /\ RgWord \in Nat
    /\ RgWord % RgCapacity = 0 /\ RgWord > RgCapacity   \* both are powers of two

VARIABLES
    rgStore,      \* storage_
    rgWriteIndex, \* writeIndex_
    rgReadIndex,  \* readIndex_
    rgNext,       \* the number of the producer's next sample
    rgWriter,     \* the producer's call in progress
    rgReader,     \* the consumer's call in progress
    rgOut         \* what the peek that has just returned brought back

rgVars == <<rgStore, rgWriteIndex, rgReadIndex, rgNext, rgWriter, rgReader, rgOut>>

\* A call that has copied nothing yet.
RgCall(op, start, count) ==
    [op |-> op, start |-> start, count |-> count, done |-> 0, dst |-> <<>>]
RgIdle == RgCall("idle", 0, 0)

RgInit ==
    /\ rgStore = [s \in 0..(RgCapacity - 1) |-> 0]
    /\ rgWriteIndex = 0
    /\ rgReadIndex = 0
    /\ rgNext = 0
    /\ rgWriter = RgIdle
    /\ rgReader = RgIdle
    /\ rgOut = <<>>

\* The difference of two free-running indices, in unsigned arithmetic.
availableToRead == (rgWriteIndex - rgReadIndex) % RgWord

availableToWriteLoose == RgCapacity - availableToRead + 1
availableToWrite == RgCapacity - availableToRead

\* Where the i-th sample of a copy that starts at slot `start` lies: the first
\* memcpy runs to the end of the storage, the second goes on at slot 0.
RgSlot(start, i) ==
    LET first == RgCapacity - start
    IN  IF i < first THEN start + i ELSE i - first

RgWriteCall(n) ==
    /\ rgWriter.op = "idle"
    /\ n <= availableToWrite
    /\ rgWriter' = RgCall("write", rgWriteIndex % RgCapacity, n)
    /\ UNCHANGED <<rgStore, rgWriteIndex, rgReadIndex, rgNext, rgReader, rgOut>>

RgWriteCopy ==
    /\ rgWriter.op = "write"
    /\ rgWriter.done < rgWriter.count
    /\ rgStore' = [rgStore EXCEPT ![RgSlot(rgWriter.start, rgWriter.done)] =
                                      (rgNext + rgWriter.done) % RgTags]
    /\ rgWriter' = [rgWriter EXCEPT !.done = @ + 1]
    /\ UNCHANGED <<rgWriteIndex, rgReadIndex, rgNext, rgReader, rgOut>>

\* The release store of writeIndex_ publishes the block.
RgWritePublish ==
    /\ rgWriter.op = "write"
    /\ rgWriter.done = rgWriter.count
    /\ rgWriteIndex' = (rgWriteIndex + rgWriter.count) % RgWord
    /\ rgNext' = (rgNext + rgWriter.count) % RgTags
    /\ rgWriter' = RgIdle
    /\ UNCHANGED <<rgStore, rgReadIndex, rgReader, rgOut>>

\* A peek takes its length from the write index it loaded, and copies.
RgPeekCall(size, offset) ==
    LET available == availableToRead
        count     == IF size < available - offset THEN size ELSE available - offset
    IN  /\ rgReader.op = "idle"
        /\ offset < available
        /\ rgReader' = RgCall("peek", (rgReadIndex + offset) % RgCapacity, count)
        /\ rgOut' = <<>>
        /\ UNCHANGED <<rgStore, rgWriteIndex, rgReadIndex, rgNext, rgWriter>>

RgPeekCopy ==
    /\ rgReader.op = "peek"
    /\ rgReader.done < rgReader.count
    /\ rgReader' = [rgReader EXCEPT !.done = @ + 1,
                        !.dst = Append(@, rgStore[RgSlot(rgReader.start, rgReader.done)])]
    /\ UNCHANGED <<rgStore, rgWriteIndex, rgReadIndex, rgNext, rgWriter, rgOut>>

RgPeekReturn ==
    /\ rgReader.op = "peek"
    /\ rgReader.done = rgReader.count
    /\ rgOut' = rgReader.dst
    /\ rgReader' = RgIdle
    /\ UNCHANGED <<rgStore, rgWriteIndex, rgReadIndex, rgNext, rgWriter>>

\* discard loads the indices, then stores readIndex_; read() is a peek and a
\* discard of what it returned.
RgDiscardLoad(count) ==
    LET n == IF count < availableToRead THEN count ELSE availableToRead
    IN  /\ rgReader.op = "idle"
        /\ rgReader' = RgCall("discard", 0, n)
        /\ rgOut' = <<>>
        /\ UNCHANGED <<rgStore, rgWriteIndex, rgReadIndex, rgNext, rgWriter>>

RgDiscardStore ==
    /\ rgReader.op = "discard"
    /\ rgReadIndex' = (rgReadIndex + rgReader.count) % RgWord
    /\ rgReader' = RgIdle
    /\ UNCHANGED <<rgStore, rgWriteIndex, rgNext, rgWriter, rgOut>>

\* reset is for when neither side is in a call.
RgReset ==
    /\ rgWriter.op = "idle"
    /\ rgReader.op = "idle"
    /\ rgReadIndex' = 0
    /\ rgWriteIndex' = 0
    /\ UNCHANGED <<rgStore, rgNext, rgWriter, rgReader, rgOut>>

RgNext ==
    \/ \E n \in 1..RgChunk : RgWriteCall(n)
    \/ RgWriteCopy
    \/ RgWritePublish
    \/ \E size \in 1..RgChunk, offset \in 0..(RgCapacity - 1) : RgPeekCall(size, offset)
    \/ RgPeekCopy
    \/ RgPeekReturn
    \/ \E n \in 1..RgChunk : RgDiscardLoad(n)
    \/ RgDiscardStore
    \/ RgReset

RgSpec == RgInit /\ [][RgNext]_rgVars

-----------------------------------------------------------------------------
\* The samples the consumer may look at, in order.
RgQueue ==
    [i \in 1..availableToRead |-> rgStore[(rgReadIndex + i - 1) % RgCapacity]]

Fifo == INSTANCE BoundedFifo WITH
            BfCapacity <- RgCapacity, BfTags <- RgTags,
            bfQueue <- RgQueue, bfNext <- rgNext, bfOut <- rgOut

\* RingBuffer.write/peek/discard/reset: under every overlap of the producer's
\* copy with the consumer's, and across the wrap of both indices, the ring is
\* a bounded queue.  A block appears whole and in order, what was not yet
\* discarded is never overwritten, and a look returns queued samples only.
RgImplementsFifo == Fifo!BfSpec
=============================================================================
