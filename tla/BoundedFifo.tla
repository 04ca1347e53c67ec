---------------------------- MODULE BoundedFifo ----------------------------
(***************************************************************************)
(* What RingBuffer promises its one producer and its one consumer: a       *)
(* bounded queue of samples in the order they were written, extended by    *)
(* whole blocks, looked into without being changed, and shortened from the *)
(* front.  Nothing here mentions indices, storage or threads.              *)
(***************************************************************************)
EXTENDS Integers, Sequences

CONSTANTS
    BfCapacity,   \* how many samples it holds
    BfTags        \* samples are told apart by their number modulo BfTags

VARIABLES
    bfQueue,      \* the samples written and not yet discarded
    bfNext,       \* the number of the producer's next sample
    bfOut         \* what the consumer's last look returned

bfVars == <<bfQueue, bfNext, bfOut>>

BfBlock(n) == [i \in 1..n |-> (bfNext + i - 1) % BfTags]

BfInit ==
    /\ bfQueue = <<>>
    /\ bfNext = 0
    /\ bfOut = <<>>

\* A block enters whole, or not at all.
BfWrite ==
    \E n \in 1..(BfCapacity - Len(bfQueue)) :
        /\ bfQueue' = bfQueue \o BfBlock(n)
        /\ bfNext' = (bfNext + n) % BfTags
        /\ UNCHANGED bfOut

\* A look at any run of the queued samples.
BfPeek ==
    \E lo \in 0..Len(bfQueue) : \E hi \in lo..Len(bfQueue) :
        /\ bfOut' = SubSeq(bfQueue, lo + 1, hi)
        /\ UNCHANGED <<bfQueue, bfNext>>

BfDiscard ==
    \E n \in 1..Len(bfQueue) :
        /\ bfQueue' = SubSeq(bfQueue, n + 1, Len(bfQueue))
        /\ UNCHANGED <<bfNext, bfOut>>

BfReset ==
    /\ bfQueue' = <<>>
    /\ UNCHANGED <<bfNext, bfOut>>

BfNext == BfWrite \/ BfPeek \/ BfDiscard \/ BfReset

BfSpec == BfInit /\ [][BfNext]_bfVars
=============================================================================
