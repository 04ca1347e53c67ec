--------------------------- MODULE CaptureBusProofs ---------------------------
(***************************************************************************)
(* Proofs about CaptureBus for every number of channels, capacity, timeout *)
(* and bound: types, the inductive invariant of the resync gate, the       *)
(* exclusion and emptiness properties it implies, and the alignment of the *)
(* rings between two disturbances.                                         *)
(***************************************************************************)
EXTENDS CaptureBus, SequenceTheorems, WellFoundedInduction, TLAPS

\* Every nonempty set of naturals has a least element.
LEMMA LeastExists ==
  ASSUME NEW S \in SUBSET Nat, S # {}
  PROVE  \E x \in S : \A y \in S : x <= y
<1> DEFINE R == OpToRel(<, Nat)
<1>1. IsWellFoundedOn(R, Nat)
  BY NatLessThanWellFounded
<1>2. PICK x \in S : \A y \in S : ~ (<<y, x>> \in R)
  <2> HIDE DEF R
  <2> QED BY <1>1, WFMin
<1>3. ASSUME NEW y \in S PROVE x <= y
  <2>1. y \in Nat /\ x \in Nat
    OBVIOUS
  <2>2. ~(y < x)
    BY <1>2, <2>1 DEF OpToRel
  <2> QED BY <2>1, <2>2
<1> QED BY <1>3

\* The ascending loops over channels pick a member of what is left to do.
LEMMA FirstInSet ==
  ASSUME NEW S \in SUBSET Ch, S # {}
  PROVE  First(S) \in S
<1>1. S \in SUBSET Nat
  BY CaptureBusAssumption DEF Ch
<1>2. \E c \in S : \A d \in S : c <= d
  BY <1>1, LeastExists
<1> QED BY <1>2 DEF First

\* The groups a tick reads are nonempty sets of channels that are written.
LEMMA PlanGroups == Plan \subseteq SUBSET Live /\ {} \notin Plan /\ Live \subseteq Ch
<1>1. Live \subseteq Ch /\ Routed \subseteq Live
  BY DEF Live, writerMask, Routed
<1>2. ASSUME NEW m \in Routed PROVE First(References(m)) \in Live
  <2>1. References(m) \subseteq Live /\ References(m) # {}
    BY <1>2 DEF References, Routed
  <2> QED BY <1>1, <2>1, FirstInSet
<1>3. ASSUME NEW group \in Plan PROVE group \subseteq Live /\ group # {}
  <2>1. CASE Routed # {}
    <3>1. PICK m \in Routed : group = {First(References(m))} \cup RoutedTo(First(References(m)))
      BY <1>3, <2>1 DEF Plan
    <3>2. RoutedTo(First(References(m))) \subseteq Live
      BY <1>1 DEF RoutedTo
    <3> QED BY <1>2, <3>1, <3>2
  <2>2. CASE Routed = {}
    <3>1. PICK role : group = {First(Holders(role))} /\ First(Holders(role)) \in Live
      BY <1>3, <2>2 DEF Plan
    <3> QED BY <3>1
  <2> QED BY <2>1, <2>2
<1> QED BY <1>1, <1>3

\* The initial state has the declared types and satisfies the invariant.
LEMMA InitInv == Init => TypeOK /\ IInv
BY CaptureBusAssumption, SMTT(30) DEF Init, writerMask, TypeOK, IInv, Ch, CbPcs, DevPcs, ConPcs, Causes,
  LoopsHaveWork, HopsAvailable, PrepareQuiesced, DeviceMarkCurrent,
  ConsumerMarkCurrent, MovedPastMark, GateUpWhileServing,
  AckedDrainExclusive, DrainedSoFar, Draining, CallbackWriting, Raising,
  Preparing

\* Every step keeps the declared types.
LEMMA TypeStep == TypeOK /\ IInv /\ [Next]_vars => TypeOK'
<1> SUFFICES ASSUME TypeOK, IInv, [Next]_vars PROVE TypeOK'
  OBVIOUS
<1> USE CaptureBusAssumption DEF TypeOK, CbPcs, DevPcs, ConPcs, Causes,
      vars, busVars, accVars, sessVars, cbVars, devVars, waitVars, readVars,
        conVars, roleVars, histVars
<1>1. ASSUME CbEnter PROVE TypeOK'
  BY <1>1 DEF CbEnter
<1>2. ASSUME CbGate PROVE TypeOK'
  BY <1>2 DEF CbGate
<1>3. ASSUME CbRoles PROVE TypeOK'
  <2>1. disturbed' \in SUBSET Causes
    BY <1>3 DEF CbRoles
  <2>2. cbTodo' \in SUBSET Ch /\ cbPc' \in CbPcs
    BY <1>3 DEF CbRoles, Live, writerMask
  <2> QED BY <1>3, <2>1, <2>2 DEF CbRoles
<1>4. ASSUME CbWrite PROVE TypeOK'
  <2> DEFINE k == First(cbTodo)
  <2>1. k \in cbTodo /\ k \in Ch
    BY <1>4, FirstInSet DEF CbWrite, IInv, LoopsHaveWork
  <2>2. Append(rings[k], cbBlock) \in Seq(Nat)
    BY <2>1
  <2>3. rings' \in [Ch -> Seq(Nat)]
    <3>1. rings' = rings \/ rings' = [rings EXCEPT ![k] = Append(@, cbBlock)]
      BY <1>4 DEF CbWrite
    <3> HIDE DEF k
    <3> QED BY <2>1, <2>2, <3>1
  <2>4. drops' \in [Ch -> Nat]
    <3>1. CASE Len(rings[k]) < Capacity
      BY <1>4, <3>1 DEF CbWrite
    <3>2. CASE ~(Len(rings[k]) < Capacity)
      <4>1. drops' = [drops EXCEPT ![k] = @ + 1]
        BY <1>4, <3>2 DEF CbWrite
      <4> HIDE DEF k
      <4> QED BY <4>1, <2>1
    <3> QED BY <3>1, <3>2
  <2>5. disturbed' \in SUBSET Causes
    BY <1>4 DEF CbWrite
  <2>6. cbTodo' \in SUBSET Ch /\ cbPc' \in CbPcs
    BY <1>4 DEF CbWrite
  <2> QED BY <1>4, <2>3, <2>4, <2>5, <2>6, SMTT(30) DEF CbWrite
<1>5. ASSUME DevPrepare PROVE TypeOK'
  BY <1>5 DEF DevPrepare
<1>6. ASSUME DevAttached PROVE TypeOK'
  BY <1>6 DEF DevAttached
<1>7. ASSUME DevRaiseLoad PROVE TypeOK'
  BY <1>7 DEF DevRaiseLoad
<1>8. ASSUME DevRaiseStore PROVE TypeOK'
  BY <1>8 DEF DevRaiseStore
<1>9. ASSUME DevRaiseSeq PROVE TypeOK'
  BY <1>9 DEF DevRaiseSeq
<1>10. ASSUME DevRaisePending PROVE TypeOK'
  BY <1>10 DEF DevRaisePending
<1>11. ASSUME DevEpoch PROVE TypeOK'
  BY <1>11 DEF DevEpoch
<1>12. ASSUME DevActivate PROVE TypeOK'
  BY <1>12 DEF DevActivate
<1>13. ASSUME DevDeactivate PROVE TypeOK'
  <2>1. active' \in BOOLEAN
    BY <1>13 DEF DevDeactivate
  <2> QED BY <1>13, <2>1 DEF DevDeactivate
<1>14. ASSUME DevStopped PROVE TypeOK'
  BY <1>14 DEF DevStopped
<1>15. ASSUME NEW c \in Ch, SetRole(c) \/ SetTransferFunction(c) PROVE TypeOK'
  <2>1. CASE SetRole(c)
    BY <2>1 DEF SetRole
  <2>2. CASE SetTransferFunction(c)
    BY <2>2 DEF SetTransferFunction
  <2> QED BY <1>15, <2>1, <2>2
<1>16. ASSUME ConMask PROVE TypeOK'
  <2>1. disturbed' \in SUBSET Causes
    BY <1>16 DEF ConMask
  <2>2. conMask' \in SUBSET Ch /\ conPc' \in ConPcs
    BY <1>16 DEF ConMask, writerMask
  <2> QED BY <1>16, <2>1, <2>2 DEF ConMask
<1>17. ASSUME ConRaiseLoad PROVE TypeOK'
  BY <1>17 DEF ConRaiseLoad
<1>18. ASSUME ConRaiseStore PROVE TypeOK'
  BY <1>18 DEF ConRaiseStore
<1>19. ASSUME ConRaiseSeq PROVE TypeOK'
  BY <1>19 DEF ConRaiseSeq
<1>20. ASSUME ConRaisePending PROVE TypeOK'
  BY <1>20 DEF ConRaisePending
<1>21. ASSUME ConPending PROVE TypeOK'
  BY <1>21 DEF ConPending
<1>22. ASSUME ConAckSeen PROVE TypeOK'
  BY <1>22 DEF ConAckSeen
<1>23. ASSUME ConAckMark PROVE TypeOK'
  <2>1. conOverlap' \in BOOLEAN
    <3>1. CallbackWriting \in BOOLEAN
      BY DEF CallbackWriting
    <3>2. conOverlap' = conOverlap \/ conOverlap' = CallbackWriting
      BY <1>23 DEF ConAckMark
    <3>3. conOverlap \in BOOLEAN
      OBVIOUS
    <3> QED BY <3>1, <3>2, <3>3
  <2>2. conReason' \in {"none", "acknowledged", "idle", "timedOut"}
    BY <1>23 DEF ConAckMark, DrainReason
  <2>3. conTodo' \in SUBSET Ch
    BY <1>23 DEF ConAckMark
  <2>4. conWait' \in Nat /\ conLargest' \in Nat /\ resyncAckTimeouts' \in Nat
    BY <1>23 DEF ConAckMark
  <2>5. conPc' \in ConPcs
    BY <1>23 DEF ConAckMark
  <2> QED BY <1>23, <2>1, <2>2, <2>3, <2>4, <2>5 DEF ConAckMark
<1>24. ASSUME ConDrain PROVE TypeOK'
  <2> DEFINE k == First(conTodo)
  <2>1. k \in conTodo /\ k \in Ch
    BY <1>24, FirstInSet DEF ConDrain, IInv, LoopsHaveWork
  <2>2. rings' \in [Ch -> Seq(Nat)]
    BY <1>24, <2>1 DEF ConDrain
  <2>3. conLargest' \in Nat
    BY <1>24, <2>1 DEF ConDrain
  <2>4. conTodo' \in SUBSET Ch /\ conPc' \in ConPcs
    BY <1>24 DEF ConDrain
  <2> QED BY <1>24, <2>2, <2>3, <2>4, SMTT(30) DEF ConDrain
<1>25. ASSUME ConAccount PROVE TypeOK'
  BY <1>25 DEF ConAccount
<1>26. ASSUME ConLower PROVE TypeOK'
  <2>1. resyncPending' \in BOOLEAN
    BY <1>26 DEF ConLower
  <2>2. disturbed' \in SUBSET Causes
    BY <1>26 DEF ConLower
  <2> QED BY <1>26, <2>1, <2>2 DEF ConLower
<1>27. ASSUME ConRead PROVE TypeOK'
  <2>1. Plan \subseteq SUBSET Ch
    BY PlanGroups
  <2>2. /\ conHops' \in Nat /\ conTodo' \in SUBSET Ch /\ conGroup' \in SUBSET Ch /\ conPc' \in ConPcs
        /\ conPlan' \in SUBSET SUBSET Ch
    BY <1>27, <2>1 DEF ConRead, BeginGroup
  <2> QED BY <1>27, <2>2 DEF ConRead
<1>28. ASSUME ConSample PROVE TypeOK'
  <2> DEFINE k == First(conTodo)
  <2>1. k \in conTodo /\ k \in Ch
    BY <1>28, FirstInSet DEF ConSample, IInv, LoopsHaveWork
  <2>2. Len(rings[k]) \in Nat
    BY <2>1, LenProperties
  <2>3. conHops' \in Nat
    BY <1>28, <2>2 DEF ConSample, Fewer
  <2>4. conTodo' \in SUBSET Ch /\ conPc' \in ConPcs
    BY <1>28 DEF ConSample
  <2> QED BY <1>28, <2>3, <2>4 DEF ConSample
<1>29. ASSUME ConPeek PROVE TypeOK'
  BY <1>29 DEF ConPeek, IInv, HopsAvailable
<1>30. ASSUME ConDiscard PROVE TypeOK'
  <2> DEFINE k == First(conTodo)
  <2>1. k \in conTodo /\ k \in Ch /\ k \in conGroup
    BY <1>30, FirstInSet DEF ConDiscard, IInv, LoopsHaveWork, HopsAvailable
  <2>2. Len(rings[k]) >= conHops + 1
    BY <1>30, <2>1 DEF ConDiscard, IInv, HopsAvailable
  <2>3. Tail(rings[k]) \in Seq(Nat)
    BY <2>1, <2>2
  <2>4. rings' \in [Ch -> Seq(Nat)]
    BY <1>30, <2>1, <2>3 DEF ConDiscard
  <2>5. conTodo' \in SUBSET Ch /\ conPc' \in ConPcs
    BY <1>30 DEF ConDiscard
  <2> QED BY <1>30, <2>4, <2>5 DEF ConDiscard
<1>31. ASSUME ConDone PROVE TypeOK'
  <2>1. /\ conHops' \in Nat /\ conTodo' \in SUBSET Ch /\ conGroup' \in SUBSET Ch /\ conPc' \in ConPcs
        /\ conPlan' \in SUBSET SUBSET Ch
    BY <1>31 DEF ConDone, BeginGroup
  <2> QED BY <1>31, <2>1 DEF ConDone
<1>32. ASSUME ConWithdraw PROVE TypeOK'
  <2>1. consumerAttached' \in BOOLEAN
    BY <1>32 DEF ConWithdraw
  <2> QED BY <1>32, <2>1 DEF ConWithdraw
<1>33. ASSUME ConDetach PROVE TypeOK'
  <2>1. resyncPending' \in BOOLEAN
    BY <1>33 DEF ConDetach
  <2> QED BY <1>33, <2>1 DEF ConDetach
<1>34. ASSUME ConAttach PROVE TypeOK'
  BY <1>34 DEF ConAttach, writerMask
<1>35. CASE UNCHANGED vars
  BY <1>35
<1> QED BY <1>1, <1>2, <1>3, <1>4, <1>5, <1>6, <1>7, <1>8, <1>9, <1>10, <1>11,
        <1>12, <1>13, <1>14, <1>15, <1>16, <1>17, <1>18, <1>19, <1>20, <1>21,
        <1>22, <1>23, <1>24, <1>25, <1>26, <1>27, <1>28, <1>29, <1>30, <1>31,
        <1>32, <1>33, <1>34, <1>35
      DEF Next, Callback, Device, Message, Service, Tick, Lifecycle

\* Every step keeps the invariant of the gate.
LEMMA GateStep == TypeOK /\ IInv /\ [Next]_vars => IInv'
<1> SUFFICES ASSUME TypeOK, IInv, [Next]_vars PROVE IInv'
  OBVIOUS
<1> USE CaptureBusAssumption DEF TypeOK, IInv, CbPcs, DevPcs, ConPcs, Causes,
      LoopsHaveWork, HopsAvailable, PrepareQuiesced, DeviceMarkCurrent,
        ConsumerMarkCurrent, MovedPastMark, GateUpWhileServing,
        AckedDrainExclusive, DrainedSoFar, Draining, CallbackWriting, Raising,
        Preparing,
      vars, busVars, accVars, sessVars, cbVars, devVars, waitVars, readVars,
        conVars, roleVars, histVars
<1>1. ASSUME CbEnter PROVE IInv'
  BY <1>1 DEF CbEnter
<1>2. ASSUME CbGate PROVE IInv'
  BY <1>2 DEF CbGate
<1>3. ASSUME CbRoles PROVE IInv'
  BY <1>3 DEF CbRoles
<1>4. ASSUME CbWrite PROVE IInv'
  <2> DEFINE k == First(cbTodo)
  <2>1. k \in cbTodo /\ k \in Ch
    BY <1>4, FirstInSet DEF CbWrite
  <2>2. Append(rings[k], cbBlock) \in Seq(Nat) /\ Len(Append(rings[k], cbBlock)) = Len(rings[k]) + 1
    BY <2>1
  <2>3. \A d \in Ch : Len(rings'[d]) \in Nat /\ Len(rings[d]) \in Nat /\ Len(rings'[d]) >= Len(rings[d])
    <3>1. \A d \in Ch : rings'[d] = rings[d] \/ (d = k /\ rings'[d] = Append(rings[d], cbBlock))
      BY <1>4, <2>1 DEF CbWrite
    <3>2. \A d \in Ch : Len(rings[d]) \in Nat
      BY LenProperties
    <3> TAKE d \in Ch
    <3>3. CASE rings'[d] = rings[d]
      BY <3>2, <3>3
    <3>4. CASE d = k /\ rings'[d] = Append(rings[d], cbBlock)
      BY <3>2, <3>4, <2>2
    <3> QED BY <3>1, <3>3, <3>4
  <2>4. HopsAvailable'
    <3>1. UNCHANGED <<conPc, conGroup, conHops, conTodo>>
      BY <1>4 DEF CbWrite
    <3>2. ASSUME NEW c \in conGroup, conPc = "peek"
          PROVE  Len(rings'[c]) >= conHops
      BY <2>3, <3>2
    <3>3. ASSUME NEW c \in conGroup, conPc = "discard"
          PROVE  Len(rings'[c]) >= conHops + (IF c \in conTodo THEN 1 ELSE 0)
      <4>1. CASE c \in conTodo
        BY <2>3, <3>3, <4>1, SMTT(30)
      <4>2. CASE c \notin conTodo
        BY <2>3, <3>3, <4>2
      <4> QED BY <4>1, <4>2
    <3>4. ASSUME NEW c \in conGroup \ conTodo, conPc = "sample"
          PROVE  Len(rings'[c]) >= conHops
      BY <2>3, <3>4
    <3>5. conPc \in {"sample", "discard"} => conTodo \subseteq conGroup
      OBVIOUS
    <3> HIDE DEF TypeOK, IInv
    <3> QED BY <3>1, <3>2, <3>3, <3>4, <3>5
  <2>5. LoopsHaveWork'
    BY <1>4 DEF CbWrite
  <2>6. AckedDrainExclusive' /\ DrainedSoFar'
    BY <1>4 DEF CbWrite
  <2>7. /\ PrepareQuiesced' /\ DeviceMarkCurrent' /\ ConsumerMarkCurrent'
        /\ MovedPastMark' /\ GateUpWhileServing'
    BY <1>4 DEF CbWrite
  <2> HIDE DEF LoopsHaveWork, HopsAvailable, PrepareQuiesced, DeviceMarkCurrent,
        ConsumerMarkCurrent, MovedPastMark, GateUpWhileServing, AckedDrainExclusive, DrainedSoFar
  <2> QED BY <2>4, <2>5, <2>6, <2>7
<1>5. ASSUME DevPrepare PROVE IInv'
  BY <1>5 DEF DevPrepare
<1>6. ASSUME DevAttached PROVE IInv'
  BY <1>6 DEF DevAttached
<1>7. ASSUME DevRaiseLoad PROVE IInv'
  BY <1>7 DEF DevRaiseLoad
<1>8. ASSUME DevRaiseStore PROVE IInv'
  BY <1>8 DEF DevRaiseStore
<1>9. ASSUME DevRaiseSeq PROVE IInv'
  BY <1>9 DEF DevRaiseSeq
<1>10. ASSUME DevRaisePending PROVE IInv'
  BY <1>10 DEF DevRaisePending
<1>11. ASSUME DevEpoch PROVE IInv'
  BY <1>11 DEF DevEpoch
<1>12. ASSUME DevActivate PROVE IInv'
  BY <1>12 DEF DevActivate
<1>13. ASSUME DevDeactivate PROVE IInv'
  BY <1>13 DEF DevDeactivate
<1>14. ASSUME DevStopped PROVE IInv'
  BY <1>14 DEF DevStopped
<1>15. ASSUME NEW c \in Ch, SetRole(c) \/ SetTransferFunction(c) PROVE IInv'
  <2>1. CASE SetRole(c)
    BY <2>1, SMTT(30) DEF SetRole
  <2>2. CASE SetTransferFunction(c)
    BY <2>2, SMTT(30) DEF SetTransferFunction
  <2> QED BY <1>15, <2>1, <2>2
<1>16. ASSUME ConMask PROVE IInv'
  BY <1>16 DEF ConMask
<1>17. ASSUME ConRaiseLoad PROVE IInv'
  BY <1>17 DEF ConRaiseLoad
<1>18. ASSUME ConRaiseStore PROVE IInv'
  BY <1>18 DEF ConRaiseStore
<1>19. ASSUME ConRaiseSeq PROVE IInv'
  BY <1>19 DEF ConRaiseSeq
<1>20. ASSUME ConRaisePending PROVE IInv'
  BY <1>20 DEF ConRaisePending
<1>21. ASSUME ConPending PROVE IInv'
  BY <1>21 DEF ConPending
<1>22. ASSUME ConAckSeen PROVE IInv'
  BY <1>22 DEF ConAckSeen
<1>23. ASSUME ConAckMark PROVE IInv'
  <2>1. DrainReason = "acknowledged" => ~CallbackWriting
    BY <1>23 DEF ConAckMark, DrainReason
  <2>2. LoopsHaveWork' /\ HopsAvailable'
    <3>1. Ch # {}
      <4>1. 0 \in Ch
        BY DEF Ch
      <4> QED BY <4>1
    <3>2. /\ conPc' \in {"read", "drain"}
          /\ conPc' = "drain" => conTodo' = Ch
          /\ UNCHANGED <<cbPc, cbTodo>>
      BY <1>23 DEF ConAckMark
    <3> QED BY <3>1, <3>2
  <2>3. AckedDrainExclusive'
    BY <1>23, <2>1 DEF ConAckMark
  <2>4. DrainedSoFar'
    BY <1>23 DEF ConAckMark
  <2>5. /\ PrepareQuiesced' /\ DeviceMarkCurrent' /\ ConsumerMarkCurrent'
        /\ MovedPastMark' /\ GateUpWhileServing'
    BY <1>23 DEF ConAckMark
  <2> HIDE DEF LoopsHaveWork, HopsAvailable, PrepareQuiesced, DeviceMarkCurrent,
        ConsumerMarkCurrent, MovedPastMark, GateUpWhileServing, AckedDrainExclusive, DrainedSoFar
  <2> QED BY <2>2, <2>3, <2>4, <2>5
<1>24. ASSUME ConDrain PROVE IInv'
  BY <1>24, FirstInSet DEF ConDrain
<1>25. ASSUME ConAccount PROVE IInv'
  BY <1>25 DEF ConAccount
<1>26. ASSUME ConLower PROVE IInv'
  BY <1>26 DEF ConLower
<1>27. ASSUME ConRead PROVE IInv'
  <2>1. {} \notin Plan
    BY PlanGroups
  <2>2. LoopsHaveWork'
    BY <1>27, <2>1 DEF ConRead, BeginGroup
  <2>3. HopsAvailable'
    BY <1>27 DEF ConRead, BeginGroup
  <2>4. /\ PrepareQuiesced' /\ DeviceMarkCurrent' /\ ConsumerMarkCurrent'
        /\ MovedPastMark' /\ GateUpWhileServing' /\ AckedDrainExclusive' /\ DrainedSoFar'
    BY <1>27 DEF ConRead, BeginGroup
  <2> HIDE DEF LoopsHaveWork, HopsAvailable, PrepareQuiesced, DeviceMarkCurrent,
        ConsumerMarkCurrent, MovedPastMark, GateUpWhileServing, AckedDrainExclusive, DrainedSoFar
  <2> QED BY <2>2, <2>3, <2>4
<1>28. ASSUME ConSample PROVE IInv'
  <2> DEFINE k == First(conTodo)
  <2>1. k \in conTodo /\ k \in Ch
    BY <1>28, FirstInSet DEF ConSample
  <2>2. conHops' \in Nat /\ conHops' <= conHops /\ conHops' <= Len(rings[k]) /\ Len(rings[k]) \in Nat
    <3>1. Len(rings[k]) \in Nat
      BY <2>1, LenProperties
    <3> QED BY <1>28, <3>1, SMTT(30) DEF ConSample, Fewer
  <2>3. HopsAvailable'
    <3>1. conTodo' = conTodo \ {k} /\ UNCHANGED <<conGroup, rings>>
      BY <1>28 DEF ConSample
    <3>2. conPc' = IF conTodo' = {} THEN "peek" ELSE "sample"
      BY <1>28 DEF ConSample
    <3>3. conTodo' \subseteq conGroup
      BY <1>28, <3>1 DEF ConSample
    <3>4. ASSUME NEW c \in conGroup \ conTodo' PROVE Len(rings[c]) >= conHops'
      <4>1. CASE c = k
        BY <2>2, <4>1
      <4>2. CASE c # k
        <5>1. Len(rings[c]) \in Nat /\ Len(rings[c]) >= conHops
          BY <1>28, <3>1, <4>2, LenProperties DEF ConSample
        <5> QED BY <5>1, <2>2
      <4> QED BY <4>1, <4>2
    <3> HIDE DEF TypeOK, IInv
    <3> QED BY <3>1, <3>2, <3>3, <3>4
  <2>4. LoopsHaveWork'
    BY <1>28 DEF ConSample
  <2>5. /\ PrepareQuiesced' /\ DeviceMarkCurrent' /\ ConsumerMarkCurrent'
        /\ MovedPastMark' /\ GateUpWhileServing' /\ AckedDrainExclusive' /\ DrainedSoFar'
    BY <1>28 DEF ConSample
  <2> HIDE DEF LoopsHaveWork, HopsAvailable, PrepareQuiesced, DeviceMarkCurrent,
        ConsumerMarkCurrent, MovedPastMark, GateUpWhileServing, AckedDrainExclusive, DrainedSoFar
  <2> QED BY <2>3, <2>4, <2>5
<1>29. ASSUME ConPeek PROVE IInv'
  BY <1>29 DEF ConPeek
<1>30. ASSUME ConDiscard PROVE IInv'
  <2> DEFINE k == First(conTodo)
  <2>1. k \in conTodo /\ k \in Ch /\ k \in conGroup
    BY <1>30, FirstInSet DEF ConDiscard
  <2>2. Len(rings[k]) >= conHops + 1
    BY <1>30, <2>1 DEF ConDiscard
  <2>3. Tail(rings[k]) \in Seq(Nat) /\ Len(Tail(rings[k])) = Len(rings[k]) - 1
    BY <2>1, <2>2
  <2>4. \A d \in Ch : rings'[d] = IF d = k THEN Tail(rings[k]) ELSE rings[d]
    BY <1>30, <2>1 DEF ConDiscard
  <2>5. HopsAvailable'
    <3> HIDE DEF k
    <3>1. conTodo' = conTodo \ {k} /\ conGroup' = conGroup /\ conHops' = conHops
      BY <1>30 DEF ConDiscard, k
    <3>2. conTodo' \subseteq conGroup'
      BY <1>30, <3>1 DEF ConDiscard
    <3>3. \A c \in conGroup : Len(rings'[c]) >= conHops + (IF c \in conTodo \ {k} THEN 1 ELSE 0)
      <4> TAKE c \in conGroup
      <4>1. CASE c = k
        <5>1. rings'[c] = Tail(rings[k])
          BY <2>1, <2>4, <4>1
        <5>2. Len(rings[k]) \in Nat
          BY <2>1, LenProperties
        <5>3. Len(rings'[c]) >= conHops
          BY <5>1, <5>2, <2>2, <2>3
        <5> QED BY <5>3, <4>1
      <4>2. CASE c # k
        <5>1. rings'[c] = rings[c] /\ Len(rings[c]) \in Nat
          BY <2>4, <4>2, LenProperties
        <5>2. Len(rings[c]) >= conHops + (IF c \in conTodo THEN 1 ELSE 0)
          BY <1>30 DEF ConDiscard
        <5> QED BY <5>1, <5>2, <4>2
      <4> QED BY <4>1, <4>2
    <3>4. conPc' = IF conTodo' = {} THEN "peek" ELSE "discard"
      BY <1>30 DEF ConDiscard
    <3>5. ASSUME NEW c \in conGroup, conTodo' = {} PROVE Len(rings'[c]) >= conHops
      <4>1. c \notin conTodo \ {k}
        BY <3>1, <3>5
      <4>2. Len(rings'[c]) >= conHops + 0
        BY <3>3, <4>1
      <4> QED BY <4>2
    <3> HIDE DEF TypeOK, IInv
    <3> QED BY <3>1, <3>2, <3>3, <3>4, <3>5
  <2>6. LoopsHaveWork'
    BY <1>30 DEF ConDiscard
  <2>7. /\ PrepareQuiesced' /\ DeviceMarkCurrent' /\ ConsumerMarkCurrent'
        /\ MovedPastMark' /\ GateUpWhileServing' /\ AckedDrainExclusive' /\ DrainedSoFar'
    BY <1>30 DEF ConDiscard
  <2> HIDE DEF LoopsHaveWork, HopsAvailable, PrepareQuiesced, DeviceMarkCurrent,
        ConsumerMarkCurrent, MovedPastMark, GateUpWhileServing, AckedDrainExclusive, DrainedSoFar
  <2> QED BY <2>5, <2>6, <2>7
<1>31. ASSUME ConDone PROVE IInv'
  <2>1. LoopsHaveWork'
    BY <1>31 DEF ConDone, BeginGroup
  <2>2. HopsAvailable'
    BY <1>31 DEF ConDone, BeginGroup
  <2>3. /\ PrepareQuiesced' /\ DeviceMarkCurrent' /\ ConsumerMarkCurrent'
        /\ MovedPastMark' /\ GateUpWhileServing' /\ AckedDrainExclusive' /\ DrainedSoFar'
    BY <1>31 DEF ConDone, BeginGroup
  <2> HIDE DEF LoopsHaveWork, HopsAvailable, PrepareQuiesced, DeviceMarkCurrent,
        ConsumerMarkCurrent, MovedPastMark, GateUpWhileServing, AckedDrainExclusive, DrainedSoFar
  <2> QED BY <2>1, <2>2, <2>3
<1>32. ASSUME ConWithdraw PROVE IInv'
  BY <1>32 DEF ConWithdraw
<1>33. ASSUME ConDetach PROVE IInv'
  BY <1>33 DEF ConDetach
<1>34. ASSUME ConAttach PROVE IInv'
  BY <1>34 DEF ConAttach
<1>35. CASE UNCHANGED vars
  BY <1>35
<1> QED BY <1>1, <1>2, <1>3, <1>4, <1>5, <1>6, <1>7, <1>8, <1>9, <1>10, <1>11,
        <1>12, <1>13, <1>14, <1>15, <1>16, <1>17, <1>18, <1>19, <1>20, <1>21,
        <1>22, <1>23, <1>24, <1>25, <1>26, <1>27, <1>28, <1>29, <1>30, <1>31,
        <1>32, <1>33, <1>34, <1>35
      DEF Next, Callback, Device, Message, Service, Tick, Lifecycle

\* The variables keep their declared types (TypeOK), whatever the interleaving of
\* the callback, device, message and analysis threads.
THEOREM TypeCorrect == Spec => []TypeOK
<1>1. Init => TypeOK /\ IInv
  BY InitInv
<1>2. TypeOK /\ IInv /\ [Next]_vars => (TypeOK /\ IInv)'
  BY TypeStep, GateStep
<1> QED BY <1>1, <1>2, PTL DEF Spec

\* The invariant of the resync gate: what raiseGate's order of stores, the callback's
\* single load of the gate and the consumer's order of drain and lower maintain.
THEOREM GateInvariant == Spec => []IInv
<1>1. Init => TypeOK /\ IInv
  BY InitInv
<1>2. TypeOK /\ IInv /\ [Next]_vars => (TypeOK /\ IInv)'
  BY TypeStep, GateStep
<1> QED BY <1>1, <1>2, PTL DEF Spec

\* serviceResyncAsConsumer: an acknowledged drain never overlaps a callback that
\* is past its gate check.
THEOREM AcknowledgedDrainIsExclusive == Spec => []AckedDrainExclusive
<1>1. IInv => AckedDrainExclusive
  BY DEF IInv
<1> QED BY <1>1, GateInvariant, PTL

\* serviceResyncAsConsumer: an acknowledged drain leaves every ring empty when it
\* lowers the gate, so all rings restart on one callback boundary.
THEOREM AcknowledgedDrainEmpties == Spec => []EmptyAtLower
<1>1. IInv => EmptyAtLower
  BY DEF IInv, DrainedSoFar, EmptyAtLower, Draining
<1> QED BY <1>1, GateInvariant, PTL

-------------------------------------------------------------------------------
(* Alignment.  A drain that began beside no callback leaves every ring      *)
(* empty, whatever it was for; from there on the rings that are read       *)
(* together take the same blocks and give the same hops.                    *)

\* A callback has rings left to write only while it writes.
TodoOnlyWriting == cbPc # "write" => cbTodo = {}

\* What is read together, and what is still to be read, are groups of the plan.
GroupIsPlanned ==
  conPc \in {"sample", "peek", "discard"} /\ disturbed = {} =>
    conGroup \in Plan /\ conPlan \subseteq Plan

\* A drain that began beside no callback stays alone with the rings.
DrainAlone ==
  Draining /\ ~conOverlap =>
    /\ ~CallbackWriting
    /\ \A c \in Ch : (conPc = "drain" /\ c \in conTodo) \/ rings[c] = <<>>

AlignIInv == /\ TodoOnlyWriting /\ GroupIsPlanned /\ DrainAlone
             /\ RingsAligned /\ PairedHopAligned

\* A ring of a live channel is a sequence; the live channels are channels.
LEMMA LiveTypes ==
  ASSUME TypeOK
  PROVE  /\ Live \subseteq Ch /\ cbBlock \in Nat
         /\ \A c \in Ch : rings[c] \in Seq(Nat) /\ Len(rings[c]) \in Nat
<1>1. Live \subseteq Ch
  BY DEF Live, writerMask
<1>2. \A c \in Ch : rings[c] \in Seq(Nat)
  BY DEF TypeOK
<1> QED BY <1>1, <1>2, LenProperties DEF TypeOK

\* Appending a block and discarding a hop commute on a ring that holds one.
LEMMA AppendTail ==
  ASSUME NEW s \in Seq(Nat), Len(s) > 0, NEW x \in Nat
  PROVE  Tail(Append(s, x)) = Append(Tail(s), x) /\ Head(Append(s, x)) = Head(s)
<1>1. s # <<>>
  OBVIOUS
<1> QED BY <1>1, HeadTailAppend

\* The first state.
LEMMA AlignBegins == Init => AlignIInv
<1> SUFFICES ASSUME Init PROVE AlignIInv
  OBVIOUS
<1>1. \A c \in Ch : Settled(c) = <<>>
  BY DEF Init, Settled
<1>2. RingsAligned
  BY <1>1, PlanGroups DEF RingsAligned
<1>3. TodoOnlyWriting /\ GroupIsPlanned /\ DrainAlone /\ PairedHopAligned
  BY DEF Init, TodoOnlyWriting, GroupIsPlanned, DrainAlone, Draining, PairedHopAligned
<1> QED BY <1>2, <1>3 DEF AlignIInv

\* The plan is a function of the roles, the indices and the prepared channels.
LEMMA PlanUnchanged ==
  ASSUME UNCHANGED <<roles, tf, preparedChannels>>
  PROVE  Plan' = Plan /\ Live' = Live
<1>1. Live' = Live
  BY DEF Live, writerMask
<1>2. \A m : References(m)' = References(m)
  BY <1>1 DEF References
<1>3. Routed' = Routed
  BY <1>1, <1>2 DEF Routed
<1>4. \A r : RoutedTo(r)' = RoutedTo(r)
  BY <1>2, <1>3 DEF RoutedTo
<1>5. \A role : Holders(role)' = Holders(role)
  BY DEF Holders
<1> QED BY <1>1, <1>2, <1>3, <1>4, <1>5 DEF Plan

\* A channel is in one group at most: a reference is no measurement, and a
\* measurement has one first reference.
LEMMA PlanDisjoint ==
  ASSUME NEW group \in Plan, NEW other \in Plan, NEW c \in group, c \in other
  PROVE  group = other
<1>1. ASSUME Routed # {}, NEW g \in Plan, c \in g
      PROVE  g = LET r == IF roles[c] = "Reference" THEN c ELSE First(References(c))
                 IN {r} \cup RoutedTo(r)
  <2>1. PICK m \in Routed : g = {First(References(m))} \cup RoutedTo(First(References(m)))
    BY <1>1 DEF Plan
  <2>2. First(References(m)) \in References(m)
    <3>1. References(m) \in SUBSET Ch /\ References(m) # {}
      BY DEF Routed, References, Live, writerMask
    <3> QED BY <3>1, FirstInSet
  <2>3. roles[First(References(m))] = "Reference"
    BY <2>2 DEF References
  <2>4. CASE c = First(References(m))
    BY <2>1, <2>3, <2>4
  <2>5. CASE c \in RoutedTo(First(References(m)))
    <3>1. roles[c] = "Measurement" /\ First(References(c)) = First(References(m))
      BY <2>5 DEF RoutedTo, Routed
    <3> QED BY <2>1, <3>1
  <2> QED BY <1>1, <2>1, <2>4, <2>5
<1>2. ASSUME Routed = {}, NEW g \in Plan, c \in g PROVE g = {c}
  BY <1>2 DEF Plan
<1> QED BY <1>1, <1>2

\* A step that touches no ring.
QuietBus ==
  /\ UNCHANGED <<rings, cbTodo, conOverlap>>
  /\ cbTodo = {} \/ cbBlock' = cbBlock
  /\ Draining /\ CallbackWriting' => CallbackWriting
  /\ disturbed' = {} => disturbed = {} /\ UNCHANGED <<roles, tf, preparedChannels>>
QuietRead ==
  \/ UNCHANGED <<conPc, conTodo, conPlan, conGroup, conHop>>
  \/ /\ {conPc, conPc'} \cap {"discard", "drain", "account", "lower"} = {}
     /\ conPc' \in {"sample", "peek"} =>
          conPc \in {"sample", "peek"} /\ UNCHANGED <<conPlan, conGroup>>

\* It keeps the rings aligned.
LEMMA QuietAligned ==
  ASSUME AlignIInv, TodoOnlyWriting', QuietBus, QuietRead
  PROVE  AlignIInv'
<1>1. Draining' <=> Draining
  BY DEF QuietRead, Draining
<1>2. \A c \in Ch : Settled(c)' = Settled(c)
  BY DEF QuietRead, QuietBus, Settled
<1>3. disturbed' = {} => disturbed = {} /\ Plan' = Plan
  BY PlanUnchanged DEF QuietBus
<1>4. RingsAligned'
  <2>1. \A group \in Plan : group \subseteq Ch
    BY PlanGroups
  <2> QED BY <1>1, <1>2, <1>3, <2>1 DEF AlignIInv, RingsAligned
<1>5. PairedHopAligned'
  BY <1>3 DEF QuietRead, AlignIInv, PairedHopAligned
<1>6. GroupIsPlanned'
  <2> SUFFICES ASSUME conPc' \in {"sample", "peek", "discard"}, disturbed' = {}
               PROVE  conGroup' \in Plan' /\ conPlan' \subseteq Plan'
    BY DEF GroupIsPlanned
  <2>1. conPc \in {"sample", "peek", "discard"} /\ conGroup' = conGroup /\ conPlan' = conPlan
    BY DEF QuietRead
  <2> QED BY <1>3, <2>1 DEF AlignIInv, GroupIsPlanned
<1>7. DrainAlone'
  BY <1>1 DEF QuietRead, QuietBus, AlignIInv, DrainAlone, Draining
<1> QED BY <1>4, <1>5, <1>6, <1>7 DEF AlignIInv

\* The callback has taken its snapshot of the roles: it will write every live ring.
LEMMA RolesAligned ==
  ASSUME TypeOK, IInv, AlignIInv, CbRoles
  PROVE  AlignIInv'
<1>1. PICK n \in Received :
        /\ cbTodo' = {c \in Live : c < n}
        /\ disturbed' = IF \E c \in Live : c >= n THEN disturbed \cup {"short"} ELSE disturbed
  BY DEF CbRoles
<1>2. /\ cbPc = "roles" /\ cbPc' = IF cbTodo' = {} THEN "idle" ELSE "write"
      /\ UNCHANGED <<cbBlock, rings, conPc, conTodo, conPlan, conGroup, conHop, conOverlap,
                     roles, tf, preparedChannels>>
  BY DEF CbRoles, busVars, sessVars, conVars, readVars, roleVars
<1>3. Live' = Live /\ Plan' = Plan /\ cbTodo = {}
  BY <1>2, PlanUnchanged DEF AlignIInv, TodoOnlyWriting
<1>4. disturbed' = {} => disturbed = {} /\ cbTodo' = Live
  <2>1. n \in Nat /\ \A c \in Live : c \in Nat
    BY CaptureBusAssumption DEF Live, writerMask, Ch
  <2> QED BY <1>1, <2>1
<1>5. RingsAligned'
  <2> SUFFICES ASSUME disturbed' = {}, ~Draining', NEW group \in Plan, NEW c \in group,
                      NEW d \in group
               PROVE  Settled(c)' = Settled(d)'
    BY <1>3 DEF RingsAligned
  <2>1. Settled(c) = Settled(d)
    BY <1>2, <1>4 DEF AlignIInv, RingsAligned, Draining
  <2>2. c \notin cbTodo /\ d \notin cbTodo /\ c \in cbTodo' /\ d \in cbTodo'
    BY <1>3, <1>4, PlanGroups
  <2>3. Settled(c)' = Append(Settled(c), cbBlock) /\ Settled(d)' = Append(Settled(d), cbBlock)
    BY <1>2, <2>2 DEF Settled
  <2> QED BY <2>1, <2>3
<1>6. TodoOnlyWriting'
  BY <1>2 DEF TodoOnlyWriting
<1>7. GroupIsPlanned' /\ PairedHopAligned'
  BY <1>2, <1>3, <1>4 DEF AlignIInv, GroupIsPlanned, PairedHopAligned
<1>8. DrainAlone'
  BY <1>2 DEF AlignIInv, DrainAlone, Draining, CallbackWriting
<1> QED BY <1>5, <1>6, <1>7, <1>8 DEF AlignIInv

\* One ring of the callback's block.
LEMMA WriteAligned ==
  ASSUME TypeOK, IInv, AlignIInv, CbWrite
  PROVE  AlignIInv'
<1> DEFINE k == First(cbTodo)
<1>1. k \in cbTodo /\ k \in Ch /\ cbTodo \in SUBSET Ch
  BY FirstInSet DEF CbWrite, IInv, LoopsHaveWork, TypeOK
<1>2. /\ cbPc = "write" /\ cbTodo' = cbTodo \ {k}
      /\ cbPc' = IF cbTodo' = {} THEN "idle" ELSE "write"
      /\ UNCHANGED <<cbBlock, conPc, conTodo, conPlan, conGroup, conHop, conHops, conOverlap,
                     roles, tf, preparedChannels>>
      /\ \/ rings' = [rings EXCEPT ![k] = Append(@, cbBlock)] /\ UNCHANGED disturbed
         \/ "drop" \in disturbed' /\ UNCHANGED rings
         \/ k \notin UNION Plan /\ UNCHANGED <<rings, disturbed>>
  BY DEF CbWrite, sessVars, conVars, readVars, roleVars
<1> HIDE DEF k
<1>3. Plan' = Plan
  BY <1>2, PlanUnchanged
<1>4. disturbed' = {} =>
        /\ disturbed = {}
        /\ \/ rings' = [rings EXCEPT ![k] = Append(@, cbBlock)]
           \/ k \notin UNION Plan /\ UNCHANGED rings
  BY <1>2
<1>5. RingsAligned'
  <2> SUFFICES ASSUME disturbed' = {}, ~Draining'
               PROVE  \A c \in UNION Plan : Settled(c)' = Settled(c)
    BY <1>2, <1>3, <1>4 DEF AlignIInv, RingsAligned, Draining
  <2> TAKE c \in UNION Plan
  <2>1. c \in Ch /\ rings \in [Ch -> Seq(Nat)]
    BY PlanGroups DEF TypeOK
  <2>2. CASE c # k
    <3>1. rings'[c] = rings[c] /\ (c \in cbTodo' <=> c \in cbTodo)
      BY <1>1, <1>2, <1>4, <2>1, <2>2
    <3> QED BY <1>2, <3>1 DEF Settled
  <2>3. CASE c = k
    <3>1. rings'[c] = Append(rings[c], cbBlock) /\ c \in cbTodo /\ c \notin cbTodo'
      BY <1>1, <1>2, <1>4, <2>1, <2>3
    <3>2. CASE conPc = "discard" /\ c \in conTodo
      <4>1. rings[c] \in Seq(Nat) /\ Len(rings[c]) > 0 /\ cbBlock \in Nat
        <5>1. c \in conGroup /\ Len(rings[c]) >= conHops + 1
          BY <3>2 DEF IInv, HopsAvailable
        <5> QED BY <2>1, <5>1, LiveTypes DEF TypeOK
      <4>2. Tail(Append(rings[c], cbBlock)) = Append(Tail(rings[c]), cbBlock)
        BY <4>1, AppendTail
      <4> QED BY <1>2, <3>1, <3>2, <4>2 DEF Settled
    <3>3. CASE ~(conPc = "discard" /\ c \in conTodo)
      BY <1>2, <3>1, <3>3 DEF Settled
    <3> QED BY <3>2, <3>3
  <2> QED BY <2>2, <2>3
<1>6. TodoOnlyWriting'
  BY <1>2 DEF TodoOnlyWriting
<1>7. GroupIsPlanned' /\ PairedHopAligned'
  BY <1>2, <1>3, <1>4 DEF AlignIInv, GroupIsPlanned, PairedHopAligned
<1>8. DrainAlone'
  BY <1>2 DEF AlignIInv, DrainAlone, Draining, CallbackWriting
<1> QED BY <1>5, <1>6, <1>7, <1>8 DEF AlignIInv

\* The consumer begins to drain, empties a ring, accounts, and lowers the gate.
LEMMA DrainAligned ==
  ASSUME TypeOK, IInv, AlignIInv, ConAckMark \/ ConDrain \/ ConAccount \/ ConLower
  PROVE  AlignIInv'
<1> USE DEF busVars, accVars, sessVars, cbVars, devVars, waitVars, readVars, conVars, roleVars
<1>1. UNCHANGED <<cbPc, cbBlock, cbTodo, roles, tf, preparedChannels>>
  BY DEF ConAckMark, ConDrain, ConAccount, ConLower
<1>2. TodoOnlyWriting'
  BY <1>1 DEF AlignIInv, TodoOnlyWriting
<1>3. CASE ConAckMark /\ conPc' # "drain"
  <2>1. conPc = "ackMark" /\ conPc' = "read" /\ UNCHANGED <<rings, disturbed, conOverlap>>
    BY <1>3 DEF ConAckMark
  <2>2. QuietBus /\ QuietRead
    BY <1>1, <2>1 DEF QuietBus, QuietRead, CallbackWriting
  <2> QED BY <1>2, <2>2, QuietAligned
<1>4. CASE ConAckMark /\ conPc' = "drain"
  <2>1. conTodo' = Ch /\ conOverlap' = CallbackWriting
    BY <1>4 DEF ConAckMark
  <2>2. ~conOverlap' => ~CallbackWriting
    BY <2>1
  <2>3. DrainAlone'
    BY <1>1, <1>4, <2>1, <2>2 DEF DrainAlone, CallbackWriting
  <2>4. RingsAligned' /\ PairedHopAligned' /\ GroupIsPlanned'
    BY <1>4 DEF RingsAligned, PairedHopAligned, GroupIsPlanned, Draining
  <2> QED BY <1>2, <2>3, <2>4 DEF AlignIInv
<1>5. CASE ConDrain
  <2> DEFINE k == First(conTodo)
  <2>1. k \in conTodo /\ k \in Ch /\ rings \in [Ch -> Seq(Nat)]
    BY <1>5, FirstInSet DEF ConDrain, IInv, LoopsHaveWork, TypeOK
  <2>2. /\ conPc = "drain" /\ rings' = [rings EXCEPT ![k] = <<>>] /\ conTodo' = conTodo \ {k}
        /\ conPc' = IF conTodo' = {} THEN "account" ELSE "drain"
        /\ UNCHANGED conOverlap
    BY <1>5 DEF ConDrain, histVars
  <2> HIDE DEF k
  <2>3. DrainAlone'
    BY <1>1, <2>1, <2>2 DEF AlignIInv, DrainAlone, Draining, CallbackWriting
  <2>4. RingsAligned' /\ PairedHopAligned' /\ GroupIsPlanned'
    BY <2>2 DEF RingsAligned, PairedHopAligned, GroupIsPlanned, Draining
  <2> QED BY <1>2, <2>3, <2>4 DEF AlignIInv
<1>6. CASE ConAccount
  <2>1. conPc = "account" /\ conPc' = "lower" /\ UNCHANGED <<rings, conOverlap>>
    BY <1>6 DEF ConAccount, histVars
  <2>2. DrainAlone'
    BY <1>1, <2>1 DEF AlignIInv, DrainAlone, Draining, CallbackWriting
  <2>3. RingsAligned' /\ PairedHopAligned' /\ GroupIsPlanned'
    BY <2>1 DEF RingsAligned, PairedHopAligned, GroupIsPlanned, Draining
  <2> QED BY <1>2, <2>2, <2>3 DEF AlignIInv
<1>7. CASE ConLower
  <2>1. /\ conPc = "lower" /\ conPc' = "read" /\ UNCHANGED rings
        /\ disturbed' = IF conOverlap THEN {"overlap"} ELSE {}
    BY <1>7 DEF ConLower
  <2>2. RingsAligned'
    <3> SUFFICES ASSUME disturbed' = {} PROVE \A c \in Ch : Settled(c)' = <<>>
      BY <1>1, PlanUnchanged, PlanGroups DEF RingsAligned
    <3>1. ~conOverlap
      BY <2>1
    <3>2. ~CallbackWriting /\ \A c \in Ch : rings[c] = <<>>
      BY <2>1, <3>1 DEF AlignIInv, DrainAlone, Draining
    <3>3. cbTodo' = {}
      BY <1>1, <3>2 DEF CallbackWriting, AlignIInv, TodoOnlyWriting
    <3> QED BY <2>1, <3>2, <3>3 DEF Settled
  <2>3. PairedHopAligned' /\ GroupIsPlanned' /\ DrainAlone'
    BY <2>1 DEF PairedHopAligned, GroupIsPlanned, DrainAlone, Draining
  <2> QED BY <1>2, <2>2, <2>3 DEF AlignIInv
<1> QED BY <1>3, <1>4, <1>5, <1>6, <1>7

\* The paired read: the group is chosen, a hop of all its rings is peeked, and
\* discarded ring by ring.
LEMMA ReadAligned ==
  ASSUME TypeOK, IInv, AlignIInv, ConRead \/ ConPeek \/ ConDiscard \/ ConDone
  PROVE  AlignIInv'
<1> USE DEF busVars, accVars, sessVars, cbVars, devVars, waitVars, readVars, conVars, roleVars,
      histVars
<1>1. UNCHANGED <<cbPc, cbBlock, cbTodo, roles, tf, preparedChannels, disturbed, conOverlap>>
  BY DEF ConRead, ConPeek, ConDiscard, ConDone
<1>2. TodoOnlyWriting' /\ Plan' = Plan /\ \A group \in Plan : group \subseteq Ch
  BY <1>1, PlanUnchanged, PlanGroups DEF AlignIInv, TodoOnlyWriting
<1>3. CASE ConRead \/ ConDone
  <2>1. /\ conPc \in {"read", "peek"} /\ UNCHANGED rings /\ conPc' \in {"tick", "sample"}
        /\ conPc' = "sample" /\ disturbed = {} => conGroup' \in Plan /\ conPlan' \subseteq Plan
    BY <1>3 DEF ConRead, ConDone, BeginGroup, AlignIInv, GroupIsPlanned
  <2>2. \A c \in Ch : Settled(c)' = Settled(c)
    BY <1>1, <2>1 DEF Settled
  <2>3. RingsAligned'
    BY <1>1, <1>2, <2>1, <2>2 DEF AlignIInv, RingsAligned, Draining
  <2>4. PairedHopAligned' /\ GroupIsPlanned' /\ DrainAlone'
    BY <1>1, <1>2, <2>1 DEF PairedHopAligned, GroupIsPlanned, DrainAlone, Draining
  <2> QED BY <1>2, <2>3, <2>4 DEF AlignIInv
<1>4. CASE ConPeek
  <2>1. /\ conPc = "peek" /\ conHops > 0 /\ conPc' = "discard" /\ conTodo' = conGroup
        /\ conHop' = [c \in Ch |-> IF c \in conGroup THEN Head(rings[c]) ELSE 0]
        /\ UNCHANGED <<rings, conPlan, conGroup>>
    BY <1>4 DEF ConPeek
  <2>2. disturbed = {} => conGroup \in Plan /\ conPlan \subseteq Plan
    BY <2>1 DEF AlignIInv, GroupIsPlanned
  <2>3. ASSUME NEW c \in conGroup
        PROVE  /\ c \in Ch /\ Settled(c)' = Tail(Settled(c))
               /\ conHop'[c] = Head(Settled(c))
    <3>1. c \in Ch /\ rings[c] \in Seq(Nat) /\ Len(rings[c]) > 0 /\ cbBlock \in Nat
      <4>1. c \in Ch /\ Len(rings[c]) >= conHops /\ conHops \in Nat
        BY <2>1 DEF IInv, HopsAvailable, TypeOK
      <4> QED BY <2>1, <4>1, LiveTypes
    <3>2. /\ Tail(Append(rings[c], cbBlock)) = Append(Tail(rings[c]), cbBlock)
          /\ Head(Append(rings[c], cbBlock)) = Head(rings[c])
      BY <3>1, AppendTail
    <3>3. Settled(c) = IF c \in cbTodo THEN Append(rings[c], cbBlock) ELSE rings[c]
      BY <2>1 DEF Settled
    <3>4. Settled(c)' = IF c \in cbTodo THEN Append(Tail(rings[c]), cbBlock) ELSE Tail(rings[c])
      BY <1>1, <2>1 DEF Settled
    <3> QED BY <2>1, <3>1, <3>2, <3>3, <3>4
  <2>4. \A c \in Ch \ conGroup : Settled(c)' = Settled(c)
    BY <1>1, <2>1 DEF Settled
  <2>5. RingsAligned'
    <3> SUFFICES ASSUME disturbed = {}, NEW group \in Plan, NEW c \in group, NEW d \in group
                 PROVE  Settled(c)' = Settled(d)'
      BY <1>1, <1>2 DEF RingsAligned
    <3>1. Settled(c) = Settled(d)
      BY <2>1 DEF AlignIInv, RingsAligned, Draining
    <3>2. c \in Ch /\ d \in Ch /\ (c \in conGroup <=> d \in conGroup)
      BY <1>2, <2>2, PlanDisjoint
    <3> QED BY <2>3, <2>4, <3>1, <3>2
  <2>6. PairedHopAligned'
    <3> SUFFICES ASSUME disturbed = {}, NEW c \in conGroup, NEW d \in conGroup
                 PROVE  conHop'[c] = conHop'[d]
      BY <1>1, <2>1 DEF PairedHopAligned
    <3>1. Settled(c) = Settled(d)
      BY <2>1, <2>2 DEF AlignIInv, RingsAligned, Draining
    <3> QED BY <2>3, <3>1
  <2>7. GroupIsPlanned' /\ DrainAlone'
    BY <1>1, <1>2, <2>1, <2>2 DEF GroupIsPlanned, DrainAlone, Draining
  <2> QED BY <1>2, <2>5, <2>6, <2>7 DEF AlignIInv
<1>5. CASE ConDiscard
  <2> DEFINE k == First(conTodo)
  <2>1. k \in conTodo /\ k \in Ch /\ rings \in [Ch -> Seq(Nat)]
    BY <1>5, FirstInSet DEF ConDiscard, IInv, LoopsHaveWork, TypeOK
  <2>2. /\ conPc = "discard" /\ rings' = [rings EXCEPT ![k] = Tail(@)] /\ conTodo' = conTodo \ {k}
        /\ conPc' = IF conTodo' = {} THEN "peek" ELSE "discard"
        /\ UNCHANGED <<conPlan, conGroup, conHop>>
    BY <1>5 DEF ConDiscard
  <2> HIDE DEF k
  <2>3. \A c \in Ch : Settled(c)' = Settled(c)
    <3> TAKE c \in Ch
    <3>1. CASE c = k
      <4>1. rings'[c] = Tail(rings[c]) /\ c \in conTodo /\ c \notin conTodo'
        BY <2>1, <2>2, <3>1
      <4> QED BY <1>1, <2>2, <4>1 DEF Settled
    <3>2. CASE c # k
      <4>1. rings'[c] = rings[c] /\ (c \in conTodo' <=> c \in conTodo)
        BY <2>1, <2>2, <3>2
      <4>2. conPc' = "discard" /\ c \in conTodo' <=> c \in conTodo
        BY <2>2, <4>1
      <4> QED BY <1>1, <2>2, <4>1, <4>2 DEF Settled
    <3> QED BY <3>1, <3>2
  <2>4. RingsAligned'
    <3> QED BY <1>1, <1>2, <2>2, <2>3 DEF AlignIInv, RingsAligned, Draining
  <2>5. PairedHopAligned' /\ GroupIsPlanned' /\ DrainAlone'
    BY <1>1, <1>2, <2>2 DEF AlignIInv, PairedHopAligned, GroupIsPlanned, DrainAlone, Draining
  <2> QED BY <1>2, <2>4, <2>5 DEF AlignIInv
<1> QED BY <1>3, <1>4, <1>5

\* Every step keeps the rings aligned.
LEMMA AlignStep == TypeOK /\ IInv /\ AlignIInv /\ [Next]_vars => AlignIInv'
<1> SUFFICES ASSUME TypeOK, IInv, AlignIInv, [Next]_vars PROVE AlignIInv'
  OBVIOUS
<1> USE DEF busVars, accVars, sessVars, cbVars, devVars, waitVars, readVars, conVars, roleVars,
      histVars
<1>1. CASE CbEnter
  <2>1. cbTodo = {}
    BY <1>1 DEF CbEnter, AlignIInv, TodoOnlyWriting
  <2>2. QuietBus /\ QuietRead /\ TodoOnlyWriting'
    BY <1>1, <2>1 DEF CbEnter, QuietBus, QuietRead, TodoOnlyWriting, CallbackWriting
  <2> QED BY <2>2, QuietAligned
<1>2. CASE CbGate
  <2>1. cbTodo = {} /\ cbTodo' = cbTodo
    BY <1>2 DEF CbGate, AlignIInv, TodoOnlyWriting
  <2>2. Draining => resyncPending
    BY DEF IInv, GateUpWhileServing, Draining
  <2>3. Draining /\ CallbackWriting' => CallbackWriting
    BY <1>2, <2>2 DEF CbGate, CallbackWriting
  <2>4. QuietBus /\ QuietRead /\ TodoOnlyWriting'
    BY <1>2, <2>1, <2>3 DEF CbGate, QuietBus, QuietRead, TodoOnlyWriting
  <2> QED BY <2>4, QuietAligned
<1>3. CASE Device
  <2>1. QuietRead /\ UNCHANGED <<cbPc, cbBlock, cbTodo, rings, conOverlap>>
    BY <1>3 DEF Device, DevPrepare, DevAttached, DevRaiseLoad, DevRaiseStore, DevRaiseSeq,
       DevRaisePending, DevEpoch, DevActivate, DevDeactivate, DevStopped, QuietRead
  <2>2. disturbed' = {} => disturbed = {} /\ UNCHANGED <<roles, tf, preparedChannels>>
    BY <1>3 DEF Device, DevPrepare, DevAttached, DevRaiseLoad, DevRaiseStore, DevRaiseSeq,
       DevRaisePending, DevEpoch, DevActivate, DevDeactivate, DevStopped
  <2>3. QuietBus /\ TodoOnlyWriting'
    BY <2>1, <2>2 DEF QuietBus, CallbackWriting, AlignIInv, TodoOnlyWriting
  <2> QED BY <2>1, <2>3, QuietAligned
<1>4. CASE Message
  <2>1. PICK c \in Ch : SetRole(c) \/ SetTransferFunction(c)
    BY <1>4 DEF Message
  <2>2. QuietBus /\ QuietRead /\ TodoOnlyWriting'
    BY <2>1 DEF SetRole, SetTransferFunction, QuietBus, QuietRead, CallbackWriting, AlignIInv, TodoOnlyWriting
  <2> QED BY <2>2, QuietAligned
<1>5. CASE \/ ConMask \/ ConRaiseLoad \/ ConRaiseStore \/ ConRaiseSeq \/ ConRaisePending
           \/ ConPending \/ ConAckSeen \/ ConSample \/ Lifecycle
  <2>1. QuietRead /\ UNCHANGED <<cbPc, cbBlock, cbTodo, rings, conOverlap, roles, tf,
                                preparedChannels>>
    BY <1>5 DEF ConMask, ConRaiseLoad, ConRaiseStore, ConRaiseSeq, ConRaisePending, ConPending,
       ConAckSeen, ConSample, Lifecycle, ConWithdraw, ConDetach, ConAttach, QuietRead
  <2>2. disturbed' = {} => disturbed = {}
    BY <1>5 DEF ConMask, ConRaiseLoad, ConRaiseStore, ConRaiseSeq, ConRaisePending, ConPending,
       ConAckSeen, ConSample, Lifecycle, ConWithdraw, ConDetach, ConAttach
  <2>3. QuietBus /\ TodoOnlyWriting'
    BY <2>1, <2>2 DEF QuietBus, CallbackWriting, AlignIInv, TodoOnlyWriting
  <2> QED BY <2>1, <2>3, QuietAligned
<1>6. CASE UNCHANGED vars
  <2>1. QuietBus /\ QuietRead /\ TodoOnlyWriting'
    BY <1>6 DEF vars, QuietBus, QuietRead, CallbackWriting, AlignIInv, TodoOnlyWriting
  <2> QED BY <2>1, QuietAligned
<1> QED BY <1>1, <1>2, <1>3, <1>4, <1>5, <1>6, RolesAligned, WriteAligned, DrainAligned,
        ReadAligned
      DEF Next, Callback, Service, Tick

\* CaptureBus and AnalysisThread::drainPaired: after a resync, and until one of the
\* events RingsAligned lists, the rings a tick reads together hold the same callbacks'
\* blocks and every hop read off them pairs blocks of one callback, whatever groups
\* the roles and indices make.
THEOREM RingsStayAligned == Spec => []AlignedInv
<1>1. Init => TypeOK /\ IInv /\ AlignIInv
  BY InitInv, AlignBegins
<1>2. TypeOK /\ IInv /\ AlignIInv /\ [Next]_vars => (TypeOK /\ IInv /\ AlignIInv)'
  BY TypeStep, GateStep, AlignStep
<1>3. AlignIInv => AlignedInv
  BY DEF AlignIInv, AlignedInv
<1> QED BY <1>1, <1>2, <1>3, PTL DEF Spec
===============================================================================
