------------------------------ MODULE CaptureBus ------------------------------
(***************************************************************************)
(* rta::platform::CaptureBus: one lock-free ring per channel between the   *)
(* audio callback and the analysis thread, and the resync gate that        *)
(* empties every ring on one callback boundary after a device              *)
(* reconfiguration or a change of the set of written channels.             *)
(*                                                                         *)
(* Four threads, one step per atomic access that another thread can see:   *)
(*   callback  pushFromCallback                                            *)
(*   device    prepare / setActive, as AudioIo's device callbacks call it  *)
(*   message   ChannelConfig::setRole, setTransferFunction                 *)
(*   consumer  serviceResyncAsConsumer, then the read of a tick: one group *)
(*             of rings per distinct reference, or each role alone         *)
(*                                                                         *)
(* DATA.  A block of samples is the number of the callback that delivered  *)
(* it; a hop is one block.  Two rings are aligned when they hold the same  *)
(* block numbers.  A local of a call is reset when the call is done with it. *)
(***************************************************************************)
EXTENDS Integers, Sequences, FiniteSets

CONSTANTS
  NumChannels,     \* kMaxChannels
  Capacity,        \* ring capacity, in blocks
  AckTicks,        \* waiting ticks before the consumer drains unacknowledged
  Received,        \* channel counts a callback may deliver
  Prepared,        \* channel counts a device may be prepared with
  TfIndices,       \* transfer-function indices the operator uses
  InitialRouting,  \* role and index of the channels before the first step
  MaxBlocks,       \* bound: callbacks that get past the active check
  MaxPrepares,     \* bound: device (re)configurations
  MaxRoleChanges   \* bound: operator changes of a role or an index

Ch == 0 .. NumChannels - 1
Roles == {"Unused", "Measurement", "Reference"}

ASSUME CaptureBusAssumption ==
  /\ NumChannels \in Nat \ {0}
  /\ Capacity \in Nat \ {0}
  /\ AckTicks \in Nat
  /\ Received \subseteq 1..NumChannels
  /\ Prepared \subseteq 0..NumChannels
  /\ TfIndices \subseteq Nat
  /\ InitialRouting \subseteq [roles : [Ch -> Roles], tf : [Ch -> TfIndices]]
  /\ MaxBlocks \in Nat
  /\ MaxPrepares \in Nat
  /\ MaxRoleChanges \in Nat

VARIABLES
  roles, tf,          \* role and transfer-function index of each channel
  active,             \* active_
  resyncPending,      \* the producer gate
  gateSeen,           \* callbacks that observed the gate up
  gateSeenAtRaise,    \* gateSeen as it stood when the gate last rose
  consumerAttached,
  resyncSeq,
  resyncFrames,
  resyncLostFrames,
  resyncAckTimeouts,
  drops,              \* drops[c], in blocks
  epoch,
  sampleRate,         \* the session whose rate the bus is labelled with
  preparedChannels,
  rings,              \* rings[c]: block numbers waiting in ring c
  cbPc, cbBlock, cbTodo,            \* callback: step, block number, rings left to write
  devPc, devSeen,                   \* device thread: step, its load of gateSeen
  conPc, conMask, conWait, conSeen, \* consumer: step, consumerWriterMask_, wait clock, load of gateSeen
  conReason, conTodo, conLargest,   \* consumer: why it drains, rings left to drain/discard, largest drain
  conPlan,                          \* consumer: groups of this tick's plan still to be read
  conGroup, conHops, conHop,        \* consumer: channels read together, hops left this tick, the hop peeked
  roleChanges,                      \* role changes so far (bound)
  disturbed, conOverlap             \* history: see RingsAligned

accVars  == <<resyncFrames, resyncLostFrames, resyncAckTimeouts, drops>>
sessVars == <<epoch, sampleRate, preparedChannels>>
busVars  == <<active, resyncPending, gateSeen, gateSeenAtRaise, consumerAttached,
              resyncSeq, accVars, sessVars>>
cbVars   == <<cbPc, cbBlock, cbTodo>>
devVars  == <<devPc, devSeen>>
waitVars == <<conMask, conWait, conSeen, conReason>>
readVars == <<conTodo, conLargest, conPlan, conGroup, conHops, conHop>>
conVars  == <<conPc, waitVars, readVars>>
roleVars == <<roles, tf, roleChanges>>
histVars == <<disturbed, conOverlap>>
vars == <<busVars, rings, cbVars, devVars, conVars, roleVars, histVars>>

CbPcs  == {"idle", "gate", "roles", "write"}
DevPcs == {"stopped", "attached", "raiseLoad", "raiseStore", "raiseSeq",
           "raisePending", "epoch", "activate", "running", "stopping"}
ConPcs == {"gone", "tick", "raiseLoad", "raiseStore", "raiseSeq", "raisePending",
           "pending", "ackSeen", "ackMark", "drain", "account", "lower",
           "read", "sample", "peek", "discard", "detach"}

-------------------------------------------------------------------------------
\* History only: what has happened since the last drain that a drain is for.
\* "missedRole" is a role change the next tick's comparison of masks did not see.
Causes == {"drop", "short", "prepare", "role", "missedRole", "overlap", "detach"}

\* Channels with a writer, ascending scans of a set of channels.
writerMask == {c \in Ch : roles[c] # "Unused"}
Live == {c \in writerMask : c < preparedChannels}
First(S) == CHOOSE c \in S : \A d \in S : c <= d

\* planRouting: a measurement is routed to the first reference of its index.
References(m) == {r \in Live : roles[r] = "Reference" /\ tf[r] = tf[m]}
Routed == {m \in Live : roles[m] = "Measurement" /\ References(m) # {}}
RoutedTo(r) == {m \in Routed : First(References(m)) = r}

\* drain: what a tick reads together.  One group per distinct reference; with no
\* route, the first channel of either role alone.  A measurement without a
\* reference beside others that have one, and a second channel of a role with no
\* route, are written but not read.
Holders(role) == {c \in Ch : roles[c] = role}
Plan ==
  IF Routed # {}
    THEN {{r} \cup RoutedTo(r) : r \in {First(References(m)) : m \in Routed}}
    ELSE {{First(Holders(role))} : role \in {x \in {"Measurement", "Reference"} :
                                     Holders(x) # {} /\ First(Holders(x)) \in Live}}
\* A callback past its gate check still owns the rings it will write.
CallbackWriting == cbPc \in {"roles", "write"}
Draining == conPc \in {"drain", "account", "lower"}

Init ==
  /\ \E routing \in InitialRouting : roles = routing.roles /\ tf = routing.tf
  /\ active = FALSE
  /\ resyncPending = FALSE
  /\ gateSeen = 0
  /\ gateSeenAtRaise = 0
  /\ consumerAttached = TRUE
  /\ resyncSeq = 0
  /\ resyncFrames = 0
  /\ resyncLostFrames = 0
  /\ resyncAckTimeouts = 0
  /\ drops = [c \in Ch |-> 0]
  /\ epoch = 0
  /\ sampleRate = 0
  /\ preparedChannels = 0
  /\ rings = [c \in Ch |-> <<>>]
  /\ cbPc = "idle" /\ cbBlock = 0 /\ cbTodo = {}
  /\ devPc = "stopped" /\ devSeen = 0
  /\ conPc = "tick" /\ conMask = writerMask /\ conWait = 0 /\ conSeen = 0
  /\ conReason = "none" /\ conTodo = {} /\ conLargest = 0
  /\ conPlan = {} /\ conGroup = {} /\ conHops = 0 /\ conHop = [c \in Ch |-> 0]
  /\ roleChanges = 0
  /\ disturbed = {} /\ conOverlap = FALSE

-------------------------------------------------------------------------------
(* The audio callback: pushFromCallback.                                   *)

\* Past the active check; an inactive bus returns and changes nothing.
CbEnter ==
  /\ cbPc = "idle" /\ devPc = "running" /\ active
  /\ cbBlock < MaxBlocks
  /\ cbPc' = "gate"
  /\ cbBlock' = cbBlock + 1
  /\ UNCHANGED <<cbTodo, busVars, rings, devVars, conVars, roleVars, histVars>>

\* One load of the gate.  Up: acknowledge, count the refused frames, return.
CbGate ==
  /\ cbPc = "gate"
  /\ IF resyncPending
       THEN /\ gateSeen' = gateSeen + 1
            /\ resyncFrames' = resyncFrames + 1
            /\ resyncLostFrames' = resyncLostFrames + 1
            /\ cbPc' = "idle"
       ELSE /\ cbPc' = "roles"
            /\ UNCHANGED <<gateSeen, resyncFrames, resyncLostFrames>>
  /\ UNCHANGED <<cbBlock, cbTodo, active, resyncPending, gateSeenAtRaise,
                 consumerAttached, resyncSeq, resyncAckTimeouts, drops,
                 sessVars, rings, devVars, conVars, roleVars, histVars>>

\* Snapshot of the role table, clipped to the channels this block delivered
\* and to the channels the bus was prepared for.
CbRoles ==
  /\ cbPc = "roles"
  /\ \E n \in Received :
       /\ cbTodo' = {c \in Live : c < n}
       /\ disturbed' = IF \E c \in Live : c >= n THEN disturbed \cup {"short"}
                                                  ELSE disturbed
  /\ cbPc' = IF cbTodo' = {} THEN "idle" ELSE "write"
  /\ UNCHANGED <<cbBlock, busVars, rings, devVars, conVars, roleVars,
                 conOverlap>>

\* One ring: the whole block, or none of it and a counted drop.
CbWrite ==
  /\ cbPc = "write"
  /\ LET c == First(cbTodo) IN
       /\ IF Len(rings[c]) < Capacity
            THEN /\ rings' = [rings EXCEPT ![c] = Append(@, cbBlock)]
                 /\ UNCHANGED <<drops, disturbed>>
            ELSE /\ drops' = [drops EXCEPT ![c] = @ + 1]
                 /\ disturbed' = IF c \in UNION Plan THEN disturbed \cup {"drop"}
                                                     ELSE disturbed
                 /\ UNCHANGED rings
       /\ cbTodo' = cbTodo \ {c}
  /\ cbPc' = IF cbTodo' = {} THEN "idle" ELSE "write"
  /\ UNCHANGED <<cbBlock, active, resyncPending, gateSeen, gateSeenAtRaise,
                 consumerAttached, resyncSeq, resyncFrames, resyncLostFrames,
                 resyncAckTimeouts, sessVars, devVars, conVars, roleVars,
                 conOverlap>>

-------------------------------------------------------------------------------
(* The device thread.  AudioIo calls prepare() with the callback quiesced  *)
(* (JUCE has not inserted it yet), then setActive(true).                   *)

DevPrepare ==
  /\ devPc = "stopped" /\ cbPc = "idle" /\ epoch < MaxPrepares
  /\ \E n \in Prepared : preparedChannels' = n
  /\ drops' = [c \in Ch |-> 0]
  /\ resyncFrames' = 0
  /\ sampleRate' = epoch + 1
  /\ devPc' = "attached"
  /\ disturbed' = disturbed \cup {"prepare"}
  /\ UNCHANGED <<active, resyncPending, gateSeen, gateSeenAtRaise,
                 consumerAttached, resyncSeq, resyncLostFrames,
                 resyncAckTimeouts, epoch, rings, cbVars, devSeen, conVars,
                 roleVars, conOverlap>>

\* Only with a consumer to lower it does prepare() raise the gate.
DevAttached ==
  /\ devPc = "attached"
  /\ devPc' = IF consumerAttached THEN "raiseLoad" ELSE "epoch"
  /\ UNCHANGED <<devSeen, busVars, rings, cbVars, conVars, roleVars, histVars>>

\* raiseGate, load and store of the mark.  The mark goes in before the gate.
DevRaiseLoad ==
  /\ devPc = "raiseLoad"
  /\ devSeen' = gateSeen
  /\ devPc' = "raiseStore"
  /\ UNCHANGED <<busVars, rings, cbVars, conVars, roleVars, histVars>>

DevRaiseStore ==
  /\ devPc = "raiseStore"
  /\ gateSeenAtRaise' = devSeen
  /\ devPc' = "raiseSeq"
  /\ UNCHANGED <<devSeen, active, resyncPending, gateSeen, consumerAttached,
                 resyncSeq, accVars, sessVars, rings, cbVars, conVars, roleVars,
                 histVars>>

DevRaiseSeq ==
  /\ devPc = "raiseSeq"
  /\ resyncSeq' = resyncSeq + 1
  /\ devPc' = "raisePending"
  /\ UNCHANGED <<devSeen, active, resyncPending, gateSeen, gateSeenAtRaise,
                 consumerAttached, accVars, sessVars, rings, cbVars, conVars,
                 roleVars, histVars>>

DevRaisePending ==
  /\ devPc = "raisePending"
  /\ resyncPending' = TRUE
  /\ devPc' = "epoch"
  /\ devSeen' = 0
  /\ UNCHANGED <<active, gateSeen, gateSeenAtRaise, consumerAttached,
                 resyncSeq, accVars, sessVars, rings, cbVars, conVars, roleVars,
                 histVars>>

\* The gate is up before the epoch moves.
DevEpoch ==
  /\ devPc = "epoch"
  /\ epoch' = epoch + 1
  /\ devPc' = "activate"
  /\ UNCHANGED <<devSeen, active, resyncPending, gateSeen, gateSeenAtRaise,
                 consumerAttached, resyncSeq, accVars, sampleRate,
                 preparedChannels, rings, cbVars, conVars, roleVars, histVars>>

\* audioDeviceAboutToStart's last statement: from here callbacks count.
DevActivate ==
  /\ devPc = "activate"
  /\ active' = TRUE
  /\ devPc' = "running"
  /\ UNCHANGED <<devSeen, resyncPending, gateSeen, gateSeenAtRaise,
                 consumerAttached, resyncSeq, accVars, sessVars, rings, cbVars,
                 conVars, roleVars, histVars>>

\* stop(), audioDeviceStopped(), audioDeviceError(): the bus goes inactive
\* while a callback may still be past its own active check.
DevDeactivate ==
  /\ devPc = "running"
  /\ active' = FALSE
  /\ devPc' = "stopping"
  /\ UNCHANGED <<devSeen, resyncPending, gateSeen, gateSeenAtRaise,
                 consumerAttached, resyncSeq, accVars, sessVars, rings, cbVars,
                 conVars, roleVars, histVars>>

\* External (JUCE): removeAudioCallback blocks until the callback has returned.
DevStopped ==
  /\ devPc = "stopping" /\ cbPc = "idle"
  /\ devPc' = "stopped"
  /\ UNCHANGED <<devSeen, busVars, rings, cbVars, conVars, roleVars, histVars>>

-------------------------------------------------------------------------------
(* The message thread: one role or one index at a time.  A click in the    *)
(* routing matrix is a setRole and then a setTransferFunction.             *)

SetRole(c) ==
  /\ roleChanges < MaxRoleChanges
  /\ \E role \in Roles \ {roles[c]} : roles' = [roles EXCEPT ![c] = role]
  /\ roleChanges' = roleChanges + 1
  /\ disturbed' = disturbed \cup {"role"}
  /\ UNCHANGED <<tf, busVars, rings, cbVars, devVars, conVars, conOverlap>>

SetTransferFunction(c) ==
  /\ roleChanges < MaxRoleChanges
  /\ \E t \in TfIndices \ {tf[c]} : tf' = [tf EXCEPT ![c] = t]
  /\ roleChanges' = roleChanges + 1
  /\ disturbed' = disturbed \cup {"role"}
  /\ UNCHANGED <<roles, busVars, rings, cbVars, devVars, conVars, conOverlap>>

-------------------------------------------------------------------------------
(* The consumer: serviceResyncAsConsumer, once per tick, before any read.  *)

\* A change in the set of written channels since the last tick raises the gate.
ConMask ==
  /\ conPc = "tick"
  /\ conMask' = writerMask
  /\ IF writerMask # conMask
       THEN conPc' = "raiseLoad" /\ UNCHANGED disturbed
       ELSE /\ conPc' = "pending"
            /\ disturbed' = IF "role" \in disturbed
                              THEN (disturbed \ {"role"}) \cup {"missedRole"}
                              ELSE disturbed
  /\ UNCHANGED <<conWait, conSeen, conReason, readVars, busVars, rings, cbVars,
                 devVars, roleVars, conOverlap>>

\* Mutation of ConRaiseLoad: the mark starts at zero instead of the count.
ConRaiseLoadZero ==
  /\ conPc = "raiseLoad"
  /\ conSeen' = 0
  /\ conPc' = "raiseStore"
  /\ UNCHANGED <<conMask, conWait, conReason, readVars, busVars, rings, cbVars,
                 devVars, roleVars, histVars>>

ConRaiseLoad ==
  /\ conPc = "raiseLoad"
  /\ conSeen' = gateSeen
  /\ conPc' = "raiseStore"
  /\ UNCHANGED <<conMask, conWait, conReason, readVars, busVars, rings, cbVars,
                 devVars, roleVars, histVars>>

ConRaiseStore ==
  /\ conPc = "raiseStore"
  /\ gateSeenAtRaise' = conSeen
  /\ conPc' = "raiseSeq"
  /\ UNCHANGED <<waitVars, readVars, active, resyncPending, gateSeen,
                 consumerAttached, resyncSeq, accVars, sessVars, rings, cbVars,
                 devVars, roleVars, histVars>>

ConRaiseSeq ==
  /\ conPc = "raiseSeq"
  /\ resyncSeq' = resyncSeq + 1
  /\ conPc' = "raisePending"
  /\ UNCHANGED <<waitVars, readVars, active, resyncPending, gateSeen,
                 gateSeenAtRaise, consumerAttached, accVars, sessVars, rings,
                 cbVars, devVars, roleVars, histVars>>

ConRaisePending ==
  /\ conPc = "raisePending"
  /\ resyncPending' = TRUE
  /\ conPc' = "pending"
  /\ conSeen' = 0
  /\ UNCHANGED <<conMask, conWait, conReason, readVars, active, gateSeen,
                 gateSeenAtRaise, consumerAttached, resyncSeq, accVars, sessVars,
                 rings, cbVars, devVars, roleVars, histVars>>

\* Gate down: nothing to do, the wait clock stops.  Up: look for the proof.
ConPending ==
  /\ conPc = "pending"
  /\ IF resyncPending
       THEN conPc' = "ackSeen" /\ UNCHANGED conWait
       ELSE conPc' = "read" /\ conWait' = 0
  /\ UNCHANGED <<conMask, conSeen, conReason, readVars, busVars, rings, cbVars,
                 devVars, roleVars, histVars>>

ConAckSeen ==
  /\ conPc = "ackSeen"
  /\ conSeen' = gateSeen
  /\ conPc' = "ackMark"
  /\ UNCHANGED <<conMask, conWait, conReason, readVars, busVars, rings, cbVars,
                 devVars, roleVars, histVars>>

\* Mutations of DrainReason: any callback ever counts as the acknowledgement;
\* the wait has no bound.
DrainReasonNoMark ==
  IF conSeen # 0 THEN "acknowledged"
  ELSE IF ~active THEN "idle"
  ELSE IF conWait >= AckTicks THEN "timedOut"
  ELSE "none"
DrainReasonNoTimeout ==
  IF conSeen # gateSeenAtRaise THEN "acknowledged"
  ELSE IF ~active THEN "idle"
  ELSE "none"

\* Acknowledged, idle or timed out: drain.  Otherwise wait for the next tick.
DrainReason ==
  IF conSeen # gateSeenAtRaise THEN "acknowledged"
  ELSE IF ~active THEN "idle"
  ELSE IF conWait >= AckTicks THEN "timedOut"
  ELSE "none"

ConAckMark ==
  /\ conPc = "ackMark"
  /\ conReason' = DrainReason
  /\ resyncAckTimeouts' = IF DrainReason = "timedOut" THEN resyncAckTimeouts + 1
                                                      ELSE resyncAckTimeouts
  /\ IF DrainReason = "none"
       THEN /\ conPc' = "read"
            /\ conWait' = IF conWait < AckTicks THEN conWait + 1 ELSE conWait
            /\ UNCHANGED <<conTodo, conLargest, conOverlap>>
       ELSE /\ conPc' = "drain"
            /\ conTodo' = Ch
            /\ conLargest' = 0
            /\ conOverlap' = CallbackWriting
            /\ UNCHANGED conWait
  /\ conSeen' = 0
  /\ UNCHANGED <<conMask, conPlan, conGroup, conHops, conHop, active,
                 resyncPending, gateSeen, gateSeenAtRaise, consumerAttached,
                 resyncSeq, resyncFrames, resyncLostFrames, drops, sessVars,
                 rings, cbVars, devVars, roleVars, disturbed>>

\* Mutations of ConDrain: a ring without a writer is skipped; one block is
\* discarded instead of the whole backlog.
ConDrainWritten ==
  /\ conPc = "drain"
  /\ LET c == First(conTodo) IN
       /\ rings' = [rings EXCEPT ![c] = IF roles[c] # "Unused" THEN <<>> ELSE @]
       /\ conTodo' = conTodo \ {c}
  /\ conPc' = IF conTodo' = {} THEN "account" ELSE "drain"
  /\ UNCHANGED <<waitVars, conLargest, conPlan, conGroup, conHops, conHop, busVars, cbVars,
                 devVars, roleVars, histVars>>
ConDrainOne ==
  /\ conPc = "drain"
  /\ LET c == First(conTodo) IN
       /\ rings' = [rings EXCEPT ![c] = IF @ = <<>> THEN @ ELSE Tail(@)]
       /\ conTodo' = conTodo \ {c}
  /\ conPc' = IF conTodo' = {} THEN "account" ELSE "drain"
  /\ UNCHANGED <<waitVars, conLargest, conPlan, conGroup, conHops, conHop, busVars, cbVars,
                 devVars, roleVars, histVars>>

\* drainAsConsumer, one ring: discard everything it holds.
ConDrain ==
  /\ conPc = "drain"
  /\ LET c == First(conTodo) IN
       /\ rings' = [rings EXCEPT ![c] = <<>>]
       /\ conLargest' = IF Len(rings[c]) > conLargest THEN Len(rings[c]) ELSE conLargest
       /\ conTodo' = conTodo \ {c}
  /\ conPc' = IF conTodo' = {} THEN "account" ELSE "drain"
  /\ UNCHANGED <<waitVars, conPlan, conGroup, conHops, conHop, busVars, cbVars, devVars,
                 roleVars, histVars>>

\* What the drain threw away is lost time; the sequence moves a second time.
ConAccount ==
  /\ conPc = "account"
  /\ resyncLostFrames' = resyncLostFrames + conLargest
  /\ resyncSeq' = resyncSeq + 1
  /\ conLargest' = 0
  /\ conWait' = 0
  /\ conPc' = "lower"
  /\ UNCHANGED <<conMask, conSeen, conReason, conTodo, conPlan, conGroup, conHops, conHop, active, resyncPending,
                 gateSeen, gateSeenAtRaise, consumerAttached, resyncFrames,
                 resyncAckTimeouts, drops, sessVars, rings, cbVars, devVars,
                 roleVars, histVars>>

\* Lowered only after the drain.
ConLower ==
  /\ conPc = "lower"
  /\ resyncPending' = FALSE
  /\ conPc' = "read"
  /\ disturbed' = IF conOverlap THEN {"overlap"} ELSE {}
  /\ conReason' = "none" /\ conOverlap' = FALSE
  /\ UNCHANGED <<conMask, conWait, conSeen, readVars, active, gateSeen, gateSeenAtRaise,
                 consumerAttached, resyncSeq, accVars, sessVars, rings, cbVars,
                 devVars, roleVars>>

-------------------------------------------------------------------------------
(* The read half of a tick, AnalysisThread::drain / drainPaired / drainRole: *)
(* while the gate is up nothing is read; otherwise the groups of the plan    *)
(* are read one after the other.  The availability of each ring of a group   *)
(* is sampled once, the callback writing meanwhile, and each hop of the      *)
(* minimum peeks the whole group before any ring of it discards.             *)

BeginGroup(plan) ==
  /\ \E group \in plan :
       /\ conGroup' = group
       /\ conTodo' = group
       /\ conPlan' = plan \ {group}
  /\ conHops' = Capacity
  /\ conPc' = "sample"

ConRead ==
  /\ conPc = "read"
  /\ IF resyncPending \/ Plan = {}
       THEN conPc' = "tick" /\ UNCHANGED <<conTodo, conPlan, conGroup, conHops>>
       ELSE BeginGroup(Plan)
  /\ UNCHANGED <<waitVars, conLargest, conHop, busVars, rings, cbVars, devVars,
                 roleVars, histVars>>

\* Mutation of Fewer: one hop held back, without the test for none.
FewerLessOne(n, c) == IF Len(rings[c]) < n THEN Len(rings[c]) - 1 ELSE n
Fewer(n, c) == IF Len(rings[c]) < n THEN Len(rings[c]) ELSE n

ConSample ==
  /\ conPc = "sample"
  /\ LET c == First(conTodo) IN
       /\ conHops' = Fewer(conHops, c)
       /\ conTodo' = conTodo \ {c}
  /\ conPc' = IF conTodo' = {} THEN "peek" ELSE "sample"
  /\ UNCHANGED <<waitVars, conLargest, conPlan, conGroup, conHop, busVars, rings, cbVars,
                 devVars, roleVars, histVars>>

ConPeek ==
  /\ conPc = "peek" /\ conHops > 0
  /\ conHop' = [c \in Ch |-> IF c \in conGroup THEN Head(rings[c]) ELSE 0]
  /\ conTodo' = conGroup
  /\ conHops' = conHops - 1
  /\ conPc' = "discard"
  /\ UNCHANGED <<waitVars, conLargest, conPlan, conGroup, busVars, rings, cbVars,
                 devVars, roleVars, histVars>>

ConDiscard ==
  /\ conPc = "discard"
  /\ LET c == First(conTodo) IN
       /\ rings' = [rings EXCEPT ![c] = Tail(@)]
       /\ conTodo' = conTodo \ {c}
  /\ conPc' = IF conTodo' = {} THEN "peek" ELSE "discard"
  /\ UNCHANGED <<waitVars, conLargest, conPlan, conGroup, conHops, conHop, busVars,
                 cbVars, devVars, roleVars, histVars>>

ConDone ==
  /\ conPc = "peek" /\ conHops = 0
  /\ conHop' = [c \in Ch |-> 0]
  /\ IF conPlan = {}
       THEN conPc' = "tick" /\ conGroup' = {} /\ UNCHANGED <<conTodo, conPlan, conHops>>
       ELSE BeginGroup(conPlan)
  /\ UNCHANGED <<waitVars, conLargest, busVars, rings, cbVars, devVars, roleVars, histVars>>

\* The analysis thread ends (destructor, or an exception out of its tick):
\* detachConsumer withdraws, then lowers the gate.
ConWithdraw ==
  /\ conPc \in {"tick", "read", "peek"}
  /\ consumerAttached' = FALSE
  /\ conPc' = "detach"
  /\ UNCHANGED <<waitVars, readVars, active, resyncPending, gateSeen,
                 gateSeenAtRaise, resyncSeq, accVars, sessVars, rings, cbVars,
                 devVars, roleVars, histVars>>

ConDetach ==
  /\ conPc = "detach"
  /\ resyncPending' = FALSE
  /\ conPc' = "gone"
  /\ disturbed' = disturbed \cup {"detach"}
  /\ UNCHANGED <<waitVars, readVars, active, gateSeen, gateSeenAtRaise,
                 consumerAttached, resyncSeq, accVars, sessVars, rings, cbVars,
                 devVars, roleVars, conOverlap>>

\* attachConsumer, from the constructor of the next analysis thread.  A wait the
\* last consumer left unfinished is not reset; its clock ran on meanwhile.
ConAttach ==
  /\ conPc = "gone"
  /\ conMask' = writerMask
  /\ consumerAttached' = TRUE
  /\ conWait' \in IF conWait = 0 THEN {0} ELSE {conWait, AckTicks}
  /\ conPc' = "tick"
  /\ UNCHANGED <<conSeen, conReason, readVars, active, resyncPending, gateSeen,
                 gateSeenAtRaise, resyncSeq, accVars, sessVars, rings, cbVars,
                 devVars, roleVars, histVars>>

-------------------------------------------------------------------------------
Callback == CbEnter \/ CbGate \/ CbRoles \/ CbWrite
Device == \/ DevPrepare \/ DevAttached \/ DevRaiseLoad \/ DevRaiseStore
          \/ DevRaiseSeq \/ DevRaisePending \/ DevEpoch \/ DevActivate
          \/ DevDeactivate \/ DevStopped
Message == \E c \in Ch : SetRole(c) \/ SetTransferFunction(c)
Service == \/ ConMask \/ ConRaiseLoad \/ ConRaiseStore \/ ConRaiseSeq
           \/ ConRaisePending \/ ConPending \/ ConAckSeen \/ ConAckMark
           \/ ConDrain \/ ConAccount \/ ConLower
Tick == Service \/ ConRead \/ ConSample \/ ConPeek \/ ConDiscard \/ ConDone
Lifecycle == ConWithdraw \/ ConDetach \/ ConAttach

Next == Callback \/ Device \/ Message \/ Tick \/ Lifecycle

Spec == Init /\ [][Next]_vars

\* The analysis thread polls for ever, the callback it has entered returns, and
\* a started prepare() finishes.  Nothing makes a device deliver another block,
\* or the operator act.
FairSpec ==
  /\ Spec
  /\ WF_vars(Tick)
  /\ WF_vars(ConDetach)
  /\ WF_vars(CbGate \/ CbRoles \/ CbWrite)
  /\ WF_vars(DevAttached \/ DevRaiseLoad \/ DevRaiseStore \/ DevRaiseSeq
             \/ DevRaisePending \/ DevEpoch \/ DevActivate)

-------------------------------------------------------------------------------
\* Every variable keeps the type its C++ declaration gives it.
TypeOK ==
  /\ roles \in [Ch -> Roles] /\ tf \in [Ch -> TfIndices] /\ roleChanges \in Nat
  /\ active \in BOOLEAN /\ resyncPending \in BOOLEAN /\ consumerAttached \in BOOLEAN
  /\ gateSeen \in Nat /\ gateSeenAtRaise \in Nat
  /\ resyncSeq \in Nat /\ resyncFrames \in Nat /\ resyncLostFrames \in Nat
  /\ resyncAckTimeouts \in Nat /\ drops \in [Ch -> Nat]
  /\ epoch \in Nat /\ sampleRate \in Nat /\ preparedChannels \in Nat
  /\ rings \in [Ch -> Seq(Nat)]
  /\ cbPc \in CbPcs /\ cbBlock \in Nat /\ cbTodo \in SUBSET Ch
  /\ devPc \in DevPcs /\ devSeen \in Nat
  /\ conPc \in ConPcs /\ conMask \in SUBSET Ch /\ conWait \in Nat /\ conSeen \in Nat
  /\ conReason \in {"none", "acknowledged", "idle", "timedOut"}
  /\ conTodo \in SUBSET Ch /\ conLargest \in Nat
  /\ conPlan \in SUBSET SUBSET Ch /\ conGroup \in SUBSET Ch /\ conHops \in Nat /\ conHop \in [Ch -> Nat]
  /\ disturbed \in SUBSET Causes /\ conOverlap \in BOOLEAN

\* No callback is between its gate check and its last ring write while the
\* consumer empties the rings on an acknowledgement ("nothing is writing" is a
\* proof, not a hope: CaptureBus.h, Resync).
AckedDrainExclusive ==
  Draining /\ conReason = "acknowledged" => ~CallbackWriting

\* When an acknowledged drain lowers the gate, every ring is empty: all of them
\* restart on one callback boundary.
EmptyAtLower ==
  conPc \in {"account", "lower"} /\ conReason = "acknowledged" =>
    \A c \in Ch : rings[c] = <<>>

\* A ring as it will stand once the block being written and the hop being
\* discarded have gone through.
Settled(c) ==
  LET kept == IF conPc = "discard" /\ c \in conTodo THEN Tail(rings[c]) ELSE rings[c]
  IN IF c \in cbTodo THEN Append(kept, cbBlock) ELSE kept

\* Rings that are read together hold the same blocks, in every state that follows
\* a resync and in which none of the events the resync cannot see has happened
\* since: a counted overflow drop, a block with missing channels, a role or index
\* change, a device reconfiguration, a drain beside a callback in mid-block.
RingsAligned ==
  disturbed = {} /\ ~Draining =>
    \A group \in Plan : \A c, d \in group : Settled(c) = Settled(d)

\* A hop peeked off such rings pairs blocks of the same callback.
PairedHopAligned ==
  conPc = "discard" /\ disturbed = {} =>
    \A c, d \in conGroup : conHop[c] = conHop[d]

\* What a paired measurement rests on: aligned rings give aligned hops.
AlignedInv == RingsAligned /\ PairedHopAligned

\* The strengthening of AckedDrainExclusive that every step preserves.  A started
\* prepare() excludes the callback; a mark loaded while the gate is down is the
\* current count; and a count past the mark, with the gate up, means that a
\* callback came after the raise and therefore that none is in mid-block.
Raising == {"raiseStore", "raiseSeq", "raisePending"}
Preparing == {"stopped", "attached", "raiseLoad", "epoch", "activate"} \cup Raising

PrepareQuiesced == devPc \in Preparing => cbPc = "idle"
DeviceMarkCurrent == devPc \in Raising => devSeen = gateSeen
ConsumerMarkCurrent ==
  /\ conPc \in Raising /\ ~resyncPending => conSeen = gateSeen
  /\ conPc \in {"raiseSeq", "raisePending"} /\ ~resyncPending => gateSeenAtRaise = gateSeen
MovedPastMark ==
  /\ resyncPending /\ gateSeen # gateSeenAtRaise => ~CallbackWriting
  /\ resyncPending /\ conPc \in {"raiseStore", "ackMark"} /\ conSeen # gateSeen => ~CallbackWriting
GateUpWhileServing ==
  conPc \in {"ackSeen", "ackMark", "drain", "account", "lower"} => resyncPending
DrainedSoFar ==
  Draining /\ conReason = "acknowledged" =>
    \A c \in Ch : (conPc = "drain" /\ c \in conTodo) \/ rings[c] = <<>>

HopsAvailable ==
  /\ conPc = "sample" =>
       /\ conTodo \subseteq conGroup
       /\ \A c \in conGroup \ conTodo : Len(rings[c]) >= conHops
  /\ conPc = "peek" => \A c \in conGroup : Len(rings[c]) >= conHops
  /\ conPc = "discard" =>
       /\ conTodo \subseteq conGroup
       /\ \A c \in conGroup : Len(rings[c]) >= conHops + (IF c \in conTodo THEN 1 ELSE 0)
LoopsHaveWork ==
  /\ conPc \in {"drain", "sample", "discard"} => conTodo # {}
  /\ conPc \in {"sample", "peek", "discard"} => conGroup # {} /\ {} \notin conPlan
  /\ cbPc = "write" => cbTodo # {}

IInv ==
  /\ LoopsHaveWork
  /\ HopsAvailable
  /\ PrepareQuiesced
  /\ DeviceMarkCurrent
  /\ ConsumerMarkCurrent
  /\ MovedPastMark
  /\ GateUpWhileServing
  /\ AckedDrainExclusive
  /\ DrainedSoFar

\* A gate that is up while a consumer is attached comes down: the wait for an
\* acknowledgement is bounded, so a stalled device cannot block the producer for
\* ever once it delivers again.
GateComesDown == (resyncPending /\ consumerAttached) ~> ~resyncPending
===============================================================================
