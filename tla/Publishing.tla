------------------------------ MODULE Publishing ------------------------------
(***************************************************************************)
(* From the analysers to a reader over HTTP: the analysis thread rebuilds  *)
(* its analysers one a tick after a device opened or a delay was applied,  *)
(* feeds them, keeps the average group in step with the routing and        *)
(* publishes one snapshot; the API server admits requests and answers from *)
(* the snapshot that is latest.  The trims and the solo of the group have  *)
(* no caller in the program and are left out.                              *)
(***************************************************************************)
EXTENDS Integers, Sequences, FiniteSets, SequencesExt, FiniteSetsExt

CONSTANTS PbSlots,     \* kMaxTransferFunctions
          PbConfigs,   \* channel configurations: sequences of roles and transfer function tags
          PbRates,     \* sample rates
          PbRate,      \* ApiSettings::maxRequestsPerSecond
          PbWindow,    \* one second, in ticks of the clock
          PbBounds     \* bounds, one record for a behaviour: device openings, configuration changes,
                       \* delays applied, publishes, requests, ticks of the clock, exceptions

ASSUME PbAssumption ==
    /\ PbSlots \in Nat \ {0} /\ PbRate \in Nat /\ PbWindow \in Nat \ {0}
    /\ \A c \in PbConfigs : IsFiniteSet(DOMAIN c) /\ DOMAIN c \subseteq Nat

VARIABLES pbBus,    \* CaptureBus: rate, epoch, configuration; the delay asked for
          pbThread, \* AnalysisThread: step of the tick or stopped, lastEpoch_, rebuild_, the fault
          pbSlot,   \* analysers_
          pbGroup,  \* averageGroup_ and lastGroupTfIndices_
          pbLatest, \* latest_: no snapshot, or one
          pbApi,    \* ApiServer: limiter, clock; when requests were admitted
          pbClient, \* one polling client: the snapshot it holds, the last answer, and when it was 429
          pbCount   \* the bounds of this behaviour and what has been used of them

pbVars == <<pbBus, pbThread, pbSlot, pbGroup, pbLatest, pbApi, pbClient, pbCount>>

Used(k) == pbCount.used[k] < pbCount.max[k]
Count(k) == pbCount' = [pbCount EXCEPT !.used[k] = @ + 1]

-----------------------------------------------------------------------------
(* RoutingPlan.h.  Channels from 1. *)

\* The members of a set of numbers, smallest first.
InOrder(S) == [k \in 1..Cardinality(S) |-> CHOOSE i \in S : Cardinality({j \in S : j <= i}) = k]

ChannelsAs(config, role) == {c \in DOMAIN config : config[c].role = role}

planRouting(config) ==
    LET RefOf(m) == {r \in ChannelsAs(config, "Reference") : config[r].tf = config[m].tf}
        routed == {m \in ChannelsAs(config, "Measurement") : RefOf(m) # {}}
    IN  [i \in 1..Cardinality(routed) |->
            LET m == InOrder(routed)[i]
            IN  [tf |-> config[m].tf, ref |-> Min(RefOf(m)), meas |-> m]]

\* The routes an analyser exists for.
Capped(plan) == 1..Min({Len(plan), PbSlots})

-----------------------------------------------------------------------------
(* AnalyserRebuild and the tick of AnalysisThread. *)

NewAnalyser(cfg, build) == [cfg |-> cfg, sequence |-> 0, engaged |-> FALSE, build |-> build]

PbInit ==
    \E config \in PbConfigs, b \in PbBounds :
        LET rate == Max(PbRates)
            cfg == [rate |-> rate, delay |-> 0]
        IN  /\ pbBus = [rate |-> rate, epoch |-> 1, config |-> config, opening |-> FALSE,
                        delay |-> 0, asked |-> FALSE]
            /\ pbThread = [pc |-> "epoch", lastEpoch |-> 1, delay |-> 0, cfg |-> cfg, next |-> PbSlots + 1,
                           builds |-> 1, fault |-> FALSE]
            /\ pbSlot = [i \in 1..PbSlots |-> NewAnalyser(cfg, 1)]
            /\ pbGroup = [members |-> <<>>, last |-> <<>>]
            /\ pbLatest = <<>>
            /\ pbApi = [admissions |-> <<>>, now |-> 0, log |-> <<>>]
            /\ pbClient = [held |-> <<>>, answer |-> 0, at |-> 0, matched |-> <<>>]
            /\ pbCount = [max |-> b, used |-> [k \in DOMAIN b |-> 0]]

\* A device opens: prepare() stores the rate, and counts the epoch last.
PbOpenRate(rate) ==
    /\ ~pbBus.opening /\ Used("epochs") /\ Count("epochs")
    /\ pbBus' = [pbBus EXCEPT !.rate = rate, !.opening = TRUE]
    /\ UNCHANGED <<pbThread, pbSlot, pbGroup, pbLatest, pbApi, pbClient>>

PbOpenEpoch ==
    /\ pbBus.opening
    /\ pbBus' = [pbBus EXCEPT !.epoch = @ + 1, !.opening = FALSE]
    /\ UNCHANGED <<pbThread, pbSlot, pbGroup, pbLatest, pbApi, pbClient, pbCount>>

PbSetConfig(config) ==
    /\ config # pbBus.config /\ Used("configs") /\ Count("configs")
    /\ pbBus' = [pbBus EXCEPT !.config = config]
    /\ UNCHANGED <<pbThread, pbSlot, pbGroup, pbLatest, pbApi, pbClient>>

applyReferenceDelay ==
    /\ Used("delays") /\ Count("delays")
    /\ pbBus' = [pbBus EXCEPT !.delay = @ + 1, !.asked = TRUE]
    /\ UNCHANGED <<pbThread, pbSlot, pbGroup, pbLatest, pbApi, pbClient>>

\* startRebuild: the configuration in force from now on, and every slot stale.
startRebuild(t, delay) ==
    [t EXCEPT !.delay = delay, !.cfg = [rate |-> pbBus.rate, delay |-> delay], !.next = 1,
              !.builds = @ + 1]

rebuildAnalysersIfEpochChanged ==
    /\ pbThread.pc = "epoch"
    /\ pbThread' = IF pbBus.epoch = pbThread.lastEpoch THEN [pbThread EXCEPT !.pc = "delay"]
                   ELSE [startRebuild(pbThread, pbThread.delay) EXCEPT !.lastEpoch = pbBus.epoch, !.pc = "delay"]
    /\ UNCHANGED <<pbBus, pbSlot, pbGroup, pbLatest, pbApi, pbClient, pbCount>>

applyPendingReferenceDelay ==
    /\ pbThread.pc = "delay"
    /\ pbThread' = IF pbBus.asked THEN [startRebuild(pbThread, pbBus.delay) EXCEPT !.pc = "step"]
                   ELSE [pbThread EXCEPT !.pc = "step"]
    /\ pbBus' = [pbBus EXCEPT !.asked = FALSE]
    /\ UNCHANGED <<pbSlot, pbGroup, pbLatest, pbApi, pbClient, pbCount>>

Pending == pbThread.next <= PbSlots
Fresh(i) == i < pbThread.next

\* stepRebuild: one slot a tick; an allocation that fails leaves the slot, and is tried again.
stepRebuild ==
    /\ pbThread.pc = "step"
    /\ IF Pending
       THEN \/ /\ pbSlot' = [pbSlot EXCEPT ![pbThread.next] = NewAnalyser(pbThread.cfg, pbThread.builds)]
               /\ pbThread' = [pbThread EXCEPT !.next = @ + 1, !.pc = "drain",
                                               !.fault = @ /\ pbThread.next < PbSlots]
               /\ UNCHANGED pbCount
            \/ /\ Used("failures") /\ Count("failures")
               /\ pbThread' = [pbThread EXCEPT !.fault = TRUE, !.pc = "drain"]
               /\ UNCHANGED pbSlot
       ELSE pbThread' = [pbThread EXCEPT !.pc = "drain"] /\ UNCHANGED <<pbSlot, pbCount>>
    /\ UNCHANGED <<pbBus, pbGroup, pbLatest, pbApi, pbClient>>

\* drain: the references that have a hop; only a fresh slot is fed.  The unrouted path feeds slot 1.
drain(refs) ==
    LET plan == planRouting(pbBus.config)
        fed == {i \in Capped(plan) : plan[i].ref \in refs /\ Fresh(i)}
    IN  /\ pbThread.pc = "drain"
        /\ refs \subseteq {plan[i].ref : i \in DOMAIN plan}
        /\ pbSlot' = [i \in DOMAIN pbSlot |-> IF i \in fed THEN [pbSlot[i] EXCEPT !.engaged = TRUE] ELSE pbSlot[i]]
        /\ pbThread' = [pbThread EXCEPT !.pc = "publish"]
        /\ UNCHANGED <<pbBus, pbGroup, pbLatest, pbApi, pbClient, pbCount>>

-----------------------------------------------------------------------------
(* AnalysisPublish.cpp *)

IndicesOn(plan, ref) == {i \in Capped(plan) : plan[i].ref = ref}
TfsAt(plan, indices) == [k \in 1..Cardinality(indices) |-> plan[InOrder(indices)[k]].tf]

\* addMember for each route in turn: the first one's reference is the group's.
RebuiltGroup(plan) ==
    LET kept == IndicesOn(plan, plan[1].ref)
        order == InOrder(kept)
    IN  [members |-> [k \in DOMAIN order |-> [tf |-> plan[order[k]].tf, ref |-> plan[order[k]].ref]],
         last |-> TfsAt(plan, kept)]

\* syncAverageGroupMembership: the group, and the routes that are its members.
syncAverageGroupMembership(group, plan) ==
    IF plan = <<>> THEN [group |-> [members |-> <<>>, last |-> <<>>], indices |-> <<>>]
    ELSE LET ref == IF group.members = <<>> THEN plan[1].ref ELSE group.members[1].ref
             predicted == IndicesOn(plan, ref)
         IN  IF TfsAt(plan, predicted) = group.last
             THEN [group |-> group, indices |-> InOrder(predicted)]
             ELSE [group |-> RebuiltGroup(plan), indices |-> InOrder(IndicesOn(plan, plan[1].ref))]

\* mergeRoutePositions: one position for every route, a member's from the group's own list.
mergeRoutePositions(plan, indices, members) ==
    [i \in DOMAIN plan |->
        IF \E k \in DOMAIN indices : indices[k] = i
        THEN LET k == CHOOSE k \in DOMAIN indices : indices[k] = i
             IN  [tf |-> members[k].tf, ref |-> members[k].ref, membership |-> "Member"]
        ELSE [tf |-> plan[i].tf, ref |-> plan[i].ref,
              membership |-> IF i > PbSlots THEN "ExcludedOverCapacity" ELSE "ExcludedDifferentReference"]]

buildPublishedSnapshot(plan, sync) ==
    [id |-> pbCount.used.publishes + 1, build |-> pbSlot[1].build, sequence |-> pbSlot[1].sequence + 1,
     transfer |-> pbSlot[1].engaged, plan |-> plan, group |-> sync.group,
     cfgs |-> {pbSlot[i].cfg : i \in {1} \cup Range(sync.indices)},
     positions |-> mergeRoutePositions(plan, sync.indices, sync.group.members)]

\* publishIfDue once it is due: nothing while a slot it reads is stale.
ReadSlotsFresh(plan) == pbThread.next > Max({1, Min({Len(plan), PbSlots})})

publishFirstFresh ==
    LET plan == planRouting(pbBus.config)
        sync == syncAverageGroupMembership(pbGroup, plan)
    IN  /\ pbThread.pc = "publish" /\ Fresh(1) /\ Used("publishes") /\ Count("publishes")
        /\ pbLatest' = <<buildPublishedSnapshot(plan, sync)>>
        /\ pbSlot' = [pbSlot EXCEPT ![1].sequence = @ + 1]
        /\ pbGroup' = sync.group
        /\ pbThread' = [pbThread EXCEPT !.pc = "epoch"]
        /\ UNCHANGED <<pbBus, pbApi, pbClient>>

publishIfDue ==
    LET plan == planRouting(pbBus.config)
        sync == syncAverageGroupMembership(pbGroup, plan)
    IN  /\ pbThread.pc = "publish" /\ ReadSlotsFresh(plan) /\ Used("publishes") /\ Count("publishes")
        /\ pbLatest' = <<buildPublishedSnapshot(plan, sync)>>
        /\ pbSlot' = [pbSlot EXCEPT ![1].sequence = @ + 1]
        /\ pbGroup' = sync.group
        /\ pbThread' = [pbThread EXCEPT !.pc = "epoch"]
        /\ UNCHANGED <<pbBus, pbApi, pbClient>>

\* Not due, or a slot it would read is stale.
PbSkipPublish ==
    /\ pbThread.pc = "publish"
    /\ pbThread' = [pbThread EXCEPT !.pc = "epoch"]
    /\ UNCHANGED <<pbBus, pbSlot, pbGroup, pbLatest, pbApi, pbClient, pbCount>>

\* AnalysisThread::run: any other exception, an allocation of a publish or another failure of a
\* rebuild, ends the thread for good; the API goes on answering from the latest snapshot.
PbThrows ==
    /\ (pbThread.pc = "step" /\ Pending) \/ pbThread.pc = "publish"
    /\ Used("failures") /\ Count("failures")
    /\ pbThread' = [pbThread EXCEPT !.pc = "stopped", !.fault = TRUE]
    /\ UNCHANGED <<pbBus, pbSlot, pbGroup, pbLatest, pbApi, pbClient>>

-----------------------------------------------------------------------------
(* ApiServer and ApiPolicy. *)

\* decidePreRoutingRefusal: the controls in the order they are decided, each by what it found.
Controls == <<"hosts", "host", "method", "token", "body">>
StatusOf(control) == CASE control = "hosts" -> 400 [] control = "host" -> 403 [] control = "method" -> 405
                       [] control = "token" -> 401 [] control = "body" -> 413
decidePreRoutingRefusal(bad) ==
    IF bad = {} THEN 0
    ELSE StatusOf(Controls[Min({i \in DOMAIN Controls : Controls[i] \in bad})])

\* RateLimiter::admit: a window that slides with the clock, the oldest admissions popped as they leave it.
admit(admissions, now) ==
    LET fresh == {i \in DOMAIN admissions : now - admissions[i] < PbWindow}
        inWindow == SubSeq(admissions, Min(fresh \cup {Len(admissions) + 1}), Len(admissions))
    IN  [kept |-> inWindow, ok |-> PbRate > 0 /\ Len(inWindow) < PbRate]

\* etagFor, as a header holds it; the header may also say "*".
etagFor(sequence) == [any |-> FALSE, sequence |-> sequence]

\* conditionalVerdict: a validator decides when it is there; then since, by equality.
conditionalVerdict(ifNoneMatch, since, sequence) ==
    IF ifNoneMatch # <<>> THEN ifNoneMatch[1].any \/ ifNoneMatch[1] = etagFor(sequence)
    ELSE since # <<>> /\ since[1] = sequence

\* A request of the polling client, with the validator of what it holds, in one form or the other.
Requests == [bad : SUBSET {"host", "body"}, options : BOOLEAN, form : {"plain", "etag", "since"}]

Held(r, form) == IF r.form = form /\ pbClient.held # <<>> THEN pbClient.held[1].sequence ELSE 0

\* serve: 503 before the first snapshot, 304, or the body of the latest.
serve(r) ==
    LET etag == IF Held(r, "etag") > 0 THEN <<etagFor(Held(r, "etag"))>> ELSE <<>>
        since == IF Held(r, "since") > 0 THEN <<Held(r, "since")>> ELSE <<>>
    IN  IF pbLatest = <<>> THEN [pbClient EXCEPT !.answer = 503, !.at = 0, !.matched = <<>>]
        ELSE IF conditionalVerdict(etag, since, pbLatest[1].sequence)
        THEN [pbClient EXCEPT !.answer = 304, !.at = 0, !.matched = <<pbLatest[1]>>]
        ELSE [pbClient EXCEPT !.answer = 200, !.at = 0, !.held = pbLatest, !.matched = <<>>]

\* installPreRouting: the limiter comes last, and only a request that will be routed pays for it.
preRoute(r) ==
    LET a == admit(pbApi.admissions, pbApi.now)
    IN  CASE r.bad # {} -> [status |-> decidePreRoutingRefusal(r.bad), admissions |-> pbApi.admissions]
          [] r.bad = {} /\ r.options -> [status |-> 204, admissions |-> pbApi.admissions]
          [] r.bad = {} /\ ~r.options /\ ~a.ok -> [status |-> 429, admissions |-> a.kept]
          [] OTHER -> [status |-> 200, admissions |-> Append(a.kept, pbApi.now)]

ApiRequest(r) ==
    LET p == preRoute(r)
    IN  /\ Used("requests") /\ Count("requests")
        /\ pbApi' = [pbApi EXCEPT !.admissions = p.admissions,
                                  !.log = IF p.status = 200 THEN Append(@, pbApi.now) ELSE @]
        /\ pbClient' = IF p.status = 200 THEN serve(r)
                       ELSE [pbClient EXCEPT !.answer = p.status, !.matched = <<>>,
                                             !.at = IF p.status = 429 THEN pbApi.now ELSE 0]
        /\ UNCHANGED <<pbBus, pbThread, pbSlot, pbGroup, pbLatest>>

PbClock ==
    /\ Used("ticks") /\ Count("ticks")
    /\ pbApi' = [pbApi EXCEPT !.now = @ + 1]
    /\ UNCHANGED <<pbBus, pbThread, pbSlot, pbGroup, pbLatest, pbClient>>

PbTick == \/ rebuildAnalysersIfEpochChanged \/ applyPendingReferenceDelay \/ stepRebuild
          \/ \E refs \in SUBSET (1..Len(pbBus.config)) : drain(refs)
          \/ publishIfDue \/ PbSkipPublish \/ PbThrows

PbNext ==
    \/ \E rate \in PbRates : PbOpenRate(rate)
    \/ PbOpenEpoch \/ \E c \in PbConfigs : PbSetConfig(c)
    \/ applyReferenceDelay \/ PbTick
    \/ \E r \in Requests : ApiRequest(r)
    \/ PbClock

PbSpec == PbInit /\ [][PbNext]_pbVars

-----------------------------------------------------------------------------
(* Properties. *)

\* A snapshot is read from analysers of one configuration, however the rebuild and the routing
\* interleaved: no slot of the old device or the old delay is published (AnalysisThread.cpp:339-343).
PbOneConfiguration == \A s \in Range(pbLatest) : Cardinality(s.cfgs) = 1

\* The positions of a snapshot are its routes, in order and under their own tags; the members are
\* exactly those on the reference the group is on, whatever sequence of routings came before
\* (AnalysisPublish.cpp:51-56, 119-148).
PbPositionsAreRoutes ==
    \A s \in Range(pbLatest) :
        /\ Len(s.positions) = Len(s.plan)
        /\ \A i \in DOMAIN s.plan :
               /\ s.positions[i].tf = s.plan[i].tf /\ s.positions[i].ref = s.plan[i].ref
               /\ (s.positions[i].membership = "Member") <=>
                      (i <= PbSlots /\ s.plan[i].ref = s.group.members[1].ref)

\* No second, wherever it begins, admits more requests than the limit: what bounds the load on the
\* publish slot (ApiPolicy.h:181-196).
ApiHardBound ==
    \A t \in 0..pbApi.now :
        Cardinality({i \in DOMAIN pbApi.log : pbApi.log[i] \in t..(t + PbWindow - 1)}) <= PbRate

\* A client is told 429 only when PbRate requests were served in the window before it: whatever was
\* refused by a control, answered as OPTIONS or told 429 itself takes nothing from the limit, and an
\* admission counts no longer than its window (ApiPolicy.h:152-158, 181-196).
ApiRefusalIsEarned ==
    pbClient.answer = 429 /\ PbRate > 0 =>
        /\ Len(pbApi.log) >= PbRate
        /\ pbClient.at - pbApi.log[Len(pbApi.log) - PbRate + 1] < PbWindow

\* 304 tells the client that it holds the latest snapshot.  It does, unless the analysers were rebuilt
\* since it was served: a new Analyser counts its snapshots from 1 again (Analyser.cpp:162), so the
\* sequence the ETag is made of comes back.
ApiNotModified ==
    \A s \in Range(pbClient.matched) : s.id = pbClient.held[1].id \/ s.build # pbClient.held[1].build

\* A published snapshot is of one configuration and its positions are routes of it; the API answers
\* from it within its bounds, and refuses at the limit only.
PublishInv == PbOneConfiguration /\ PbPositionsAreRoutes /\ ApiHardBound /\ ApiRefusalIsEarned /\ ApiNotModified
=============================================================================
