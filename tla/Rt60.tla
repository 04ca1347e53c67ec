-------------------------------- MODULE Rt60 --------------------------------
(***************************************************************************)
(* The RT60 pane: what the message thread shows (MainComponentRt60) and    *)
(* the thread that analyses (Rt60Worker).  The octave set of one capture   *)
(* is analysed in place; a third-octave set or an ensemble goes to the     *)
(* worker under a ticket.  The worker waits on a condition variable: it    *)
(* looks at what it waits for and falls asleep in one hold of the mutex,   *)
(* and the notification comes after the submitter's own hold.  An impulse  *)
(* response is its place in the record and its trusted band; the figure of *)
(* a band is which capture and band it was computed from.                  *)
(***************************************************************************)
EXTENDS Integers, Sequences, FiniteSets, SequencesExt, FiniteSetsExt

CONSTANTS RtIrOf,        \* the captures, in the order they are swept: rate, origin, arrival, tail, size, spacing, low, high
          RtBands,       \* band set |-> its bands, each with its edges: rt60Bands
          RtStoreSize,   \* IrStore::kCapacity
          RtMaxEnsemble, \* kRt60MaxEnsembleCaptures
          RtMaxLeadIn,   \* kMaxLeadInSeconds, in samples
          RtMaxAsks      \* bound: requests of the operator

RtIds == DOMAIN RtIrOf
RtSets == DOMAIN RtBands

ASSUME RtAssumption ==
    /\ RtIrOf \in Seq([rate : Nat, origin : Nat, arrival : Int, tail : Nat, size : Nat,
                       spacing : Nat, low : Nat, high : Nat])
    /\ RtBands \in [RtSets -> Seq([low : Nat, high : Nat])] /\ "Octave" \in RtSets
    /\ RtStoreSize \in Nat \ {0} /\ RtMaxEnsemble \in Nat
    /\ RtMaxLeadIn \in Nat /\ RtMaxAsks \in Nat

VARIABLES rtIrs,   \* IrStore: the ids in memory, oldest first
          rtUi,    \* MainComponentRt60
          rtWork   \* Rt60Worker

rtVars == <<rtIrs, rtUi, rtWork>>

NoId == 0
InMemory(irs, id) == id \in Range(irs)

\* remove_if: the elements of s that are in S, in their order.
Kept(s, S) ==
    LET places == {i \in DOMAIN s : s[i] \in S}
        upTo(i) == {j \in places : j <= i}
    IN  [k \in 1..Cardinality(places) |-> s[CHOOSE i \in places : Cardinality(upTo(i)) = k]]

-----------------------------------------------------------------------------
(* Rt60Analysis.  A result keeps what it was asked of: the capture, the set. *)

\* packetBound is half the spacing of the first harmonic packet; no spacing, no bound.
rt60LeadInSamples(ir) ==
    IF ir.spacing = 0 \/ ir.spacing \div 2 >= RtMaxLeadIn THEN RtMaxLeadIn ELSE ir.spacing \div 2

\* cropWindow: [start, end) of the record, or why there is none.
cropWindow(ir) ==
    LET arrival == ir.origin + ir.arrival
        leadIn == rt60LeadInSamples(ir)
        last == Min({ir.size, ir.origin + ir.tail})
    IN  CASE arrival < leadIn -> [refusal |-> "NoLeadIn", start |-> 0, end |-> 0]
          [] arrival >= leadIn /\ last <= arrival -> [refusal |-> "NoTail", start |-> 0, end |-> 0]
          [] OTHER -> [refusal |-> "None", start |-> arrival - leadIn, end |-> last]

\* An edge of zero is an edge the sweep does not state.
insideTrustedBand(band, low, high) ==
    /\ low > 0 => band.low >= low
    /\ high > 0 => band.high <= high

\* bandFilterZeroPhase throws at or past half the sample rate.
Throws(band, ir) == ~(0 < band.low /\ band.low < band.high /\ 2 * band.high < ir.rate)

unusable(id) == id = NoId \/ RtIrOf[id].size = 0

Refused(id, set, why) == [id |-> id, set |-> set, refusal |-> why, bands |-> <<>>]

\* The whole result is refused before the band set is written into it.
refusedWhole(id, why) == Refused(id, "Octave", why)

\* What the worker answers when an analysis ends in an exception: it is of no capture.
Failure == Refused(NoId, "Octave", "NoDecayFound")

\* analyseRt60Bands before its loop: refused, or the empty list of bands to extend.
analyseStart(id, set) ==
    CASE unusable(id) -> refusedWhole(id, "NoIr")
      [] ~unusable(id) /\ RtIrOf[id].tail = 0 -> refusedWhole(id, "NoTail")
      [] OTHER -> Refused(id, set, cropWindow(RtIrOf[id]).refusal)

\* One band; a throw clears the list and refuses the whole.
analyseBand(r, k) ==
    LET ir == RtIrOf[r.id]
        band == RtBands[r.set][k]
        trusted == insideTrustedBand(band, ir.low, ir.high)
    IN  IF trusted /\ Throws(band, ir) THEN Refused(r.id, r.set, "NoDecayFound")
        ELSE [r EXCEPT !.bands = Append(@, [band |-> k, trusted |-> trusted])]

\* A result that takes no further band.
Finished(r) == r.refusal # "None" \/ Len(r.bands) = Len(RtBands[r.set])

\* The whole analysis, never cancelled: every band of the set, unless one of them throws.
analyseRt60(id, set) ==
    LET start == analyseStart(id, set)
        Band(k) == [band |-> k, trusted |-> insideTrustedBand(RtBands[set][k], RtIrOf[id].low, RtIrOf[id].high)]
    IN  CASE start.refusal # "None" -> start
          [] start.refusal = "None" /\ \E k \in DOMAIN RtBands[set] :
                 Band(k).trusted /\ Throws(RtBands[set][k], RtIrOf[id]) -> Refused(id, set, "NoDecayFound")
          [] OTHER -> [start EXCEPT !.bands = [k \in DOMAIN RtBands[set] |-> Band(k)]]

\* The first capture that cannot be used refuses the ensemble.
EnsembleRefusal(ids) ==
    LET Why(i) == CASE unusable(ids[i]) -> "NoIr"
                    [] ~unusable(ids[i]) /\ RtIrOf[ids[i]].tail = 0 -> "NoTail"
                    [] ~unusable(ids[i]) /\ RtIrOf[ids[i]].tail # 0
                       /\ RtIrOf[ids[i]].rate # RtIrOf[ids[1]].rate -> "NoIr"
                    [] OTHER -> cropWindow(RtIrOf[ids[i]]).refusal
        bad == {i \in DOMAIN ids : Why(i) # "None"}
    IN  IF bad = {} THEN "None" ELSE Why(Min(bad))

\* The trusted band of an ensemble is what all its captures trust; zero says nothing.
EnsembleBand(ids) ==
    LET highs == {RtIrOf[ids[i]].high : i \in DOMAIN ids} \ {0}
    IN  [low |-> Max({RtIrOf[ids[i]].low : i \in DOMAIN ids}),
         high |-> IF highs = {} THEN 0 ELSE Min(highs)]

EnsembleStart(ids, set) ==
    [ids |-> ids, set |-> set, refusal |-> EnsembleRefusal(ids), bands |-> <<>>]

EnsembleNextBand(e, k) ==
    LET band == RtBands[e.set][k]
        span == EnsembleBand(e.ids)
        trusted == insideTrustedBand(band, span.low, span.high)
    IN  IF trusted /\ \E i \in DOMAIN e.ids : Throws(band, RtIrOf[e.ids[i]])
        THEN [e EXCEPT !.bands = <<>>, !.refusal = "NoDecayFound"]
        ELSE [e EXCEPT !.bands = Append(@, [band |-> k, trusted |-> trusted])]

-----------------------------------------------------------------------------
(* MainComponentRt60, on the message thread. *)

RtInit ==
    /\ rtIrs = <<>>
    /\ rtUi = [sel |-> NoId, set |-> "Octave", ens |-> <<>>, res |-> <<>>, ensRes |-> <<>>,
               analysing |-> FALSE, ticket |-> 0, rev |-> 0, swept |-> {}, asks |-> 0]
    /\ rtWork = [pc |-> "none", pending |-> <<>>, done |-> <<>>, newest |-> 0, running |-> FALSE,
                 stop |-> FALSE, cancel |-> FALSE, owed |-> FALSE, req |-> <<>>, single |-> <<>>, ens |-> <<>>]

\* submit, under the mutex: only the newest request waits; a running one is told to give up.
\* The notification is still owed.
submit(w, request) ==
    [w EXCEPT !.newest = request.ticket, !.done = <<>>, !.pending = <<request>>, !.owed = TRUE,
              !.cancel = @ \/ w.running, !.pc = IF @ = "none" THEN "wait" ELSE @]

\* pruneEvicted.
Pruned(ens, irs) == Kept(ens, Range(irs))

Primary(u, irs) == IF InMemory(irs, u.sel) THEN u.sel ELSE NoId

Request(u, ens, irs) ==
    [ticket |-> u.ticket + 1, set |-> u.set, primary |-> Primary(u, irs),
     ensemble |-> IF Len(ens) >= 2 THEN ens ELSE <<>>]

\* reanalyse, with the selection, set and ensemble already changed in u: pane and worker after it.
reanalyseKeepingResult(u, w, irs) ==
    LET ens == Pruned(u.ens, irs)
    IN  IF u.set = "Octave" /\ Len(ens) < 2
        THEN [ui |-> [u EXCEPT !.rev = @ + 1, !.ens = ens, !.ensRes = <<>>, !.analysing = FALSE,
                               !.res = <<analyseRt60(Primary(u, irs), u.set)>>], work |-> w]
        ELSE [ui |-> [u EXCEPT !.rev = @ + 1, !.ens = ens, !.ticket = @ + 1],
              work |-> submit(w, Request(u, ens, irs))]

reanalyse(u, w, irs) ==
    LET ens == Pruned(u.ens, irs)
        primary == Primary(u, irs)
    IN  IF u.set = "Octave" /\ Len(ens) < 2
        THEN [ui |-> [u EXCEPT !.rev = @ + 1, !.ens = ens, !.ensRes = <<>>, !.analysing = FALSE,
                               !.res = <<analyseRt60(primary, u.set)>>], work |-> w]
        ELSE [ui |-> [u EXCEPT !.rev = @ + 1, !.ens = ens, !.ensRes = <<>>, !.analysing = TRUE,
                               !.ticket = @ + 1,
                               !.res = IF primary = NoId /\ u.sel # NoId
                                       THEN <<refusedWhole(NoId, "NoIr")>> ELSE <<>>],
              work |-> submit(w, Request(u, ens, irs))]

\* The message thread is not inside a handler, before its notify_all.
Serving == ~rtWork.stop /\ ~rtWork.owed
Alive == Serving /\ rtUi.asks < RtMaxAsks
Asked == [rtUi EXCEPT !.asks = @ + 1]
Shows(after) == rtUi' = after.ui /\ rtWork' = after.work

\* A sweep: its response is stored, the oldest evicted, and the pane that asked for it selects it.
RtSwept(mine) ==
    LET id == Cardinality(rtUi.swept) + 1
        irs == IF Len(rtIrs) = RtStoreSize THEN Append(Tail(rtIrs), id) ELSE Append(rtIrs, id)
        u == [Asked EXCEPT !.swept = @ \cup {id}]
    IN  /\ Alive /\ id \in RtIds
        /\ rtIrs' = irs
        /\ IF mine THEN Shows(reanalyse([u EXCEPT !.sel = id], rtWork, irs)) ELSE rtUi' = u /\ UNCHANGED rtWork

\* The sweeps of the library, their responses in memory or not.
choices == rtUi.swept

RtSelect(id) ==
    /\ Alive /\ id \in choices
    /\ ~(id = rtUi.sel /\ (rtUi.res # <<>> \/ rtUi.analysing))
    /\ Shows(reanalyse([Asked EXCEPT !.sel = id], rtWork, rtIrs))
    /\ UNCHANGED rtIrs

setBandSet(set) ==
    /\ Alive /\ set # rtUi.set
    /\ Shows(reanalyse([Asked EXCEPT !.set = set], rtWork, rtIrs))
    /\ UNCHANGED rtIrs

toggleEnsemble(id) ==
    LET kept == Kept(rtUi.ens, RtIds \ {id})
        off == Len(kept) < Len(rtUi.ens)
    IN  /\ Alive /\ (off \/ (Len(kept) < RtMaxEnsemble /\ InMemory(rtIrs, id)))
        /\ Shows(reanalyse([Asked EXCEPT !.ens = IF off THEN kept ELSE Append(@, id)], rtWork, rtIrs))
        /\ UNCHANGED rtIrs

clearEnsemble ==
    /\ Alive /\ rtUi.ens # <<>>
    /\ Shows(reanalyse([Asked EXCEPT !.ens = <<>>], rtWork, rtIrs))
    /\ UNCHANGED rtIrs

\* poll: the worker's slot is emptied, and what it held is shown only under the current ticket.
poll(u, done) ==
    IF ~u.analysing \/ done = <<>> \/ done[1].ticket # u.ticket THEN u
    ELSE [u EXCEPT !.res = IF done[1].single # <<>> THEN done[1].single ELSE @,
                   !.ensRes = done[1].ens, !.analysing = FALSE, !.rev = @ + 1]

\* binding().revision, which the pane's timer calls: poll, then prune.
RtRevision ==
    LET polled == [ui |-> poll(rtUi, rtWork.done),
                   work |-> IF rtUi.analysing THEN [rtWork EXCEPT !.done = <<>>] ELSE rtWork]
    IN  /\ Serving
        /\ Shows(IF Pruned(rtUi.ens, rtIrs) = rtUi.ens THEN polled
                 ELSE reanalyse(polled.ui, polled.work, rtIrs))
        /\ UNCHANGED rtIrs

\* ~Rt60Worker: stop and cancel under the mutex; the thread is then notified and joined.
RtDestroy ==
    /\ Serving
    /\ rtWork' = [rtWork EXCEPT !.stop = TRUE, !.cancel = TRUE, !.owed = TRUE]
    /\ UNCHANGED <<rtIrs, rtUi>>

\* notify_all, after the mutex is free again: it wakes a thread that is asleep by now.
RtNotify ==
    /\ rtWork.owed
    /\ rtWork' = [rtWork EXCEPT !.owed = FALSE, !.pc = IF @ = "asleep" THEN "wait" ELSE @]
    /\ UNCHANGED <<rtIrs, rtUi>>

-----------------------------------------------------------------------------
(* Rt60Worker::loop.  The cancel flag is looked at before every band. *)

\* wake_.wait: nothing is waited for, so the thread sleeps.  Mutation: it sleeps without looking.
RtSleepUnasked ==
    /\ rtWork.pc = "wait"
    /\ rtWork' = [rtWork EXCEPT !.pc = "asleep"]
    /\ UNCHANGED <<rtIrs, rtUi>>
RtSleep ==
    /\ rtWork.pc = "wait" /\ ~rtWork.stop /\ rtWork.pending = <<>>
    /\ rtWork' = [rtWork EXCEPT !.pc = "asleep"]
    /\ UNCHANGED <<rtIrs, rtUi>>

\* A wake-up nobody asked for.
RtWakeSpuriously ==
    /\ rtWork.pc = "asleep"
    /\ rtWork' = [rtWork EXCEPT !.pc = "wait"]
    /\ UNCHANGED <<rtIrs, rtUi>>

RtTake ==
    /\ rtWork.pc = "wait" /\ ~rtWork.stop /\ rtWork.pending # <<>>
    /\ rtWork' = [rtWork EXCEPT !.pc = "single", !.req = rtWork.pending, !.pending = <<>>,
                                !.running = TRUE, !.cancel = FALSE, !.ens = <<>>,
                                !.single = IF rtWork.pending[1].primary = NoId THEN <<>>
                                           ELSE <<analyseStart(rtWork.pending[1].primary, rtWork.pending[1].set)>>]
    /\ UNCHANGED <<rtIrs, rtUi>>

\* What the loop over the bands is building, and whether it goes on.
Open(r) == r # <<>> /\ ~Finished(r[1]) /\ ~rtWork.cancel

RtBand ==
    /\ rtWork.pc = "single" /\ Open(rtWork.single)
    /\ rtWork' = [rtWork EXCEPT !.single = <<analyseBand(@[1], Len(@[1].bands) + 1)>>]
    /\ UNCHANGED <<rtIrs, rtUi>>

RtSingleDone ==
    LET more == Len(rtWork.req[1].ensemble) >= 2 /\ ~rtWork.cancel
    IN  /\ rtWork.pc = "single" /\ ~Open(rtWork.single)
        /\ rtWork' = IF more THEN [rtWork EXCEPT !.pc = "ensemble",
                                        !.ens = <<EnsembleStart(rtWork.req[1].ensemble, rtWork.req[1].set)>>]
                     ELSE [rtWork EXCEPT !.pc = "publish"]
        /\ UNCHANGED <<rtIrs, rtUi>>

RtEnsembleBand ==
    /\ rtWork.pc = "ensemble" /\ Open(rtWork.ens)
    /\ rtWork' = [rtWork EXCEPT !.ens = <<EnsembleNextBand(@[1], Len(@[1].bands) + 1)>>]
    /\ UNCHANGED <<rtIrs, rtUi>>

RtEnsembleDone ==
    /\ rtWork.pc = "ensemble" /\ ~Open(rtWork.ens)
    /\ rtWork' = [rtWork EXCEPT !.pc = "publish"]
    /\ UNCHANGED <<rtIrs, rtUi>>

\* An exception that the analysis does not catch itself: a failure for an answer.
RtThrow ==
    /\ rtWork.pc \in {"single", "ensemble"}
    /\ rtWork' = [rtWork EXCEPT !.pc = "publish", !.single = <<Failure>>, !.ens = <<>>]
    /\ UNCHANGED <<rtIrs, rtUi>>

RtPublish ==
    LET keep == ~rtWork.stop /\ rtWork.pending = <<>> /\ ~rtWork.cancel
                /\ rtWork.req[1].ticket = rtWork.newest
        outcome == [ticket |-> rtWork.req[1].ticket, single |-> rtWork.single, ens |-> rtWork.ens]
    IN  /\ rtWork.pc = "publish"
        /\ rtWork' = [rtWork EXCEPT !.pc = "wait", !.running = FALSE, !.req = <<>>, !.single = <<>>,
                                    !.ens = <<>>, !.done = IF keep THEN <<outcome>> ELSE @]
        /\ UNCHANGED <<rtIrs, rtUi>>

RtExit ==
    /\ rtWork.pc = "wait" /\ rtWork.stop
    /\ rtWork' = [rtWork EXCEPT !.pc = "ended"]
    /\ UNCHANGED <<rtIrs, rtUi>>

RtWorker == \/ RtSleep \/ RtTake \/ RtBand \/ RtSingleDone \/ RtEnsembleBand \/ RtEnsembleDone
            \/ RtThrow \/ RtPublish \/ RtExit

RtNext ==
    \/ \E mine \in BOOLEAN : RtSwept(mine)
    \/ \E id \in RtIds : RtSelect(id) \/ toggleEnsemble(id)
    \/ \E set \in RtSets : setBandSet(set)
    \/ clearEnsemble \/ RtRevision \/ RtDestroy \/ RtNotify \/ RtWorker \/ RtWakeSpuriously

RtSpec == RtInit /\ [][RtNext]_rtVars

-----------------------------------------------------------------------------
(* Properties. *)

\* What the pane shows when it does not say ANALYSING is a whole analysis of what is selected now:
\* every band of the set in force, of the selected capture (or the refusal that it is gone), and the
\* ensemble of exactly the captures ticked; or the one failure of the analysis.  A cancelled, partial
\* or overtaken result is never shown (Rt60Worker.cpp:84, MainComponentRt60.cpp:120).  A result
\* refused before its band set was written says "Octave" whatever was asked (Rt60Analysis.cpp:40).
RtShownIsAsked ==
    ~rtUi.analysing =>
        /\ rtUi.sel # NoId => rtUi.res # <<>>
        /\ rtUi.res # <<>> => /\ rtUi.res[1].id \in {rtUi.sel, NoId} /\ Finished(rtUi.res[1])
                              /\ \/ rtUi.res[1].set = rtUi.set
                                 \/ rtUi.res[1].refusal \in {"NoIr", "NoTail"} \/ rtUi.res = <<Failure>>
        /\ IF Len(rtUi.ens) < 2 \/ rtUi.res = <<Failure>> THEN rtUi.ensRes = <<>>
           ELSE /\ Len(rtUi.ensRes) = 1 /\ rtUi.ensRes[1].ids = rtUi.ens
                /\ rtUi.ensRes[1].set = rtUi.set /\ Finished(rtUi.ensRes[1])

\* A band an ensemble reports is one each of its captures would report alone: inside the band its
\* sweep excited, at the one rate they share (Rt60Analysis.cpp:257-276).
RtEnsembleTrusted ==
    \A e \in Range(rtUi.ensRes) : e.refusal = "None" =>
        \A i \in DOMAIN e.ids, b \in Range(e.bands) :
            LET ir == RtIrOf[e.ids[i]]
            IN  /\ ir.rate = RtIrOf[e.ids[1]].rate
                /\ b.trusted => insideTrustedBand(RtBands[e.set][b.band], ir.low, ir.high)

\* The window that is cut lies in the record and holds the arrival and its whole lead-in
\* (Rt60Analysis.cpp:155-168: signed arrival, unsigned indices).
RtWindowInside ==
    \A id \in rtUi.swept :
        LET ir == RtIrOf[id]
            w == cropWindow(ir)
        IN  w.refusal = "None" => /\ 0 <= w.start /\ w.start <= ir.origin + ir.arrival
                                  /\ ir.origin + ir.arrival < w.end /\ w.end <= ir.size

\* The pane repaints when the revision moves: no change of what it shows happens under an old one.
RtRevisionTells ==
    [][<<rtUi.res, rtUi.ensRes, rtUi.analysing>>' # <<rtUi.res, rtUi.ensRes, rtUi.analysing>>
       => rtUi'.rev > rtUi.rev]_rtVars

\* ANALYSING ends, with a result, unless the operator keeps asking or the program ends: a cancel meant
\* for one request never kills the next (Rt60Worker.cpp:26-27, 49).
RtSettles == rtUi.analysing ~> (~rtUi.analysing \/ rtWork.stop)

\* The destructor's join returns: the thread ends however far its analysis was, also when the
\* destructor runs as it is about to sleep (the notification is not lost: Rt60Worker.cpp:10-17, 45).
RtJoins == rtWork.stop ~> (rtWork.pc \in {"none", "ended"})

\* What the RT60 pane shows is the answer to what was asked, from an ensemble it may trust, over a
\* window inside the response.
RtInv == RtShownIsAsked /\ RtEnsembleTrusted /\ RtWindowInside

\* The worker answers: a new result is a new revision, the last job submitted settles, and the
\* thread joins when it is told to stop.
RtAnswers == RtRevisionTells /\ RtSettles /\ RtJoins
=============================================================================
