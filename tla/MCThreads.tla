------------------------------ MODULE MCThreads ------------------------------
(* The parts that wait for something: OutputEngine, Generating,            *)
(* SyntheticFeed and Rt60 on small instances, for TLC, with the fairness   *)
(* their threads and timers have.                                          *)
EXTENDS OutputEngine, Generating, SyntheticFeed, Rt60
VARIABLE focus   \* the component that moves in this behaviour; the others rest

\* Clicks on the strip, a device that changes, a press of another client: not all of them at once.
MCGnBounds ==
    {[clicks |-> 3, devices |-> 1, presses |-> 0], [clicks |-> 1, devices |-> 2, presses |-> 1],
     [clicks |-> 2, devices |-> 0, presses |-> 1]}

MCSyDelays == <<1, 3>>
\* Resyncs and roles under a source that plays, and a source armed and disarmed under a still bus.
MCSyBounds ==
    {[arms |-> 0, resyncs |-> 1, roles |-> 1, used |-> {0, 1}],
     [arms |-> 1, resyncs |-> 0, roles |-> 0, used |-> {}]}

MCIr(rate, origin, arrival, tail, size, spacing, low, high) ==
    [rate |-> rate, origin |-> origin, arrival |-> arrival, tail |-> tail, size |-> size,
     spacing |-> spacing, low |-> low, high |-> high]
\* An arrival inside the record, at its edge, before it, and a capture at another rate.
MCRtIrOf ==
    <<MCIr(20, 3, 1, 4, 8, 4, 2, 9), MCIr(20, 3, 0, 4, 6, 8, 2, 8),
      MCIr(12, 3, 0, 4, 8, 0, 0, 0), MCIr(20, 3, -2, 4, 8, 8, 0, 0)>>
MCRtBands ==
    [Octave |-> <<[low |-> 2, high |-> 8]>>,
     Third |-> <<[low |-> 2, high |-> 5], [low |-> 5, high |-> 9]>>]

\* A component at rest has one initial state.
MCInit ==
    /\ focus \in {"engine", "generator", "synthetic", "rt60"}
    /\ Init /\ GnInit /\ SyInit /\ RtInit
    /\ focus # "generator" => gnLeft = (CHOOSE b \in GnBounds : TRUE) /\ gnEng.rate = Min(GnRates)
    /\ focus # "synthetic" => syLeft = CHOOSE b \in SyBounds : TRUE

MCNext ==
    /\ UNCHANGED focus
    /\ \/ focus = "engine" /\ Next /\ UNCHANGED <<gnVars, syVars, rtVars>>
       \/ focus = "generator" /\ GnNext /\ UNCHANGED <<vars, syVars, rtVars>>
       \/ focus = "synthetic" /\ SyNext /\ UNCHANGED <<vars, gnVars, rtVars>>
       \/ focus = "rt60" /\ RtNext /\ UNCHANGED <<vars, gnVars, syVars>>

\* The fairness of each component, owed only by the one that moves.
MCFairness ==
    /\ WF_vars(focus = "engine" /\ Render)
    /\ WF_gnVars(focus = "generator" /\ GnFastPoll) /\ WF_gnVars(focus = "generator" /\ GnClock)
    /\ WF_syVars(focus = "synthetic" /\ SyThread) /\ WF_syVars(focus = "synthetic" /\ SyServe)
    /\ WF_syVars(focus = "synthetic" /\ syFeed.pc = "sleeping" /\ SyTick)
    /\ WF_rtVars(focus = "rt60" /\ RtWorker) /\ WF_rtVars(focus = "rt60" /\ RtRevision)
    /\ WF_rtVars(focus = "rt60" /\ RtNotify)

MCSpec == MCInit /\ [][MCNext]_<<vars, gnVars, syVars, rtVars, focus>> /\ MCFairness
===============================================================================
