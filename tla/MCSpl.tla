-------------------------------- MODULE MCSpl --------------------------------
(* SplLogging, SplMetering and SplReport on small instances, for TLC.      *)
EXTENDS MCSplLog, SplMetering, SplReport
VARIABLE focus   \* the component that moves in this behaviour; the others rest

Metric(id, w, n) == [id |-> id, w |-> w, win |-> n]
Alarm(m, limit, n) == [metric |-> m, limit |-> limit, win |-> n]
MCSplConfigs ==
    { [metrics |-> <<Metric("leq", "C", 2), Metric("laeq", "A", 1)>>,
       alarms |-> <<Alarm("laeq", 1, 1), Alarm("leq", 2, 2), Alarm("laeq", 3, 1), Alarm("nil", 1, 1)>>,
       block |-> 2, span |-> 2, lnTick |-> 1, threshold |-> 2],
      [metrics |-> <<Metric("a", "A", 2), Metric("b", "A", 1), Metric("c", "C", 3)>>,
       alarms |-> <<Alarm("a", 1, 2), Alarm("c", 1, 1)>>, block |-> 1, span |-> 3, lnTick |-> 2, threshold |-> 1] }

MCRp(blocks, flags, gens, logs, faults, checks, offsets) ==
    [blocks |-> blocks, flags |-> flags, gens |-> gens, logs |-> logs, faults |-> faults, checks |-> checks,
     offsets |-> offsets]
\* Rotated segments cut short, a record cut short, a pass or fail over two blocks, sessions of checks.
MCRpBounds ==
    {MCRp(3, {0}, 1, 1, 1, 0, {}), MCRp(1, {0}, 0, 1, 1, 2, {0, 3}),
     MCRp(2, {0, Overload}, 0, 1, 0, 2, {0, 3}), MCRp(0, {}, 0, 2, 0, 3, {1, 2, 3})}

\* A component at rest has one initial state.
Init == /\ focus \in {"log", "meter", "report"}
        /\ LogInit /\ (focus # "log" => bound = CHOOSE b \in LogBounds : TRUE)
        /\ SplInit /\ (focus # "meter" => splConfig = CHOOSE c \in SplConfigs : TRUE)
        /\ RpInit /\ (focus # "report" => rpLeft = CHOOSE b \in RpBounds : TRUE)
Next == \/ focus = "log" /\ LogNext /\ UNCHANGED <<splVars, rpVars, focus>>
        \/ focus = "meter" /\ SplNext /\ UNCHANGED <<logVars, rpVars, focus>>
        \/ focus = "report" /\ RpNext /\ UNCHANGED <<logVars, splVars, focus>>
=============================================================================
