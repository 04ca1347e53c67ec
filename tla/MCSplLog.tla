------------------------------- MODULE MCSplLog -------------------------------
(* SplLogging on small instances, for TLC.                                 *)
EXTENDS SplLogging

Bounded(b, c, e, s) == [blocks |-> b, checks |-> c, epochs |-> e, seconds |-> s]
\* Blocks across a reopened device, calibration checks, and the second that turns: one at a time.
MCLogBounds == {Bounded(2, 0, 2, 1), Bounded(0, 2, 1, 1), Bounded(1, 0, 1, 2)}
MCLiveBounds == {Bounded(0, 0, 2, 1)}
===============================================================================
