---------------------------- MODULE MCCaptureBus ------------------------------
(* CaptureBus on small instances, for TLC.                                 *)
EXTENDS CaptureBus

\* Channel 0 measures, channel 1 has this role; both have index 0.
Beside(role) == [roles |-> [c \in Ch |-> IF c = 0 THEN "Measurement" ELSE role],
                 tf    |-> [c \in Ch |-> 0]]
\* A pair, from which a change of the index leaves two groups; a measurement alone.
MCRouting == {Beside("Reference"), Beside("Unused")}
MCPair == {Beside("Reference")}
===============================================================================
