--------------------------- MODULE MCOutputClients ----------------------------
(* OutputClients on small instances, for TLC.                              *)
EXTENDS OutputClients
===============================================================================
