----------------------------- MODULE MCTraceStore -----------------------------
(* TraceStore alone, for TLC.                                                *)
EXTENDS TraceStore
===============================================================================
