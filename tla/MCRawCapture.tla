---------------------------- MODULE MCRawCapture ------------------------------
(* RawCapture on small instances, for TLC.                                 *)
EXTENDS RawCapture
===============================================================================
