------------------------------ MODULE MCMonitor ------------------------------
(***************************************************************************)
(* A small instance of Monitor.                                            *)
(***************************************************************************)
EXTENDS Monitor
=============================================================================
