------------------------------ MODULE MCEventLog ------------------------------
(***************************************************************************)
(* The TLC instance of EventLog.                                           *)
(***************************************************************************)
EXTENDS EventLog, TLC

CONSTANTS w1, w2, k1, k2
=============================================================================
