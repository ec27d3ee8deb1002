---------------------------- MODULE MCEventUpload ----------------------------
(***************************************************************************)
(* TLC instances of EventUpload.                                           *)
(***************************************************************************)
EXTENDS EventUpload
=============================================================================
