----------------------------- MODULE MCCallService -----------------------------
(***************************************************************************)
(* Instances of CallService for TLC.                                       *)
(***************************************************************************)
EXTENDS CallService
================================================================================
