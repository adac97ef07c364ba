------------------------------ MODULE MCLockManager ------------------------------
(***************************************************************************)
(* Instances of LockManager for TLC.                                       *)
(***************************************************************************)
EXTENDS LockManager
==================================================================================
