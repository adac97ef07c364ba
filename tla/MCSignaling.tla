------------------------------ MODULE MCSignaling ------------------------------
(***************************************************************************)
(* Instances of SignalChannel on SignalingConnect for TLC.                 *)
(***************************************************************************)
EXTENDS SignalChannel

CONSTANTS a1, a2, a3

MCThree == {a1, a2, a3}
================================================================================
