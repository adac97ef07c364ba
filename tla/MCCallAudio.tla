------------------------------ MODULE MCCallAudio ------------------------------
(***************************************************************************)
(* Instances of CallAudio for TLC.                                         *)
(***************************************************************************)
EXTENDS CallAudio

MCAnyFailure == Stages \cup {"creating"}
================================================================================
