----------------------------- MODULE MCOtpCounter -----------------------------
(***************************************************************************)
(* Instances of OtpCounter for TLC.                                        *)
(***************************************************************************)
EXTENDS OtpCounter

CONSTANTS t1, t2, p1, p2, p3

MCThreads   == {t1, t2}
MCPasswords == {p1, p2, p3}
===============================================================================
