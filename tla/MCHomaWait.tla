----------------------------- MODULE MCHomaWait -----------------------------
(***************************************************************************)
(* Small instances of HomaWait for TLC.                                    *)
(***************************************************************************)
EXTENDS HomaWait

CONSTANTS t1, t2, a, p, none

TwoThreads == {t1, t2}
None == {}
=============================================================================
