----------------------------- MODULE MCHomaPool -----------------------------
(***************************************************************************)
(* A small instance of HomaPool for TLC.                                   *)
(***************************************************************************)
EXTENDS HomaPool, TLC

CONSTANTS b0, b1, b2, c1, c2, r1, r2, r3, none

ThreeBpages == {b0, b1, b2}
TwoCores == {c1, c2}
ThreeRpcs == {r1, r2, r3}

\* With 3 units to a bpage: partial allocations that do and do not fit.
Uneven == r1 :> 2 @@ r2 :> 2 @@ r3 :> 1
=============================================================================
