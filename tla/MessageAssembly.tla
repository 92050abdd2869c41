-------------------------- MODULE MessageAssembly --------------------------
(***************************************************************************)
(* What reassembly of one incoming message promises, with no packets, gaps *)
(* or locks: an accepted byte is never lost, only accepted bytes are       *)
(* stored in the application's buffers, where they stay, and the message   *)
(* is delivered only when all of its bytes have been stored.  A message    *)
(* may be abandoned at any time.                                           *)
(***************************************************************************)
EXTENDS Integers

CONSTANT Size

VARIABLES
    got,      \* bytes accepted from the network
    out,      \* bytes stored in the application's buffers
    status    \* "open", "delivered" or "abandoned"

avars == <<got, out, status>>

All == 0 .. (Size - 1)

AInit == got = {} /\ out = {} /\ status = "open"

\* Accept new bytes.
Accept ==
    /\ status = "open"
    /\ got \subseteq got' /\ got' \subseteq All
    /\ UNCHANGED <<out, status>>

\* Store accepted bytes.
Store ==
    /\ status = "open"
    /\ out \subseteq out' /\ out' \subseteq got
    /\ UNCHANGED <<got, status>>

Deliver ==
    /\ status = "open" /\ out = All
    /\ status' = "delivered"
    /\ UNCHANGED <<got, out>>

Abandon ==
    /\ status = "open"
    /\ status' = "abandoned"
    /\ got' = {} /\ out' = {}

ANext == Accept \/ Store \/ Deliver \/ Abandon

ASpec == AInit /\ [][ANext]_avars
=============================================================================
