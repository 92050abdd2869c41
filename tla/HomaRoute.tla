------------------------------ MODULE HomaRoute -----------------------------
(***************************************************************************)
(* The route that a homa_peer caches (homa_get_dst, homa_peer_reset_dst):  *)
(* senders take a reference to the dst_entry under RCU without the peer's  *)
(* lock, while another thread may be replacing it.                         *)
(***************************************************************************)
EXTENDS Integers, FiniteSets

CONSTANTS
    Dsts,           \* dst_entries that can be allocated: 1, 2, ...
    Senders,        \* threads that call homa_get_dst
    MaxChanges      \* bound on route changes

VARIABLES
    dst,            \* dst[d]: state, references, whether it is obsolete
    current,        \* peer->dst
    sender,         \* sender[t]: where t is in homa_get_dst, dst and pass
    changes         \* route changes so far

routeVars == <<dst, current, sender, changes>>

None == 0

\* What the constants must satisfy.
RouteAssumptions ==
    /\ 1 \in Dsts /\ None \notin Dsts
    /\ IsFiniteSet(Senders)
    /\ MaxChanges \in Nat

Free == [state |-> "free", refs |-> 0, obsolete |-> FALSE, readers |-> {}]
NewDst == [state |-> "live", refs |-> 1, obsolete |-> FALSE, readers |-> {}]

Init ==
    /\ dst = [d \in Dsts |-> IF d = 1 THEN NewDst ELSE Free]
    /\ current = 1
    /\ sender = [t \in Senders |-> [pc |-> "out", dst |-> None, pass |-> 0]]
    /\ changes = 0

Reading == {t \in Senders : sender[t].pc \in {"fetch", "hold", "check", "lock"}}
Move(t, pc) == sender' = [sender EXCEPT ![t].pc = pc]

\* The memory is freed after a grace period.
dst_release(m, d) ==
    IF m[d].refs = 1
    THEN [m EXCEPT ![d].refs = 0, ![d].state = "dying", ![d].readers = Reading]
    ELSE [m EXCEPT ![d].refs = @ - 1]

FreeDst(d) ==
    /\ dst[d].state = "dying" /\ dst[d].readers = {}
    /\ dst' = [dst EXCEPT ![d] = Free]
    /\ UNCHANGED <<current, sender, changes>>

homa_get_dst(t) ==
    /\ sender[t].pc = "out"
    /\ sender' = [sender EXCEPT ![t] = [pc |-> "fetch", dst |-> None, pass |-> 0]]
    /\ UNCHANGED <<dst, current, changes>>

Fetch(t) ==     \* rcu_dereference
    /\ sender[t].pc = "fetch"
    /\ sender' = [sender EXCEPT ![t].pc = "hold", ![t].dst = current]
    /\ UNCHANGED <<dst, current, changes>>

\* Mutant: a plain dst_hold.
HoldAlways(d) == TRUE

\* dst_hold_safe.
HoldSafe(d) == dst[d].refs > 0

Hold(t) ==
    LET d == sender[t].dst
    IN  /\ sender[t].pc = "hold"
        /\ IF HoldSafe(d) THEN dst' = [dst EXCEPT ![d].refs = @ + 1] /\ Move(t, "check")
           ELSE Move(t, "fetch") /\ UNCHANGED dst
        /\ UNCHANGED <<current, changes>>

\* "After the first pass it's OK to return an obsolete dst".
GivesUp(t) == sender[t].pass > 0

Check(t) ==
    LET d == sender[t].dst
    IN  /\ sender[t].pc = "check"
        /\ IF ~dst[d].obsolete \/ GivesUp(t)
           THEN /\ dst' = [x \in Dsts |-> [dst[x] EXCEPT !.readers = @ \ {t}]]
                /\ Move(t, "in")
           ELSE /\ dst' = dst_release(dst, d)
                /\ sender' = [sender EXCEPT ![t].pc = "lock", ![t].dst = None,
                                            ![t].pass = 1]
        /\ UNCHANGED <<current, changes>>

\* homa_peer_reset_dst, under the peer's lock: without a new route the old one
\* is left in place.
homa_peer_reset_dst(t) ==
    /\ sender[t].pc = "lock"
    /\ \/ UNCHANGED <<dst, current>>
       \/ \E d \in Dsts :
            /\ dst[d].state = "free"
            /\ current' = d
            /\ dst' = dst_release([dst EXCEPT ![d] = NewDst], current)
    /\ Move(t, "fetch")
    /\ UNCHANGED changes

Release(t) ==
    /\ sender[t].pc = "in"
    /\ dst' = dst_release(dst, sender[t].dst)
    /\ sender' = [sender EXCEPT ![t] = [pc |-> "out", dst |-> None, pass |-> 0]]
    /\ UNCHANGED <<current, changes>>

RouteChange ==
    /\ changes < MaxChanges
    /\ changes' = changes + 1
    /\ dst' = [dst EXCEPT ![current].obsolete = TRUE]
    /\ UNCHANGED <<current, sender>>

SenderStep(t) ==
    Fetch(t) \/ Hold(t) \/ Check(t) \/ homa_peer_reset_dst(t)

Next ==
    \/ \E t \in Senders : homa_get_dst(t) \/ SenderStep(t) \/ Release(t)
    \/ \E d \in Dsts : FreeDst(d)
    \/ RouteChange

Spec == Init /\ [][Next]_routeVars

-----------------------------------------------------------------------------
(* Properties                                                              *)

\* The peer "owns a reference that must eventually be released" (homa_peer.h),
\* each sender one: references are exact, and what a sender sends with has not
\* been freed, although peer->dst is read without a lock.
DstRefsExact ==
    /\ \A d \in Dsts : dst[d].state = "live" =>
         dst[d].refs = (IF current = d THEN 1 ELSE 0)
                       + Cardinality({t \in Senders : sender[t].dst = d
                                        /\ sender[t].pc \in {"check", "in"}})
    /\ dst[current].state = "live"
    /\ \A t \in Senders : sender[t].pc \in {"check", "in"} =>
         dst[sender[t].dst].state = "live"
=============================================================================
