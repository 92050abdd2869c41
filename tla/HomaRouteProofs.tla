--------------------------- MODULE HomaRouteProofs ---------------------------
(***************************************************************************)
(* Proofs about HomaRoute, for every number of dst_entries and senders.    *)
(***************************************************************************)
EXTENDS HomaRoute, FiniteSetTheorems, TLAPS

\* The steps are first-order and go to Zenon; the others are marked SMT.
USE ZenonT(60)

\* Senders that hold a reference to d.
Holders(d) == {t \in Senders : sender[t].dst = d /\ sender[t].pc \in {"check", "in"}}

\* The reference of peer->dst.
Own(d) == IF current = d THEN 1 ELSE 0

Entry == [state : {"free", "live", "dying"}, refs : Nat, obsolete : BOOLEAN,
          readers : SUBSET Senders]

RouteTypeOK ==
    /\ dst \in [Dsts -> Entry]
    /\ current \in Dsts
    /\ sender \in [Senders -> [pc : {"out", "fetch", "hold", "check", "lock", "in"},
                               dst : Dsts \cup {None}, pass : {0, 1}]]
    /\ changes \in Nat

\* References are counted while an entry is live; other entries have none.
RefsOK(d) ==
    /\ dst[d].state = "live" => dst[d].refs = Own(d) + Cardinality(Holders(d))
    /\ dst[d].state # "live" => dst[d].refs = 0

\* What a sender holds is live.  A sender between rcu_dereference and
\* dst_hold_safe may have the address of an entry that is dying, but then its
\* grace period waits for the sender.
SenderOK(t) ==
    /\ sender[t].pc \in {"hold", "check", "in"} => sender[t].dst \in Dsts
    /\ sender[t].pc \in {"check", "in"} => dst[sender[t].dst].state = "live"
    /\ sender[t].pc = "hold" =>
         \/ dst[sender[t].dst].state = "live"
         \/ dst[sender[t].dst].state = "dying" /\ t \in dst[sender[t].dst].readers

\* The inductive invariant.
RouteInv ==
    /\ RouteTypeOK
    /\ dst[current].state = "live"
    /\ \A d \in Dsts : RefsOK(d)
    /\ \A t \in Senders : SenderOK(t)

-----------------------------------------------------------------------------
(* Counting senders.                                                       *)

\* One sender more holds d, or one fewer.
LEMMA OneMore ==
  ASSUME NEW S, NEW T, NEW t, IsFiniteSet(S), t \notin S, T = S \cup {t}
  PROVE  IsFiniteSet(T) /\ Cardinality(S) \in Nat /\ Cardinality(T) = Cardinality(S) + 1
BY FS_AddElement, FS_CardinalityType

\* The senders are finitely many, and so are those that hold d.
LEMMA HoldersFinite ==
  ASSUME RouteAssumptions, NEW d
  PROVE  IsFiniteSet(Holders(d)) /\ Cardinality(Holders(d)) \in Nat
<1>1. Holders(d) \in SUBSET Senders
  BY DEF Holders
<1> QED BY <1>1, FS_Subset, FS_CardinalityType DEF RouteAssumptions

\* The peer starts with one live entry, which only it refers to.
LEMMA InitRoute ==
  ASSUME RouteAssumptions, Init
  PROVE  RouteInv
<1>1. RouteTypeOK
  BY DEF RouteAssumptions, Init, RouteTypeOK, Entry, Free, NewDst, None
<1>2. \A d \in Dsts : Holders(d) = {}
  BY DEF Holders, Init
<1>3. Cardinality({}) = 0
  BY FS_EmptySet
<1>4. \A d \in Dsts : /\ dst[d].state = IF current = d THEN "live" ELSE "free"
                     /\ dst[d].refs = Own(d)
  BY DEF Init, Own, Free, NewDst
<1>5. \A d \in Dsts : RefsOK(d)
  BY <1>2, <1>3, <1>4, SMTT(60) DEF Own, RefsOK
<1> QED BY <1>1, <1>4, <1>5 DEF RouteInv, SenderOK, Init, RouteAssumptions

\* The entry e after its last reference is dropped.
LEMMA DyingEntry ==
  ASSUME NEW e \in Entry, NEW R \in SUBSET Senders,
         NEW e2, e2 = [[[e EXCEPT !.refs = 0] EXCEPT !.state = "dying"] EXCEPT !.readers = R]
  PROVE  e2 \in Entry /\ e2.refs = 0 /\ e2.state = "dying" /\ e2.readers = R
<1>1. e2 = [state |-> "dying", refs |-> 0, obsolete |-> e.obsolete, readers |-> R]
  BY DEF Entry
<1> QED BY <1>1, SMTT(60) DEF Entry

\* What dst_release does to the entry whose reference is dropped, and to others.
LEMMA ReleaseFields ==
  ASSUME NEW m \in [Dsts -> Entry], NEW d \in Dsts, m[d].refs > 0,
         NEW m2, m2 = dst_release(m, d)
  PROVE  /\ m2 \in [Dsts -> Entry]
         /\ \A x \in Dsts \ {d} : m2[x] = m[x]
         /\ m2[d].refs = m[d].refs - 1
         /\ m[d].refs > 1 => m2[d].state = m[d].state
         /\ m[d].refs = 1 => m2[d].state = "dying" /\ m2[d].readers = Reading
<1>1. Reading \in SUBSET Senders
  BY DEF Reading
<1>2. CASE m[d].refs = 1
  <2>1. m2 = [m EXCEPT ![d] = [[[m[d] EXCEPT !.refs = 0] EXCEPT !.state = "dying"]
                               EXCEPT !.readers = Reading]]
    BY <1>2 DEF dst_release
  <2>2. m2[d] \in Entry /\ m2[d].refs = 0 /\ m2[d].state = "dying" /\ m2[d].readers = Reading
    <3>1. m2[d] = [[[m[d] EXCEPT !.refs = 0] EXCEPT !.state = "dying"] EXCEPT !.readers = Reading]
      BY <2>1
    <3>2. m[d] \in Entry
      OBVIOUS
    <3> HIDE DEF Entry
    <3> QED BY ONLY <1>1, <3>1, <3>2, DyingEntry, ZenonT(60)
  <2> QED BY <1>2, <2>1, <2>2, SMTT(60)
<1>3. CASE m[d].refs # 1
  BY <1>3, SMTT(60) DEF Entry, dst_release
<1> QED BY <1>2, <1>3

\* When d loses a reference, and the references that are left are the ones of
\* the next state, d stays live as long as it has any, and nobody is left who
\* holds it when it does not.
LEMMA ReleaseInv ==
  ASSUME RouteAssumptions, NEW m \in [Dsts -> Entry], NEW d \in Dsts,
         m[d].state = "live", dst' = dst_release(m, d),
         m[d].refs = Own(d)' + Cardinality(Holders(d)') + 1
  PROVE  /\ dst' \in [Dsts -> Entry]
         /\ RefsOK(d)'
         /\ \A x \in Dsts \ {d} : dst'[x] = m[x]
         /\ \/ dst'[d].state = "live"
            \/ /\ dst'[d].state = "dying" /\ dst'[d].readers = Reading
               /\ Holders(d)' = {} /\ current' # d
<1>1. IsFiniteSet(Holders(d)') /\ Cardinality(Holders(d)') \in Nat
  <2>1. Holders(d)' \in SUBSET Senders
    BY DEF Holders
  <2> QED BY <2>1, FS_Subset, FS_CardinalityType DEF RouteAssumptions
<1>2. Own(d)' \in {0, 1}
  BY DEF Own
<1>3. /\ dst' \in [Dsts -> Entry]
      /\ \A x \in Dsts \ {d} : dst'[x] = m[x]
      /\ dst'[d].refs = Own(d)' + Cardinality(Holders(d)')
      /\ m[d].refs > 1 => dst'[d].state = "live"
      /\ m[d].refs = 1 => dst'[d].state = "dying" /\ dst'[d].readers = Reading
  BY <1>1, <1>2, ReleaseFields, SMTT(60)
<1>4. CASE m[d].refs > 1
  BY <1>3, <1>4 DEF RefsOK
<1>5. CASE m[d].refs = 1
  <2>1. Own(d)' = 0 /\ Cardinality(Holders(d)') = 0
    BY <1>1, <1>2, <1>5, SMTT(60)
  <2>2. Holders(d)' = {} /\ current' # d
    BY <1>1, <2>1, FS_EmptySet, SMTT(60) DEF Own
  <2> QED BY <1>3, <1>5, <2>1, <2>2, SMTT(60) DEF RefsOK
<1> QED BY <1>1, <1>2, <1>4, <1>5, SMTT(60)

\* A sender drops its reference to d.
LEMMA DropInv ==
  ASSUME RouteAssumptions, RouteInv, NEW t \in Senders, NEW d \in Dsts,
         NEW pc \in {"lock", "out"}, NEW pass \in {0, 1},
         sender[t].pc \in {"check", "in"}, sender[t].dst = d,
         dst' = dst_release(dst, d),
         sender' = [sender EXCEPT ![t] = [pc |-> pc, dst |-> None, pass |-> pass]],
         UNCHANGED <<current, changes>>
  PROVE  RouteInv'
<1> USE RouteAssumptions, RouteInv DEF RouteInv
<1>1. dst[d].state = "live" /\ dst[d].refs = Own(d) + Cardinality(Holders(d)) /\ d # None
  BY DEF SenderOK, RefsOK, RouteAssumptions
<1>2. t \notin Holders(d)' /\ Holders(d) = Holders(d)' \cup {t}
  BY <1>1 DEF Holders, RouteTypeOK
<1>3. \A x \in Dsts \ {d} : Holders(x)' = Holders(x)
  BY DEF Holders, RouteTypeOK, RouteAssumptions
<1>4. IsFiniteSet(Holders(d)')
  <2>1. Holders(d)' \in SUBSET Senders
    BY DEF Holders
  <2> QED BY <2>1, FS_Subset DEF RouteAssumptions
<1>5. Cardinality(Holders(d)') \in Nat /\ Cardinality(Holders(d)) = Cardinality(Holders(d)') + 1
  BY <1>2, <1>4, OneMore
<1>6. dst[d].refs = Own(d)' + Cardinality(Holders(d)') + 1
  BY <1>1, <1>5, SMTT(60) DEF Own
<1>7. /\ dst' \in [Dsts -> Entry] /\ RefsOK(d)'
      /\ \A x \in Dsts \ {d} : dst'[x] = dst[x]
      /\ \/ dst'[d].state = "live"
         \/ /\ dst'[d].state = "dying" /\ dst'[d].readers = Reading
            /\ Holders(d)' = {} /\ current' # d
  BY <1>1, <1>6, ReleaseInv, SMTT(60) DEF RouteTypeOK
<1>8. \A x \in Dsts : RefsOK(x)'
  BY <1>3, <1>7, SMTT(60) DEF RefsOK, Own
<1>9. ASSUME NEW x \in Senders  PROVE  SenderOK(x)'
  <2>1. CASE x = t
    BY <2>1 DEF SenderOK, RouteTypeOK
  <2>2. CASE x # t
    <3>1. sender'[x] = sender[x]
      BY <2>2 DEF RouteTypeOK
    <3>2. sender[x].pc \in {"check", "in"} /\ sender[x].dst = d => x \in Holders(d)'
      BY <3>1 DEF Holders
    <3>3. sender[x].pc = "hold" => x \in Reading
      BY DEF Reading
    <3> QED BY <1>7, <3>1, <3>2, <3>3, SMTT(60) DEF SenderOK
  <2> QED BY <2>1, <2>2
<1> QED BY <1>7, <1>8, <1>9 DEF RouteTypeOK

\* Every step keeps the invariant.
LEMMA StepRoute ==
  ASSUME RouteAssumptions, RouteInv, [Next]_routeVars
  PROVE  RouteInv'
<1> USE RouteAssumptions, RouteInv DEF RouteInv
<1>1. ASSUME NEW t \in Senders, homa_get_dst(t)  PROVE  RouteInv'
  <2>1. \A d \in Dsts : Holders(d)' = Holders(d)
    BY <1>1 DEF homa_get_dst, Holders, RouteTypeOK
  <2> QED BY <1>1, <2>1 DEF homa_get_dst, RouteTypeOK, RefsOK, SenderOK, Own
<1>2. ASSUME NEW t \in Senders, Fetch(t)  PROVE  RouteInv'
  <2>1. \A d \in Dsts : Holders(d)' = Holders(d)
    BY <1>2 DEF Fetch, Holders, RouteTypeOK
  <2>2. RouteTypeOK' /\ UNCHANGED <<dst, current>>
    BY <1>2 DEF Fetch, RouteTypeOK
  <2>3. \A x \in Senders : SenderOK(x)'
    BY <1>2, <2>2, SMTT(60) DEF Fetch, RouteTypeOK, SenderOK
  <2> QED BY <2>1, <2>2, <2>3 DEF RefsOK, Own
<1>3. ASSUME NEW t \in Senders, Hold(t)  PROVE  RouteInv'
  <2>1. CASE HoldSafe(sender[t].dst)
    <3> PICK d \in Dsts : d = sender[t].dst
      BY <1>3 DEF Hold, SenderOK
    <3>1. dst[d].state = "live"
      BY <2>1, SMTT(60) DEF HoldSafe, RefsOK
    <3>2. t \notin Holders(d) /\ Holders(d)' = Holders(d) \cup {t}
      BY <1>3, <2>1, SMTT(60) DEF Hold, Move, Holders, RouteTypeOK
    <3>3. ASSUME NEW x \in Dsts \ {d}
          PROVE  Holders(x)' = Holders(x) /\ dst'[x] = dst[x]
      <4>1. dst'[x] = dst[x]
        BY <1>3, <2>1 DEF Hold, RouteTypeOK
      <4> QED BY <1>3, <2>1, <4>1, SMTT(60) DEF Hold, Move, Holders, RouteTypeOK
    <3>4. /\ Cardinality(Holders(d)) \in Nat
          /\ Cardinality(Holders(d)') = Cardinality(Holders(d)) + 1
      BY <3>2, HoldersFinite, OneMore
    <3>5. /\ dst' \in [Dsts -> Entry] /\ dst'[d].state = "live"
          /\ dst'[d].refs = dst[d].refs + 1
      <4>1. dst' = [dst EXCEPT ![d] = [dst[d] EXCEPT !.refs = @ + 1]]
        BY <1>3, <2>1 DEF Hold
      <4>2. dst[d] \in Entry
        BY <3>1 DEF RouteTypeOK
      <4>3. /\ [dst[d] EXCEPT !.refs = @ + 1] \in Entry
            /\ [dst[d] EXCEPT !.refs = @ + 1].state = dst[d].state
            /\ [dst[d] EXCEPT !.refs = @ + 1].refs = dst[d].refs + 1
        BY <4>2, SMTT(60) DEF Entry
      <4> QED BY <3>1, <4>1, <4>3 DEF RouteTypeOK
    <3>6. current' = current
      BY <1>3 DEF Hold
    <3>7. \A x \in Dsts : RefsOK(x)'
      <4>1. RefsOK(d)'
        BY <3>1, <3>4, <3>5, <3>6, SMTT(60) DEF RefsOK, Own, RouteTypeOK, Entry
      <4>2. ASSUME NEW x \in Dsts \ {d}  PROVE  RefsOK(x)'
        BY <3>3, <3>6 DEF RefsOK, Own
      <4> QED BY <4>1, <4>2
    <3>8. \A x \in Senders : SenderOK(x)'
      BY <1>3, <2>1, <3>1, <3>3, <3>5, SMTT(60) DEF Hold, Move, SenderOK, RouteTypeOK
    <3> QED BY <1>3, <2>1, <3>3, <3>5, <3>6, <3>7, <3>8, SMTT(60) DEF Hold, Move, RouteTypeOK
  <2>2. CASE ~HoldSafe(sender[t].dst)
    <3>1. \A d \in Dsts : Holders(d)' = Holders(d)
      BY <1>3, <2>2 DEF Hold, Move, Holders, RouteTypeOK
    <3> QED BY <1>3, <2>2, <3>1, SMTT(60) DEF Hold, Move, RouteTypeOK, RefsOK, SenderOK, Own
  <2> QED BY <2>1, <2>2
<1>4. ASSUME NEW t \in Senders, Check(t)  PROVE  RouteInv'
  <2> PICK d \in Dsts : d = sender[t].dst
    BY <1>4 DEF Check, SenderOK
  <2>1. dst[d].state = "live" /\ current' = current /\ changes' = changes
    BY <1>4 DEF Check, SenderOK
  <2>2. CASE ~dst[d].obsolete \/ GivesUp(t)
    <3>1. dst' = [x \in Dsts |-> [dst[x] EXCEPT !.readers = @ \ {t}]] /\ Move(t, "in")
      BY <1>4, <2>2 DEF Check
    <3>2. \A x \in Dsts : /\ dst'[x] \in Entry /\ dst'[x].state = dst[x].state
                         /\ dst'[x].refs = dst[x].refs
                         /\ dst'[x].readers = dst[x].readers \ {t}
      BY <3>1 DEF RouteTypeOK, Entry
    <3>3. \A x \in Dsts : Holders(x)' = Holders(x)
      BY <1>4, <3>1 DEF Check, Move, Holders, RouteTypeOK
    <3>4. \A x \in Dsts : RefsOK(x)'
      BY <2>1, <3>2, <3>3, SMTT(60) DEF RefsOK, Own
    <3>5. ASSUME NEW x \in Senders  PROVE  SenderOK(x)'
      <4>1. CASE x = t
        <5>1. sender'[t].pc = "in" /\ sender'[t].dst = d /\ d \in Dsts
          BY <1>4, <3>1 DEF Check, Move, SenderOK, RouteTypeOK
        <5> QED BY <2>1, <3>2, <4>1, <5>1 DEF SenderOK
      <4>2. CASE x # t
        <5>1. sender'[x] = sender[x] /\ SenderOK(x)
          BY <3>1, <4>2 DEF Move, RouteTypeOK
        <5> QED BY ONLY <2>1, <3>2, <4>2, <5>1, SMTT(60) DEF SenderOK
      <4> QED BY <4>1, <4>2
    <3>6. RouteTypeOK'
      <4>1. dst' \in [Dsts -> Entry]
        BY <3>1, <3>2
      <4> QED BY <2>1, <3>1, <4>1 DEF Move, RouteTypeOK
    <3> QED BY <2>1, <3>2, <3>4, <3>5, <3>6 DEF RouteTypeOK
  <2>3. CASE dst[d].obsolete /\ ~GivesUp(t)
    <3>1. /\ dst' = dst_release(dst, d)
          /\ sender' = [sender EXCEPT ![t] = [pc |-> "lock", dst |-> None, pass |-> 1]]
      BY <1>4, <2>3, SMTT(60) DEF Check, RouteTypeOK
    <3> QED BY <1>4, <2>1, <3>1, DropInv DEF Check, RouteTypeOK
  <2> QED BY <2>2, <2>3 DEF RouteTypeOK, Entry
<1>5. ASSUME NEW t \in Senders, homa_peer_reset_dst(t)  PROVE  RouteInv'
  <2>1. Move(t, "fetch") /\ changes' = changes /\ sender[t].pc = "lock"
    BY <1>5 DEF homa_peer_reset_dst
  <2>2. \A x \in Dsts : Holders(x)' = Holders(x)
    BY <2>1 DEF Move, Holders, RouteTypeOK
  <2>3. \A x \in Senders : /\ sender'[x].dst = sender[x].dst
                           /\ sender'[x].pc = IF x = t THEN "fetch" ELSE sender[x].pc
    BY <2>1 DEF Move, RouteTypeOK
  <2>4. CASE UNCHANGED <<dst, current>>
    BY <2>1, <2>2, <2>3, <2>4, SMTT(60) DEF Move, RouteTypeOK, RefsOK, SenderOK, Own
  <2>5. ASSUME NEW d \in Dsts, dst[d].state = "free", current' = d,
               dst' = dst_release([dst EXCEPT ![d] = NewDst], current)
        PROVE  RouteInv'
    <3> PICK c \in Dsts : c = current
      BY DEF RouteTypeOK
    <3>1. PICK m : m = [dst EXCEPT ![d] = NewDst]
      OBVIOUS
    <3>2. dst' = dst_release(m, c) /\ c # d
      BY <2>5, <3>1
    <3>3. m \in [Dsts -> Entry] /\ m[d] = NewDst /\ \A x \in Dsts \ {d} : m[x] = dst[x]
      BY <3>1 DEF RouteTypeOK, Entry, NewDst
    <3>4. Holders(d) = {}
      BY <2>5 DEF Holders, SenderOK
    <3>5. m[c].state = "live" /\ m[c].refs = Own(c)' + Cardinality(Holders(c)') + 1
      <4>1. Cardinality(Holders(c)) \in Nat
        BY HoldersFinite
      <4> QED BY <2>2, <2>5, <3>2, <3>3, <4>1, SMTT(60) DEF RefsOK, Own
    <3>6. /\ dst' \in [Dsts -> Entry] /\ RefsOK(c)'
          /\ \A x \in Dsts \ {c} : dst'[x] = m[x]
          /\ \/ dst'[c].state = "live"
             \/ /\ dst'[c].state = "dying" /\ dst'[c].readers = Reading
                /\ Holders(c)' = {}
      BY <3>2, <3>3, <3>5, ReleaseInv
    <3>7. RefsOK(d)' /\ dst'[d].state = "live"
      <4>1. dst'[d].state = "live" /\ dst'[d].refs = 1
        BY <3>2, <3>3, <3>6, SMTT(60) DEF NewDst
      <4>2. Own(d)' = 1 /\ Cardinality(Holders(d)') = 0
        BY <2>2, <2>5, <3>4, FS_EmptySet DEF Own
      <4> QED BY <4>1, <4>2, SMTT(60) DEF RefsOK
    <3>8. ASSUME NEW x \in Dsts \ {c, d}  PROVE  dst'[x] = dst[x] /\ RefsOK(x)'
      <4>1. dst'[x] = dst[x]
        BY <3>3, <3>6
      <4>2. Own(x)' = 0 /\ Own(x) = 0 /\ Holders(x)' = Holders(x)
        BY <2>2, <2>5 DEF Own
      <4> QED BY <4>1, <4>2 DEF RefsOK
    <3>9. ASSUME NEW x \in Senders  PROVE  SenderOK(x)'
      <4>1. sender[x].pc \in {"check", "in"} /\ sender[x].dst = c => x \in Holders(c)'
        BY <2>2 DEF Holders
      <4>2. sender[x].pc = "hold" => x \in Reading
        BY DEF Reading
      <4>3. sender[x].pc \in {"hold", "check", "in"} => sender[x].dst # d
        BY <2>5 DEF SenderOK
      <4> QED BY <2>1, <2>3, <3>6, <3>8, <4>1, <4>2, <4>3, SMTT(60) DEF SenderOK
    <3>10. RouteTypeOK'
      BY <2>1, <2>5, <3>6 DEF Move, RouteTypeOK
    <3> QED BY <2>5, <3>6, <3>7, <3>8, <3>9, <3>10
  <2> QED BY <1>5, <2>4, <2>5 DEF homa_peer_reset_dst
<1>6. ASSUME NEW t \in Senders, Release(t)  PROVE  RouteInv'
  <2> PICK d \in Dsts : d = sender[t].dst
    BY <1>6 DEF Release, SenderOK
  <2> QED BY <1>6, DropInv DEF Release, SenderOK, RouteTypeOK
<1>7. ASSUME NEW d \in Dsts, FreeDst(d)  PROVE  RouteInv'
  <2>1. dst[d].state = "dying" /\ dst[d].readers = {} /\ UNCHANGED <<current, sender, changes>>
    BY <1>7 DEF FreeDst
  <2>2. /\ dst' \in [Dsts -> Entry] /\ dst'[d].state = "free" /\ dst'[d].refs = 0
        /\ \A x \in Dsts \ {d} : dst'[x] = dst[x]
    BY <1>7 DEF FreeDst, Free, RouteTypeOK, Entry
  <2>3. \A x \in Dsts : Holders(x)' = Holders(x) /\ RefsOK(x)'
    BY <2>1, <2>2 DEF RefsOK, Own, Holders
  <2>4. \A x \in Senders : SenderOK(x)'
    BY <2>1, <2>2 DEF SenderOK
  <2> QED BY <2>1, <2>2, <2>3, <2>4 DEF RouteTypeOK
<1>8. CASE RouteChange
  <2>1. UNCHANGED <<current, sender>> /\ changes' = changes + 1
    BY <1>8 DEF RouteChange
  <2>2. /\ dst' \in [Dsts -> Entry]
        /\ \A x \in Dsts : /\ dst'[x].state = dst[x].state /\ dst'[x].refs = dst[x].refs
                           /\ dst'[x].readers = dst[x].readers
    BY <1>8 DEF RouteChange, RouteTypeOK, Entry
  <2>3. \A x \in Dsts : Holders(x)' = Holders(x) /\ RefsOK(x)'
    BY <2>1, <2>2 DEF RefsOK, Own, Holders
  <2>4. \A x \in Senders : SenderOK(x)'
    BY <2>1, <2>2 DEF SenderOK
  <2> QED BY <2>1, <2>2, <2>3, <2>4, SMTT(60) DEF RouteTypeOK
<1>9. CASE UNCHANGED routeVars
  BY <1>9 DEF routeVars, RouteTypeOK, RefsOK, SenderOK, Own, Holders
<1> QED BY <1>1, <1>2, <1>3, <1>4, <1>5, <1>6, <1>7, <1>8, <1>9 DEF Next, SenderStep

\* A peer's dst_entry is counted exactly and is not freed while somebody sends
\* with it (homa_get_dst, homa_peer_reset_dst), for every number of senders.
THEOREM DstRefs == ASSUME RouteAssumptions PROVE Spec => []DstRefsExact
<1>1. Init => RouteInv
  BY InitRoute
<1>2. RouteInv /\ [Next]_routeVars => RouteInv'
  BY StepRoute
<1>3. RouteInv => DstRefsExact
  BY DEF RouteInv, DstRefsExact, RefsOK, SenderOK, Own, Holders
<1> QED BY <1>1, <1>2, <1>3, PTL DEF Spec
=============================================================================
