--------------------------- MODULE HomaQdevProofs ---------------------------
(***************************************************************************)
(* Proofs about the life of a homa_qdisc_dev (HomaQdev), for any number of *)
(* qdiscs, structures and threads that scan the list: the structure of a   *)
(* device has exactly the references of its qdiscs, it is never used after *)
(* it has been freed, and a device never has two that are in use.          *)
(***************************************************************************)
EXTENDS HomaQdev, ListLemmas

\* The steps are first-order and go to Zenon; the others are marked SMT.
USE ZenonT(60)

\* Threads in homa_qdisc_qdev_put that have dropped the last reference.
Leaving(t) == user[t].pc \in {"unlink", "remove"}

\* Where the structure of a thread is: in the list while the thread has a
\* reference or has to unlink it; a reader of the list may also look at one
\* that waits for this reader before it is freed.
DevOf(t) ==
    /\ user[t].pc = "in" \/ Leaving(t) =>
         user[t].dev \in Qdevs /\ qdev[user[t].dev].state = "live"
    /\ user[t].pc = "in" => t \in Qdiscs
    /\ Leaving(t) => qdev[user[t].dev].refs = 0
    /\ user[t].pc \in {"out", "lock", "create"} => user[t].dev = Null
    /\ user[t].pc \in {"rcu", "check"} /\ user[t].dev # Null =>
         \/ qdev[user[t].dev].state = "live"
         \/ qdev[user[t].dev].state = "dying" /\ t \in qdev[user[t].dev].readers

\* Exactly the structures that are not being freed are in the list.
Listed ==
    /\ NoRepeats(qdevs)
    /\ \A d \in Qdevs : qdev[d].state = "live" <=> d \in Range(qdevs)

\* One thread unlinks a structure.
OneLeaves ==
    \A s, t \in Users : Leaving(s) /\ Leaving(t) /\ user[s].dev = user[t].dev => s = t

\* Threads that create or unlink a structure have the mutex.
MutexHeld == \A t \in Users : user[t].pc \in {"create", "remove"} => mutex = t

RefsExact == \A d \in Qdevs : qdev[d].refs = Cardinality(Holders(d))

DevsOk == \A t \in Users : DevOf(t)

\* The inductive invariant.
QdevInv ==
    /\ QdevTypeOK /\ DevsOk /\ Listed /\ OneLeaves /\ MutexHeld /\ RefsExact /\ OneQdev

\* The invariant says what the run checks.
LEMMA QdevInvEnough == ASSUME QdevAssumptions, QdevInv PROVE QdevConsistent
<1>1. ASSUME NEW t \in Users, user[t].dev # Null
      PROVE  qdev[user[t].dev].state # "free"
  BY <1>1 DEF QdevInv, QdevTypeOK, UserType, DevsOk, DevOf, Leaving
<1> QED BY <1>1 DEF QdevInv, QdevConsistent, QdevRefsExact, RefsExact

\* The number of qdiscs that use d when thread t moves.
LEMMA HoldersMove ==
  ASSUME QdevAssumptions, QdevTypeOK, NEW t \in Users, NEW k \in UserType, NEW d \in Qdevs,
         user' = [user EXCEPT ![t] = k]
  PROVE  /\ IsFiniteSet(Holders(d)) /\ Cardinality(Holders(d)) \in Nat
         /\ ~(t \in Holders(d)) /\ ~(t \in Qdiscs /\ k.pc = "in" /\ k.dev = d) =>
              Holders(d)' = Holders(d)
         /\ t \in Holders(d) /\ ~(k.pc = "in" /\ k.dev = d) =>
              Cardinality(Holders(d)') = Cardinality(Holders(d)) - 1
         /\ t \in Qdiscs /\ ~(t \in Holders(d)) /\ k.pc = "in" /\ k.dev = d =>
              Cardinality(Holders(d)') = Cardinality(Holders(d)) + 1
<1>1. IsFiniteSet(Holders(d)) /\ Holders(d) \subseteq Qdiscs
  <2>1. Holders(d) \subseteq Qdiscs
    BY DEF Holders
  <2> QED BY <2>1, FS_Subset DEF QdevAssumptions
<1>2. Cardinality(Holders(d)) \in Nat
  BY <1>1, FS_CardinalityType
<1>3. /\ \A s \in Users : s # t => user'[s] = user[s]
      /\ user'[t] = k /\ Qdiscs \subseteq Users
  BY DEF QdevTypeOK, Users
<1>4. ASSUME ~(t \in Holders(d)), ~(t \in Qdiscs /\ k.pc = "in" /\ k.dev = d)
      PROVE  Holders(d)' = Holders(d)
  BY <1>3, <1>4 DEF Holders
<1>5. ASSUME t \in Holders(d), ~(k.pc = "in" /\ k.dev = d)
      PROVE  Cardinality(Holders(d)') = Cardinality(Holders(d)) - 1
  <2>1. Holders(d)' = Holders(d) \ {t}
    BY <1>3, <1>5 DEF Holders
  <2> QED BY <1>1, <1>5, <2>1, FS_RemoveElement
<1>6. ASSUME t \in Qdiscs, ~(t \in Holders(d)), k.pc = "in", k.dev = d
      PROVE  Cardinality(Holders(d)') = Cardinality(Holders(d)) + 1
  <2>1. Holders(d)' = Holders(d) \cup {t}
    BY <1>3, <1>6 DEF Holders
  <2> QED BY <1>1, <1>6, <2>1, FS_AddElement
<1> QED BY <1>1, <1>2, <1>4, <1>5, <1>6

\* Nobody uses anything at first.
LEMMA InitQdev == ASSUME QdevAssumptions PROVE QdevInit => QdevInv
<1> SUFFICES ASSUME QdevInit PROVE QdevInv
  OBVIOUS
<1>1. QdevTypeOK
  BY SMTT(60) DEF QdevInit, QdevTypeOK, QdevType, UserType, Free
<1>2. qdevs = <<>> /\ Range(qdevs) = {} /\ NoRepeats(qdevs)
  BY SMTT(60) DEF QdevInit, Range, NoRepeats
<1>3. DevsOk /\ Listed /\ OneLeaves /\ MutexHeld /\ OneQdev
  BY <1>2 DEF QdevInit, DevsOk, DevOf, Leaving, Listed, Free, OneLeaves, MutexHeld, OneQdev, Users
<1>4. RefsExact
  <2>1. \A d \in Qdevs : Holders(d) = {}
    BY DEF QdevInit, Holders, Users
  <2> QED BY <2>1, FS_EmptySet DEF QdevInit, RefsExact, Free
<1> QED BY <1>1, <1>3, <1>4 DEF QdevInv

-----------------------------------------------------------------------------
(* Steps that neither get nor drop a reference                             *)

\* A thread moves on, and may leave its RCU section.
LEMMA QuietMove ==
  ASSUME QdevAssumptions, QdevInv, NEW t \in Users, NEW k \in UserType,
         user' = [user EXCEPT ![t] = k], user[t].pc # "in", k.pc # "in",
         qdev' \in [Qdevs -> QdevType], UNCHANGED qdevs,
         \A d \in Qdevs : /\ qdev'[d].state = qdev[d].state /\ qdev'[d].refs = qdev[d].refs
                          /\ qdev[d].readers \ {t} \subseteq qdev'[d].readers,
         mutex' \in Users \cup {Null}, rounds' \in [Qdiscs -> Nat],
         k.pc \in {"unlink", "remove"} => Leaving(t) /\ k.dev = user[t].dev,
         \A s \in Users : user'[s].pc \in {"create", "remove"} => mutex' = s,
         DevOf(t)'
  PROVE  QdevInv'
<1>1. /\ user' \in [Users -> UserType] /\ user'[t] = k /\ Qdiscs \subseteq Users
      /\ \A s \in Users : s # t => user'[s] = user[s]
  BY DEF QdevInv, QdevTypeOK, Users
<1>2. QdevTypeOK'
  BY <1>1 DEF QdevInv, QdevTypeOK
<1>3. DevsOk'
  <2> SUFFICES ASSUME NEW s \in Users, s # t PROVE DevOf(s)'
    BY DEF DevsOk
  <2>1. DevOf(s) /\ user'[s] = user[s] /\ user[s].dev \in Qdevs \cup {Null}
    BY <1>1 DEF QdevInv, DevsOk, QdevTypeOK, UserType
  <2>2. (user[s].pc = "in" \/ Leaving(s) => user[s].dev \in Qdevs) /\ Null \notin Qdevs
    BY <2>1 DEF DevOf, QdevAssumptions
  <2>3. s \in qdev[user[s].dev].readers /\ user[s].dev \in Qdevs => s \in qdev'[user[s].dev].readers
    OBVIOUS
  <2> QED BY <2>1, <2>2, <2>3 DEF DevOf, Leaving
<1>4. Listed'
  BY DEF QdevInv, Listed
<1>5. OneLeaves'
  BY <1>1, SMTT(60) DEF QdevInv, OneLeaves, Leaving
<1>6. MutexHeld'
  BY DEF MutexHeld
<1>7. RefsExact'
  <2> SUFFICES ASSUME NEW d \in Qdevs PROVE qdev'[d].refs = Cardinality(Holders(d)')
    BY DEF RefsExact
  <2>1. Holders(d)' = Holders(d)
    BY <1>1 DEF Holders
  <2> QED BY <2>1 DEF QdevInv, RefsExact
<1>8. OneQdev'
  BY <1>1 DEF QdevInv, OneQdev
<1> QED BY <1>2, <1>3, <1>4, <1>5, <1>6, <1>7, <1>8 DEF QdevInv

\* A thread moves on and changes nothing else.
LEMMA LonelyMove ==
  ASSUME QdevAssumptions, QdevInv, NEW t \in Users, NEW k \in UserType,
         user' = [user EXCEPT ![t] = k], user[t].pc # "in", k.pc # "in",
         UNCHANGED <<qdev, qdevs, mutex>>, rounds' \in [Qdiscs -> Nat],
         k.pc \notin {"unlink", "remove", "create"}, DevOf(t)'
  PROVE  QdevInv'
<1>1. /\ user'[t] = k /\ \A s \in Users : s # t => user'[s] = user[s]
  BY DEF QdevInv, QdevTypeOK
<1>2. \A s \in Users : user'[s].pc \in {"create", "remove"} => mutex' = s
  BY <1>1 DEF QdevInv, MutexHeld
<1>3. qdev' \in [Qdevs -> QdevType] /\ mutex' \in Users \cup {Null}
  BY DEF QdevInv, QdevTypeOK
<1>4. \A d \in Qdevs : /\ qdev'[d].state = qdev[d].state /\ qdev'[d].refs = qdev[d].refs
                       /\ qdev[d].readers \ {t} \subseteq qdev'[d].readers
  OBVIOUS
<1> QED BY <1>2, <1>3, <1>4, QuietMove

\* What rcu_read_unlock changes.
LEMMA LeaveRcuFacts ==
  ASSUME QdevInv, NEW t \in Users
  PROVE  /\ LeaveRcu(t) \in [Qdevs -> QdevType]
         /\ \A d \in Qdevs : /\ LeaveRcu(t)[d].state = qdev[d].state
                             /\ LeaveRcu(t)[d].refs = qdev[d].refs
                             /\ LeaveRcu(t)[d].readers = qdev[d].readers \ {t}
<1>1. ASSUME NEW d \in Qdevs
      PROVE  /\ [qdev[d] EXCEPT !.readers = @ \ {t}] \in QdevType
             /\ [qdev[d] EXCEPT !.readers = @ \ {t}].state = qdev[d].state
             /\ [qdev[d] EXCEPT !.readers = @ \ {t}].refs = qdev[d].refs
             /\ [qdev[d] EXCEPT !.readers = @ \ {t}].readers = qdev[d].readers \ {t}
  <2>1. qdev[d] \in QdevType
    BY DEF QdevInv, QdevTypeOK
  <2> QED BY <2>1 DEF QdevType
<1> QED BY <1>1 DEF LeaveRcu

\* A thread goes to a place where it has no structure, out of its RCU section.
LEMMA GoOut ==
  ASSUME QdevAssumptions, QdevInv, NEW t \in Users, NEW pc \in {"out", "lock"},
         Go(t, pc, Null), user[t].pc # "in", qdev' = LeaveRcu(t) \/ qdev' = qdev,
         UNCHANGED <<qdevs, rounds>>, mutex' = mutex \/ (mutex = t /\ mutex' = Null)
  PROVE  QdevInv'
<1>1. PICK k \in UserType : k = [pc |-> pc, dev |-> Null, seen |-> {}]
  BY DEF UserType
<1>2. user' = [user EXCEPT ![t] = k] /\ k.pc = pc /\ k.dev = Null
  BY <1>1 DEF Go
<1>3. /\ user'[t] = k /\ \A s \in Users : s # t => user'[s] = user[s]
  BY <1>2 DEF QdevInv, QdevTypeOK
<1>4. \A s \in Users : user'[s].pc \in {"create", "remove"} => mutex' = s
  BY <1>2, <1>3 DEF QdevInv, MutexHeld
<1>5. DevOf(t)'
  BY <1>2, <1>3 DEF DevOf, Leaving
<1>6. /\ qdev' \in [Qdevs -> QdevType]
      /\ \A d \in Qdevs : /\ qdev'[d].state = qdev[d].state /\ qdev'[d].refs = qdev[d].refs
                          /\ qdev[d].readers \ {t} \subseteq qdev'[d].readers
  BY LeaveRcuFacts, SMTT(60) DEF QdevInv, QdevTypeOK
<1>7. mutex' \in Users \cup {Null} /\ rounds' \in [Qdiscs -> Nat]
  BY DEF QdevInv, QdevTypeOK
<1> QED BY <1>2, <1>4, <1>5, <1>6, <1>7, QuietMove

\* The next entry of the list is in the list.
LEMMA NextEntryInv ==
  ASSUME QdevAssumptions, QdevInv, NEW t \in Users, NextEntry(t)
  PROVE  QdevInv'
<1>1. /\ user[t].pc \in {"rcu", "check"} /\ UNCHANGED <<qdev, qdevs, mutex, rounds>>
  BY DEF NextEntry
<1>2. PICK d \in Range(qdevs) : user' = [user EXCEPT ![t].dev = d, ![t].seen = @ \cup {d}]
  BY DEF NextEntry
<1>3. d \in Qdevs /\ user[t] \in UserType
  BY SMTT(60) DEF QdevInv, QdevTypeOK, Range
<1>4. PICK k \in UserType : k = [user[t] EXCEPT !.dev = d, !.seen = @ \cup {d}]
  <2>1. [user[t] EXCEPT !.dev = d, !.seen = @ \cup {d}] \in UserType
    BY <1>3 DEF UserType
  <2> QED BY <2>1
<1>5. k.pc = user[t].pc /\ k.dev = d
  BY <1>3, <1>4 DEF UserType
<1>6. user' = [user EXCEPT ![t] = k]
  BY <1>2, <1>4 DEF QdevInv, QdevTypeOK
<1>7. user'[t] = k
  BY <1>6 DEF QdevInv, QdevTypeOK
<1>8. DevOf(t)'
  BY <1>1, <1>3, <1>5, <1>7 DEF DevOf, Leaving, QdevInv, Listed
<1>9. rounds' \in [Qdiscs -> Nat]
  BY <1>1 DEF QdevInv, QdevTypeOK
<1> QED BY <1>1, <1>5, <1>6, <1>8, <1>9, LonelyMove

\* A reader goes on to the next entry.
LEMMA LetGo ==
  ASSUME QdevAssumptions, QdevInv, NEW t \in Users, user[t].pc \in {"rcu", "check"},
         user' = [user EXCEPT ![t].dev = Null], UNCHANGED <<qdev, qdevs, mutex, rounds>>
  PROVE  QdevInv'
<1>1. PICK k \in UserType : k = [user[t] EXCEPT !.dev = Null]
  <2>1. user[t] \in UserType
    BY DEF QdevInv, QdevTypeOK
  <2>2. [user[t] EXCEPT !.dev = Null] \in UserType
    BY <2>1 DEF UserType
  <2> QED BY <2>2
<1>2. k.pc = user[t].pc /\ k.dev = Null
  BY <1>1 DEF QdevInv, QdevTypeOK, UserType
<1>3. user' = [user EXCEPT ![t] = k]
  BY <1>1 DEF QdevInv, QdevTypeOK
<1>4. user'[t] = k
  BY <1>3 DEF QdevInv, QdevTypeOK
<1>5. DevOf(t)'
  BY <1>2, <1>4 DEF DevOf, Leaving
<1>6. rounds' \in [Qdiscs -> Nat]
  BY DEF QdevInv, QdevTypeOK
<1> QED BY <1>2, <1>3, <1>5, <1>6, LonelyMove

\* homa_qdisc_init and homa_qdisc_pacer_check enter an RCU section.
LEMMA EnterRcu ==
  ASSUME QdevAssumptions, QdevInv, NEW t \in Users,
         (t \in Qdiscs /\ homa_qdisc_init(t)) \/ homa_qdisc_pacer_check(t)
  PROVE  QdevInv'
<1>1. /\ user[t].pc = "out" /\ UNCHANGED <<qdev, qdevs, mutex>>
  BY DEF homa_qdisc_init, homa_qdisc_pacer_check
<1>2. rounds' \in [Qdiscs -> Nat]
  BY SMTT(60) DEF homa_qdisc_init, homa_qdisc_pacer_check, QdevInv, QdevTypeOK
<1>3. PICK pc \in {"rcu", "check"} : Go(t, pc, Null)
  BY DEF homa_qdisc_init, homa_qdisc_pacer_check
<1>4. PICK k \in UserType : k = [pc |-> pc, dev |-> Null, seen |-> {}]
  BY DEF UserType
<1>5. user' = [user EXCEPT ![t] = k] /\ k.pc = pc /\ k.dev = Null
  BY <1>3, <1>4 DEF Go
<1>6. user'[t] = k
  BY <1>5 DEF QdevInv, QdevTypeOK
<1>7. DevOf(t)'
  BY <1>5, <1>6 DEF DevOf, Leaving
<1> QED BY <1>1, <1>2, <1>5, <1>7, LonelyMove

\* A thread gets the mutex.
LEMMA LockInv ==
  ASSUME QdevAssumptions, QdevInv, NEW t \in Users, Lock(t)
  PROVE  QdevInv'
<1>1. /\ user[t].pc \in {"lock", "unlink"} /\ mutex = Null /\ mutex' = t
      /\ UNCHANGED <<qdev, qdevs, rounds>>
  BY DEF Lock
<1>2. PICK pc \in {"create", "remove"} : pc = IF user[t].pc = "lock" THEN "create" ELSE "remove"
  OBVIOUS
<1>3. PICK k \in UserType : k = [user[t] EXCEPT !.pc = pc]
  <2>1. user[t] \in UserType
    BY DEF QdevInv, QdevTypeOK
  <2>2. [user[t] EXCEPT !.pc = pc] \in UserType
    BY <2>1 DEF UserType
  <2> QED BY <2>2
<1>4. k.pc = pc /\ k.dev = user[t].dev
  BY <1>3 DEF QdevInv, QdevTypeOK, UserType
<1>5. user' = [user EXCEPT ![t] = k]
  BY <1>2, <1>3 DEF Lock, QdevInv, QdevTypeOK
<1>6. /\ user'[t] = k /\ \A s \in Users : s # t => user'[s] = user[s]
  BY <1>5 DEF QdevInv, QdevTypeOK
<1>7. \A s \in Users : user'[s].pc \in {"create", "remove"} => mutex' = s
  BY <1>1, <1>6 DEF QdevInv, MutexHeld, QdevAssumptions
<1>8. DevOf(t)'
  BY <1>1, <1>2, <1>4, <1>6 DEF DevOf, Leaving, QdevInv, DevsOk
<1>9. /\ qdev' \in [Qdevs -> QdevType] /\ mutex' \in Users \cup {Null}
      /\ rounds' \in [Qdiscs -> Nat]
  BY <1>1 DEF QdevInv, QdevTypeOK
<1>10. k.pc \in {"unlink", "remove"} => Leaving(t) /\ k.dev = user[t].dev
  BY <1>1, <1>2, <1>4 DEF Leaving
<1>11. \A d \in Qdevs : /\ qdev'[d].state = qdev[d].state /\ qdev'[d].refs = qdev[d].refs
                        /\ qdev[d].readers \ {t} \subseteq qdev'[d].readers
  BY <1>1
<1> QED BY <1>1, <1>4, <1>5, <1>7, <1>8, <1>9, <1>10, <1>11, QuietMove

-----------------------------------------------------------------------------
(* Steps that get or drop a reference                                      *)

\* A qdisc gets a reference to a structure that others use.
LEMMA Join ==
  ASSUME QdevAssumptions, QdevInv, NEW t \in Qdiscs, NEW d \in Qdevs,
         user[t].pc \in {"rcu", "create"}, Go(t, "in", d), qdev[d].refs > 0,
         qdev' \in [Qdevs -> QdevType], UNCHANGED <<qdevs, rounds>>,
         \A x \in Qdevs : /\ qdev'[x].state = qdev[x].state
                          /\ qdev'[x].refs = IF x = d THEN qdev[x].refs + 1 ELSE qdev[x].refs
                          /\ qdev[x].readers \ {t} \subseteq qdev'[x].readers,
         mutex' = mutex \/ (mutex = t /\ mutex' = Null)
  PROVE  QdevInv'
<1>1. PICK k \in UserType : k = [pc |-> "in", dev |-> d, seen |-> {}]
  BY DEF UserType
<1>2. user' = [user EXCEPT ![t] = k] /\ k.pc = "in" /\ k.dev = d /\ t \in Users
  BY <1>1 DEF Go, Users
<1>3. /\ user' \in [Users -> UserType] /\ user'[t] = k /\ Qdiscs \subseteq Users
      /\ \A s \in Users : s # t => user'[s] = user[s]
  BY <1>2 DEF QdevInv, QdevTypeOK, Users
<1>4. QdevTypeOK'
  BY <1>3 DEF QdevInv, QdevTypeOK
<1>5. PICK q \in Qdiscs : user[q].pc = "in" /\ user[q].dev = d
  <2>1. Holders(d) # {}
    <3>1. qdev[d].refs = Cardinality(Holders(d))
      BY DEF QdevInv, RefsExact
    <3>2. IsFiniteSet(Holders(d))
      BY <1>2, HoldersMove DEF QdevInv
    <3> QED BY <3>1, <3>2, FS_EmptySet, SMTT(60)
  <2> QED BY <2>1 DEF Holders
<1>6. qdev[d].state = "live"
  BY <1>3, <1>5 DEF QdevInv, DevsOk, DevOf
<1>7. DevsOk'
  <2> SUFFICES ASSUME NEW s \in Users PROVE DevOf(s)'
    BY DEF DevsOk
  <2>1. CASE s = t
    BY <1>2, <1>3, <1>6, <2>1 DEF DevOf, Leaving
  <2>2. CASE s # t
    <3>1. DevOf(s) /\ user'[s] = user[s] /\ user[s].dev \in Qdevs \cup {Null}
      BY <1>3, <2>2 DEF QdevInv, DevsOk, QdevTypeOK, UserType
    <3>2. (user[s].pc = "in" \/ Leaving(s) => user[s].dev \in Qdevs) /\ Null \notin Qdevs
      BY <3>1 DEF DevOf, QdevAssumptions
    <3>3. Leaving(s) => user[s].dev # d
      BY <3>1, SMTT(60) DEF DevOf
    <3>4. s \in qdev[user[s].dev].readers /\ user[s].dev \in Qdevs =>
            s \in qdev'[user[s].dev].readers
      BY <2>2
    <3> QED BY <3>1, <3>2, <3>3, <3>4 DEF DevOf, Leaving
  <2> QED BY <2>1, <2>2
<1>8. Listed'
  BY DEF QdevInv, Listed
<1>9. OneLeaves'
  BY <1>2, <1>3 DEF QdevInv, OneLeaves, Leaving
<1>10. MutexHeld'
  BY <1>2, <1>3 DEF QdevInv, MutexHeld
<1>11. RefsExact'
  <2> SUFFICES ASSUME NEW x \in Qdevs PROVE qdev'[x].refs = Cardinality(Holders(x)')
    BY DEF RefsExact
  <2>1. t \notin Holders(x) /\ qdev[x].refs = Cardinality(Holders(x))
    BY DEF Holders, QdevInv, RefsExact
  <2>2. QdevTypeOK
    BY DEF QdevInv
  <2>3. CASE x = d
    <3>1. Cardinality(Holders(x)') = Cardinality(Holders(x)) + 1
      BY <1>2, <2>1, <2>2, <2>3, HoldersMove
    <3> QED BY <2>1, <2>3, <3>1
  <2>4. CASE x # d
    <3>1. Holders(x)' = Holders(x)
      BY <1>2, <2>1, <2>2, <2>4, HoldersMove
    <3> QED BY <2>1, <2>4, <3>1
  <2> QED BY <2>3, <2>4
<1>12. OneQdev'
  BY <1>2, <1>3, <1>5 DEF QdevInv, OneQdev
<1> QED BY <1>4, <1>7, <1>8, <1>9, <1>10, <1>11, <1>12 DEF QdevInv

\* refcount_inc_not_zero, under RCU.
LEMMA TryGetInv ==
  ASSUME QdevAssumptions, QdevInv, NEW q \in Qdiscs, TryGet(q)
  PROVE  QdevInv'
<1>1. q \in Users /\ user[q].pc = "rcu" /\ UNCHANGED <<qdevs, mutex, rounds>>
  BY DEF TryGet, Users
<1>2. PICK d \in Qdevs : d = user[q].dev
  BY <1>1 DEF TryGet, QdevInv, QdevTypeOK, UserType
<1>3. CASE IncNotZero(d)
  <2>1. qdev' = [LeaveRcu(q) EXCEPT ![d].refs = @ + 1] /\ Go(q, "in", d)
    BY <1>2, <1>3 DEF TryGet
  <2>2. PICK l \in [Qdevs -> QdevType] : l = LeaveRcu(q)
    BY <1>1, LeaveRcuFacts
  <2>3. \A x \in Qdevs : /\ l[x].state = qdev[x].state /\ l[x].refs = qdev[x].refs
                         /\ l[x].readers = qdev[x].readers \ {q}
    BY <1>1, <2>2, LeaveRcuFacts
  <2>4. PICK k \in QdevType : k = [l[d] EXCEPT !.refs = @ + 1]
    <3>1. l[d] \in QdevType
      OBVIOUS
    <3>2. [l[d] EXCEPT !.refs = @ + 1] \in QdevType
      BY <3>1, SMTT(60) DEF QdevType
    <3> QED BY <3>2
  <2>5. k.state = l[d].state /\ k.refs = l[d].refs + 1 /\ k.readers = l[d].readers
    BY <2>4 DEF QdevType
  <2>6. qdev' = [l EXCEPT ![d] = k]
    BY <2>1, <2>2, <2>4
  <2>7. /\ qdev' \in [Qdevs -> QdevType] /\ qdev'[d] = k
        /\ \A x \in Qdevs : x # d => qdev'[x] = l[x]
    BY <2>6
  <2>8. \A x \in Qdevs : /\ qdev'[x].state = qdev[x].state
                         /\ qdev'[x].refs = IF x = d THEN qdev[x].refs + 1 ELSE qdev[x].refs
                         /\ qdev[x].readers \ {q} \subseteq qdev'[x].readers
    BY <2>3, <2>5, <2>7
  <2>9. qdev[d].refs > 0
    BY <1>3 DEF IncNotZero
  <2>10. /\ user[q].pc \in {"rcu", "create"} /\ UNCHANGED <<qdevs, rounds>>
         /\ mutex' = mutex \/ (mutex = q /\ mutex' = Null)
    BY <1>1
  <2> QED BY ONLY QdevAssumptions, QdevInv, q \in Qdiscs, d \in Qdevs, <2>1, <2>7, <2>8, <2>9, <2>10,
                  Join, SMTT(60)
<1>4. CASE ~IncNotZero(d)
  BY <1>1, <1>2, <1>4, LetGo DEF TryGet
<1> QED BY <1>3, <1>4

\* A structure d becomes k, and the others stay.
LEMMA SetQdev ==
  ASSUME QdevInv, NEW d \in Qdevs, NEW k \in QdevType, qdev' = [qdev EXCEPT ![d] = k]
  PROVE  /\ qdev' \in [Qdevs -> QdevType] /\ qdev'[d] = k
         /\ \A x \in Qdevs : x # d => qdev'[x] = qdev[x]
BY DEF QdevInv, QdevTypeOK

\* A new structure: no other one has references, as the list was scanned again
\* with the mutex.
LEMMA CreateNew ==
  ASSUME QdevAssumptions, QdevInv, NEW q \in Qdiscs, NEW d \in Qdevs,
         user[q].pc = "create", mutex = q, mutex' = Null, Recheck = {},
         qdev[d].state = "free",
         qdev' = [qdev EXCEPT ![d] = [Free EXCEPT !.state = "live", !.refs = 1]],
         qdevs' = list_insert(qdevs, 1, d), Go(q, "in", d), UNCHANGED rounds
  PROVE  QdevInv'
<1>1. PICK k \in UserType : k = [pc |-> "in", dev |-> d, seen |-> {}]
  BY DEF UserType
<1>2. user' = [user EXCEPT ![q] = k] /\ k.pc = "in" /\ k.dev = d /\ q \in Users
  BY <1>1 DEF Go, Users
<1>3. /\ user' \in [Users -> UserType] /\ user'[q] = k /\ Qdiscs \subseteq Users
      /\ \A s \in Users : s # q => user'[s] = user[s]
  BY <1>2 DEF QdevInv, QdevTypeOK, Users
<1>4. PICK n \in QdevType : n = [Free EXCEPT !.state = "live", !.refs = 1]
  BY DEF Free, QdevType
<1>5. n.state = "live" /\ n.refs = 1
  BY <1>4 DEF Free
<1>6. /\ qdev' \in [Qdevs -> QdevType] /\ qdev'[d] = n
      /\ \A x \in Qdevs : x # d => qdev'[x] = qdev[x]
  BY <1>4, SetQdev
<1>7. qdevs \in Seq(Qdevs) /\ NoRepeats(qdevs) /\ d \notin Range(qdevs)
  BY DEF QdevInv, QdevTypeOK, Listed
<1>8. qdevs' \in Seq(Qdevs) /\ Range(qdevs') = Range(qdevs) \cup {d} /\ NoRepeats(qdevs')
  <2>1. 1 \in 1 .. Len(qdevs) + 1
    BY <1>7, SMTT(60)
  <2> QED BY <1>7, <2>1, InsertSet, SMTT(60)
<1>9. \A x \in Qdevs : Holders(x) = {}
  <2> SUFFICES ASSUME NEW x \in Qdevs, NEW s \in Qdiscs, user[s].pc = "in", user[s].dev = x
               PROVE  FALSE
    BY DEF Holders
  <2>1. qdev[x].state = "live" /\ x \in Range(qdevs)
    BY <1>3 DEF QdevInv, DevsOk, DevOf, Listed
  <2>2. ~(qdev[x].refs > 0)
    BY <2>1 DEF Recheck, IncNotZero
  <2>3. qdev[x].refs = 0
    <3>1. qdev[x].refs \in Nat
      BY DEF QdevInv, QdevTypeOK, QdevType
    <3> QED BY <2>2, <3>1, SMTT(60)
  <2>4. Cardinality(Holders(x)) = 0 /\ IsFiniteSet(Holders(x))
    <3>1. Holders(x) \subseteq Qdiscs
      BY DEF Holders
    <3> QED BY <2>3, <3>1, FS_Subset DEF QdevInv, RefsExact, QdevAssumptions
  <2>5. Holders(x) = {}
    BY <2>4, FS_EmptySet
  <2> QED BY <2>5 DEF Holders
<1>10. QdevTypeOK'
  BY <1>3, <1>6, <1>8 DEF QdevInv, QdevTypeOK
<1>11. \A s \in Users : user[s].dev = d => FALSE
  <2> SUFFICES ASSUME NEW s \in Users, user[s].dev = d PROVE FALSE
    OBVIOUS
  <2>1. DevOf(s) /\ d # Null /\ user[s].pc \in {"out", "rcu", "lock", "create", "in", "unlink", "remove", "check"}
    BY DEF QdevInv, DevsOk, QdevAssumptions, QdevTypeOK, UserType
  <2> QED BY <2>1 DEF DevOf, Leaving
<1>12. DevsOk'
  <2> SUFFICES ASSUME NEW s \in Users PROVE DevOf(s)'
    BY DEF DevsOk
  <2>1. CASE s = q
    BY <1>2, <1>3, <1>5, <1>6, <2>1 DEF DevOf, Leaving
  <2>2. CASE s # q
    <3>1. DevOf(s) /\ user'[s] = user[s] /\ user[s].dev \in Qdevs \cup {Null} /\ user[s].dev # d
      BY <1>3, <1>11, <2>2 DEF QdevInv, DevsOk, QdevTypeOK, UserType
    <3>2. user[s].pc = "in" \/ Leaving(s) => user[s].dev \in Qdevs
      BY <3>1 DEF DevOf
    <3> QED BY <1>6, <3>1, <3>2 DEF DevOf, Leaving
  <2> QED BY <2>1, <2>2
<1>13. Listed'
  BY <1>5, <1>6, <1>8 DEF QdevInv, Listed
<1>14. OneLeaves'
  BY <1>2, <1>3 DEF QdevInv, OneLeaves, Leaving
<1>15. MutexHeld'
  BY <1>2, <1>3 DEF QdevInv, MutexHeld
<1>16. RefsExact'
  <2> SUFFICES ASSUME NEW x \in Qdevs PROVE qdev'[x].refs = Cardinality(Holders(x)')
    BY DEF RefsExact
  <2>1. qdev[x].refs = Cardinality(Holders(x)) /\ Cardinality(Holders(x)) = 0
    BY <1>9, FS_EmptySet DEF QdevInv, RefsExact
  <2>2. QdevTypeOK /\ q \notin Holders(x)
    BY <1>9 DEF QdevInv
  <2>3. CASE x = d
    <3>1. Cardinality(Holders(x)') = Cardinality(Holders(x)) + 1
      BY <1>2, <2>2, <2>3, HoldersMove
    <3> QED BY <1>5, <1>6, <2>1, <2>3, <3>1, SMTT(60)
  <2>4. CASE x # d
    <3>1. Holders(x)' = Holders(x)
      BY <1>2, <2>2, <2>4, HoldersMove
    <3> QED BY <1>6, <2>1, <2>4, <3>1
  <2> QED BY <2>3, <2>4
<1>17. OneQdev'
  <2>1. \A s \in Qdiscs : s # q => user'[s].pc # "in"
    <3> SUFFICES ASSUME NEW s \in Qdiscs, s # q, user[s].pc = "in" PROVE FALSE
      BY <1>3
    <3>1. user[s].dev \in Qdevs
      BY <1>3 DEF QdevInv, DevsOk, DevOf
    <3> QED BY <1>9, <3>1 DEF Holders
  <2> QED BY <2>1 DEF OneQdev
<1> QED BY <1>10, <1>12, <1>13, <1>14, <1>15, <1>16, <1>17 DEF QdevInv

\* With the mutex: an existing structure is used, or one is created, or that
\* fails.
LEMMA CreateInv ==
  ASSUME QdevAssumptions, QdevInv, NEW q \in Qdiscs, Create(q)
  PROVE  QdevInv'
<1>1. q \in Users /\ user[q].pc = "create" /\ mutex = q /\ mutex' = Null /\ UNCHANGED rounds
  BY DEF Create, Users
<1>2. CASE Recheck # {}
  <2>1. PICK d \in Recheck : /\ qdev' = [qdev EXCEPT ![d].refs = @ + 1]
                             /\ Go(q, "in", d) /\ UNCHANGED qdevs
    BY <1>2 DEF Create
  <2>2. d \in Qdevs /\ qdev[d].refs > 0
    BY SMTT(60) DEF Recheck, IncNotZero, Range, QdevInv, QdevTypeOK
  <2>3. PICK k \in QdevType : k = [qdev[d] EXCEPT !.refs = @ + 1]
    <3>1. qdev[d] \in QdevType
      BY <2>2 DEF QdevInv, QdevTypeOK
    <3>2. [qdev[d] EXCEPT !.refs = @ + 1] \in QdevType
      BY <3>1, SMTT(60) DEF QdevType
    <3> QED BY <3>2
  <2>4. k.state = qdev[d].state /\ k.refs = qdev[d].refs + 1 /\ k.readers = qdev[d].readers
    BY <2>2, <2>3 DEF QdevInv, QdevTypeOK, QdevType
  <2>5. /\ qdev' \in [Qdevs -> QdevType] /\ qdev'[d] = k
        /\ \A x \in Qdevs : x # d => qdev'[x] = qdev[x]
    <3>1. qdev' = [qdev EXCEPT ![d] = k]
      BY <2>1, <2>3
    <3> QED BY <2>2, <3>1, SetQdev
  <2>6. \A x \in Qdevs : /\ qdev'[x].state = qdev[x].state
                         /\ qdev'[x].refs = IF x = d THEN qdev[x].refs + 1 ELSE qdev[x].refs
                         /\ qdev[x].readers \ {q} \subseteq qdev'[x].readers
    BY <2>4, <2>5
  <2>7. /\ user[q].pc \in {"rcu", "create"} /\ UNCHANGED <<qdevs, rounds>>
        /\ mutex' = mutex \/ (mutex = q /\ mutex' = Null)
    BY <1>1, <2>1
  <2> QED BY ONLY QdevAssumptions, QdevInv, q \in Qdiscs, <2>1, <2>2, <2>5, <2>6, <2>7,
                  Join, SMTT(60)
<1>3. CASE Recheck = {} /\ Go(q, "out", Null) /\ UNCHANGED <<qdev, qdevs>>
  BY <1>1, <1>3, GoOut
<1>4. CASE Recheck = {} /\ \E d \in Qdevs :
              /\ qdev[d].state = "free"
              /\ qdev' = [qdev EXCEPT ![d] = [Free EXCEPT !.state = "live", !.refs = 1]]
              /\ qdevs' = list_insert(qdevs, 1, d) /\ Go(q, "in", d)
  BY <1>1, <1>4, CreateNew
<1> QED BY <1>2, <1>3, <1>4 DEF Create

\* A qdisc drops its reference; if it was the last, the qdisc is alone in
\* unlinking the structure.
LEMMA DestroyInv ==
  ASSUME QdevAssumptions, QdevInv, NEW q \in Qdiscs, homa_qdisc_destroy(q)
  PROVE  QdevInv'
<1>1. q \in Users /\ user[q].pc = "in" /\ UNCHANGED <<qdevs, mutex, rounds>> /\ Qdiscs \subseteq Users
  BY DEF homa_qdisc_destroy, Users
<1>2. PICK d \in Qdevs : d = user[q].dev
  BY <1>1 DEF QdevInv, DevsOk, DevOf
<1>3. qdev[d].state = "live" /\ qdev[d] \in QdevType /\ q \in Holders(d)
  BY <1>1, <1>2 DEF QdevInv, DevsOk, DevOf, QdevTypeOK, Holders
<1>4. qdev[d].refs \in Nat \ {0}
  <2>1. qdev[d].refs = Cardinality(Holders(d)) /\ IsFiniteSet(Holders(d))
    <3>1. Holders(d) \subseteq Qdiscs
      BY DEF Holders
    <3> QED BY <3>1, FS_Subset DEF QdevInv, RefsExact, QdevAssumptions
  <2> QED BY <1>3, <2>1, FS_EmptySet, FS_CardinalityType
<1>5. PICK n \in QdevType : n = [qdev[d] EXCEPT !.refs = @ - 1]
  <2>1. [qdev[d] EXCEPT !.refs = @ - 1] \in QdevType
    BY <1>3, <1>4, SMTT(60) DEF QdevType
  <2> QED BY <2>1
<1>6. n.state = "live" /\ n.refs = qdev[d].refs - 1 /\ n.readers = qdev[d].readers
  BY <1>3, <1>5 DEF QdevType
<1>7. /\ qdev' \in [Qdevs -> QdevType] /\ qdev'[d] = n
      /\ \A x \in Qdevs : x # d => qdev'[x] = qdev[x]
  <2>1. qdev' = [qdev EXCEPT ![d] = n]
    BY <1>2, <1>5 DEF homa_qdisc_destroy
  <2> QED BY <2>1, SetQdev
<1>8. PICK k \in UserType : /\ user' = [user EXCEPT ![q] = k]
                            /\ qdev[d].refs = 1 => k.pc = "unlink" /\ k.dev = d
                            /\ qdev[d].refs # 1 => k.pc = "out" /\ k.dev = Null
  <2>1. CASE qdev[d].refs = 1
    <3>1. PICK k \in UserType : k = [pc |-> "unlink", dev |-> d, seen |-> {}]
      BY DEF UserType
    <3>2. user' = [user EXCEPT ![q] = k] /\ k.pc = "unlink" /\ k.dev = d
      BY <1>2, <2>1, <3>1 DEF homa_qdisc_destroy, Go
    <3> QED BY <2>1, <3>2
  <2>2. CASE qdev[d].refs # 1
    <3>1. PICK k \in UserType : k = [pc |-> "out", dev |-> Null, seen |-> {}]
      BY DEF UserType
    <3>2. user' = [user EXCEPT ![q] = k] /\ k.pc = "out" /\ k.dev = Null
      BY <1>2, <2>2, <3>1 DEF homa_qdisc_destroy, Go
    <3> QED BY <2>2, <3>2
  <2> QED BY <2>1, <2>2
<1>9. /\ user' \in [Users -> UserType] /\ user'[q] = k
      /\ \A s \in Users : s # q => user'[s] = user[s]
  BY <1>1, <1>8 DEF QdevInv, QdevTypeOK
<1>10. k.pc \in {"unlink", "out"}
  BY <1>8
<1>11. QdevTypeOK'
  BY <1>1, <1>7, <1>9 DEF QdevInv, QdevTypeOK
<1>12. \A s \in Users : Leaving(s) => user[s].dev # d
  BY <1>4 DEF QdevInv, DevsOk, DevOf
<1>13. DevsOk'
  <2> SUFFICES ASSUME NEW s \in Users PROVE DevOf(s)'
    BY DEF DevsOk
  <2>1. CASE s = q
    BY <1>4, <1>6, <1>7, <1>8, <1>9, <2>1, SMTT(60) DEF DevOf, Leaving
  <2>2. CASE s # q
    <3>1. DevOf(s) /\ user'[s] = user[s] /\ user[s].dev \in Qdevs \cup {Null}
      BY <1>9, <2>2 DEF QdevInv, DevsOk, QdevTypeOK, UserType
    <3>2. user[s].pc = "in" \/ Leaving(s) => user[s].dev \in Qdevs
      BY <3>1 DEF DevOf
    <3>3. \A x \in Qdevs : qdev'[x].state = qdev[x].state /\ qdev'[x].readers = qdev[x].readers
      BY <1>3, <1>6, <1>7
    <3>4. Leaving(s) => qdev'[user[s].dev].refs = qdev[user[s].dev].refs
      BY <1>7, <1>12, <3>2
    <3> QED BY <3>1, <3>2, <3>3, <3>4 DEF DevOf, Leaving
  <2> QED BY <2>1, <2>2
<1>14. Listed'
  BY <1>1, <1>3, <1>6, <1>7 DEF QdevInv, Listed
<1>15. OneLeaves'
  <2>1. \A s \in Users : s # q /\ Leaving(s)' => Leaving(s) /\ user'[s].dev = user[s].dev
    BY <1>9 DEF Leaving
  <2>2. Leaving(q)' => user'[q].dev = d
    BY <1>8, <1>9 DEF Leaving
  <2> QED BY <1>12, <2>1, <2>2 DEF QdevInv, OneLeaves
<1>16. MutexHeld'
  BY <1>1, <1>9, <1>10 DEF QdevInv, MutexHeld
<1>17. RefsExact'
  <2> SUFFICES ASSUME NEW x \in Qdevs PROVE qdev'[x].refs = Cardinality(Holders(x)')
    BY DEF RefsExact
  <2>1. QdevTypeOK /\ qdev[x].refs = Cardinality(Holders(x))
    BY DEF QdevInv, RefsExact
  <2>2. CASE x = d
    <3>1. Cardinality(Holders(x)') = Cardinality(Holders(x)) - 1
      BY <1>1, <1>3, <1>8, <1>10, <2>1, <2>2, HoldersMove
    <3> QED BY <1>6, <1>7, <2>1, <2>2, <3>1
  <2>3. CASE x # d
    <3>1. q \notin Holders(x)
      BY <1>2, <2>3 DEF Holders
    <3>2. Holders(x)' = Holders(x)
      BY <1>1, <1>8, <1>10, <2>1, <3>1, HoldersMove
    <3> QED BY <1>7, <2>1, <2>3, <3>2
  <2> QED BY <2>2, <2>3
<1>18. OneQdev'
  BY <1>1, <1>9, <1>10 DEF QdevInv, OneQdev
<1> QED BY <1>11, <1>13, <1>14, <1>15, <1>16, <1>17, <1>18 DEF QdevInv

\* The structure leaves the list; the readers that may have it are waited for.
LEMMA UnlinkInv ==
  ASSUME QdevAssumptions, QdevInv, NEW q \in Qdiscs, Unlink(q)
  PROVE  QdevInv'
<1>1. /\ q \in Users /\ user[q].pc = "remove" /\ mutex = q /\ mutex' = Null /\ UNCHANGED rounds
      /\ Qdiscs \subseteq Users
  BY DEF Unlink, Users
<1>2. PICK d \in Qdevs : d = user[q].dev
  BY <1>1 DEF QdevInv, DevsOk, DevOf, Leaving
<1>3. qdev[d].state = "live" /\ qdev[d] \in QdevType /\ qdev[d].refs = 0 /\ Leaving(q)
  BY <1>1, <1>2 DEF QdevInv, DevsOk, DevOf, Leaving, QdevTypeOK
<1>4. Grace \subseteq Users
  BY DEF Grace
<1>5. PICK n \in QdevType : n = [qdev[d] EXCEPT !.state = "dying", !.readers = Grace]
  <2>1. [qdev[d] EXCEPT !.state = "dying", !.readers = Grace] \in QdevType
    BY <1>3, <1>4 DEF QdevType
  <2> QED BY <2>1
<1>6. n.state = "dying" /\ n.refs = qdev[d].refs /\ n.readers = Grace
  BY <1>3, <1>5 DEF QdevType
<1>7. /\ qdev' \in [Qdevs -> QdevType] /\ qdev'[d] = n
      /\ \A x \in Qdevs : x # d => qdev'[x] = qdev[x]
  <2>1. qdev' = [qdev EXCEPT ![d] = n]
    BY <1>2, <1>5 DEF Unlink, QdevInv, QdevTypeOK
  <2> QED BY <2>1, SetQdev
<1>8. PICK k \in UserType : k = [pc |-> "out", dev |-> Null, seen |-> {}]
  BY DEF UserType
<1>9. user' = [user EXCEPT ![q] = k] /\ k.pc = "out" /\ k.dev = Null
  BY <1>8 DEF Unlink, Go
<1>10. /\ user' \in [Users -> UserType] /\ user'[q] = k
       /\ \A s \in Users : s # q => user'[s] = user[s]
  BY <1>1, <1>9 DEF QdevInv, QdevTypeOK
<1>11. qdevs' \in Seq(Qdevs) /\ Range(qdevs') = Range(qdevs) \ {d} /\ NoRepeats(qdevs')
  <2>1. qdevs \in Seq(Qdevs) /\ NoRepeats(qdevs) /\ qdevs' = list_del(qdevs, d)
    BY <1>2 DEF Unlink, QdevInv, QdevTypeOK, Listed
  <2> QED BY <2>1, RemoveFirstSet
<1>12. QdevTypeOK'
  BY <1>1, <1>7, <1>10, <1>11 DEF QdevInv, QdevTypeOK
<1>13. \A s \in Users : s # q /\ (Leaving(s) \/ user[s].pc = "in") => user[s].dev # d
  <2> SUFFICES ASSUME NEW s \in Users, s # q, Leaving(s) \/ user[s].pc = "in", user[s].dev = d
               PROVE  FALSE
    OBVIOUS
  <2>1. CASE Leaving(s)
    BY <1>1, <1>2, <1>3, <2>1 DEF QdevInv, OneLeaves
  <2>2. CASE user[s].pc = "in" /\ s \in Qdiscs
    <3>1. s \in Holders(d) /\ Holders(d) \subseteq Qdiscs
      BY <2>2 DEF Holders
    <3>2. IsFiniteSet(Holders(d)) /\ Cardinality(Holders(d)) = 0
      BY <1>3, <3>1, FS_Subset DEF QdevInv, RefsExact, QdevAssumptions
    <3> QED BY <3>1, <3>2, FS_EmptySet
  <2>3. CASE user[s].pc = "in" /\ s \notin Qdiscs
    BY <2>3 DEF QdevInv, DevsOk, DevOf
  <2> QED BY <2>1, <2>2, <2>3
<1>14. DevsOk'
  <2> SUFFICES ASSUME NEW s \in Users PROVE DevOf(s)'
    BY DEF DevsOk
  <2>1. CASE s = q
    BY <1>9, <1>10, <2>1 DEF DevOf, Leaving
  <2>2. CASE s # q
    <3>1. DevOf(s) /\ user'[s] = user[s] /\ user[s].dev \in Qdevs \cup {Null}
      BY <1>10, <2>2 DEF QdevInv, DevsOk, QdevTypeOK, UserType
    <3>2. user[s].pc = "in" \/ Leaving(s) => user[s].dev \in Qdevs
      BY <3>1 DEF DevOf
    <3>3. CASE user[s].dev = d
      <4>1. user[s].pc \in {"rcu", "check"} => s \in n.readers
        BY <1>6 DEF Grace
      <4> QED BY <1>6, <1>7, <1>13, <2>2, <3>1, <3>3, <4>1 DEF DevOf, Leaving
    <3>4. CASE user[s].dev # d
      BY <1>7, <3>1, <3>2, <3>4 DEF DevOf, Leaving
    <3> QED BY <3>3, <3>4
  <2> QED BY <2>1, <2>2
<1>15. Listed'
  BY <1>6, <1>7, <1>11 DEF QdevInv, Listed
<1>16. OneLeaves'
  BY <1>9, <1>10 DEF QdevInv, OneLeaves, Leaving
<1>17. MutexHeld'
  BY <1>1, <1>9, <1>10 DEF QdevInv, MutexHeld
<1>18. RefsExact'
  <2> SUFFICES ASSUME NEW x \in Qdevs PROVE qdev'[x].refs = Cardinality(Holders(x)')
    BY DEF RefsExact
  <2>1. Holders(x)' = Holders(x)
    BY <1>1, <1>9, <1>10 DEF Holders
  <2> QED BY <1>6, <1>7, <2>1 DEF QdevInv, RefsExact
<1>19. OneQdev'
  BY <1>1, <1>9, <1>10 DEF QdevInv, OneQdev
<1> QED BY <1>12, <1>14, <1>15, <1>16, <1>17, <1>18, <1>19 DEF QdevInv

\* The structure is freed after a grace period: nobody has it any more.
LEMMA CallbackInv ==
  ASSUME QdevAssumptions, QdevInv, NEW d \in Qdevs, homa_qdisc_dev_callback(d)
  PROVE  QdevInv'
<1>1. /\ qdev[d].state = "dying" /\ qdev[d].readers = {} /\ qdev' = [qdev EXCEPT ![d] = Free]
      /\ UNCHANGED <<qdevs, mutex, user, rounds>>
  BY DEF homa_qdisc_dev_callback
<1>2. PICK n \in QdevType : n = Free /\ n.state = "free" /\ n.refs = 0
  <2>1. Free \in QdevType /\ Free.state = "free" /\ Free.refs = 0
    BY DEF Free, QdevType
  <2> HIDE DEF Free
  <2> QED BY <2>1
<1>3. /\ qdev' \in [Qdevs -> QdevType] /\ qdev'[d] = n
      /\ \A x \in Qdevs : x # d => qdev'[x] = qdev[x]
  BY <1>1, <1>2, SetQdev
<1>4. QdevTypeOK'
  BY <1>1, <1>3 DEF QdevInv, QdevTypeOK
<1>5. ASSUME NEW s \in Users  PROVE  user[s].dev # d
  <2>1. DevOf(s) /\ d # Null /\ user[s].pc \in {"out", "rcu", "lock", "create", "in", "unlink", "remove", "check"}
    BY DEF QdevInv, DevsOk, QdevAssumptions, QdevTypeOK, UserType
  <2> QED BY <1>1, <2>1 DEF DevOf, Leaving
<1>6. DevsOk'
  <2> SUFFICES ASSUME NEW s \in Users PROVE DevOf(s)'
    BY DEF DevsOk
  <2>1. DevOf(s) /\ user'[s] = user[s] /\ user[s].dev \in Qdevs \cup {Null} /\ user[s].dev # d
    BY <1>1, <1>5 DEF QdevInv, DevsOk, QdevTypeOK, UserType
  <2>2. user[s].pc = "in" \/ Leaving(s) => user[s].dev \in Qdevs
    BY <2>1 DEF DevOf
  <2> QED BY <1>3, <2>1, <2>2 DEF DevOf, Leaving
<1>7. Listed'
  BY <1>1, <1>2, <1>3 DEF QdevInv, Listed
<1>8. OneLeaves' /\ MutexHeld' /\ OneQdev'
  BY <1>1 DEF QdevInv, OneLeaves, Leaving, MutexHeld, OneQdev
<1>9. RefsExact'
  <2> SUFFICES ASSUME NEW x \in Qdevs PROVE qdev'[x].refs = Cardinality(Holders(x)')
    BY DEF RefsExact
  <2>1. Holders(x)' = Holders(x) /\ qdev[x].refs = Cardinality(Holders(x))
    BY <1>1 DEF Holders, QdevInv, RefsExact
  <2>2. CASE x = d
    <3>1. Holders(x) = {}
      <4>1. Qdiscs \subseteq Users
        BY DEF Users
      <4> QED BY <1>5, <2>2, <4>1 DEF Holders
    <3> QED BY <1>2, <1>3, <2>1, <2>2, <3>1, FS_EmptySet
  <2>3. CASE x # d
    BY <1>3, <2>1, <2>3
  <2> QED BY <2>2, <2>3
<1> QED BY <1>4, <1>6, <1>7, <1>8, <1>9 DEF QdevInv

\* The scan of homa_qdisc_qdev_get ends, or homa_qdisc_pacer_check goes on.
LEMMA ScanInv ==
  ASSUME QdevAssumptions, QdevInv, NEW t \in Users, EndScan(t) \/ Help(t)
  PROVE  QdevInv'
<1>1. user[t].pc \in {"rcu", "check"} /\ UNCHANGED <<qdevs, mutex, rounds>>
  BY DEF EndScan, Help
<1>2. CASE user' = [user EXCEPT ![t].dev = Null] /\ UNCHANGED qdev
  BY <1>1, <1>2, LetGo
<1>3. CASE \E pc \in {"out", "lock"} : Go(t, pc, Null) /\ qdev' = LeaveRcu(t)
  BY <1>1, <1>3, GoOut
<1> QED BY <1>2, <1>3 DEF EndScan, Help

-----------------------------------------------------------------------------

\* Every step keeps the inductive invariant.
LEMMA StepQdev == ASSUME QdevAssumptions, QdevInv, [QdevNext]_qdevVars PROVE QdevInv'
<1>1. CASE UNCHANGED qdevVars
  <2>1. QdevTypeOK' /\ DevsOk' /\ Listed'
    BY <1>1 DEF qdevVars, QdevInv, QdevTypeOK, DevsOk, DevOf, Leaving, Listed
  <2>2. OneLeaves' /\ MutexHeld' /\ RefsExact' /\ OneQdev'
    BY <1>1 DEF qdevVars, QdevInv, OneLeaves, Leaving, MutexHeld, RefsExact, Holders, OneQdev
  <2> QED BY <2>1, <2>2 DEF QdevInv
<1>2. ASSUME NEW t \in Users, UserStep(t)  PROVE  QdevInv'
  BY <1>2, NextEntryInv, ScanInv, TryGetInv, LockInv, CreateInv, UnlinkInv DEF UserStep
<1>3. ASSUME NEW q \in Qdiscs, homa_qdisc_init(q) \/ homa_qdisc_destroy(q)  PROVE  QdevInv'
  BY <1>3, EnterRcu, DestroyInv DEF Users
<1>4. ASSUME NEW t \in Scanners, homa_qdisc_pacer_check(t)  PROVE  QdevInv'
  BY <1>4, EnterRcu DEF Users
<1> QED BY <1>1, <1>2, <1>3, <1>4, CallbackInv DEF QdevNext

\* QdevConsistent holds for any number of qdiscs, structures and readers: a
\* homa_qdisc_dev has one reference for each of its qdiscs, no thread uses one
\* that has been freed, and two qdiscs of a device never use different ones,
\* although homa_qdisc_qdev_put drops the last reference without the mutex.
THEOREM QdevLife == ASSUME QdevAssumptions PROVE QdevSpec => []QdevConsistent
<1>1. QdevInit => QdevInv
  BY InitQdev
<1>2. QdevInv /\ [QdevNext]_qdevVars => QdevInv'
  BY StepQdev
<1>3. QdevInv => QdevConsistent
  BY QdevInvEnough
<1> QED BY <1>1, <1>2, <1>3, PTL DEF QdevSpec
=============================================================================
