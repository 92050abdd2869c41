------------------------------ MODULE HomaQdev ------------------------------
(***************************************************************************)
(* The life of a homa_qdisc_dev (homa_qdisc.c), the structure that all     *)
(* qdiscs of a network device share: homa_qdisc_qdev_get looks for it      *)
(* under RCU, then again with a mutex before it creates one, while         *)
(* homa_qdisc_qdev_put drops the last reference without the mutex.         *)
(* homa_qdisc_pacer_check also scans the list under RCU.                   *)
(***************************************************************************)
EXTENDS Integers, Sequences, FiniteSets, Lists

CONSTANTS
    Qdevs,          \* addresses of structures that can be allocated: 1, 2, ...
    Qdiscs,         \* qdiscs of the device that come and go, one thread each
    Scanners        \* threads in homa_qdisc_pacer_check

VARIABLES
    qdev,           \* qdev[d]: state, refs, and RCU readers its free waits for
    qdevs,          \* qshared->qdevs
    mutex,          \* qshared->mutex: its holder, or Null
    user,           \* user[t]: where t is, its structure, what it has scanned
    rounds          \* rounds[q]: times that q is still created (a bound)

qdevVars == <<qdev, qdevs, mutex, user, rounds>>

Null == 0
Users == Qdiscs \cup Scanners

QdevAssumptions ==
    /\ Null \notin Qdevs /\ Null \notin Users
    /\ IsFiniteSet(Qdiscs) /\ Qdiscs \cap Scanners = {}

Free == [state |-> "free", refs |-> 0, readers |-> {}]

QdevInit ==
    /\ qdev = [d \in Qdevs |-> Free]
    /\ qdevs = <<>>
    /\ mutex = Null
    /\ user = [t \in Users |-> [pc |-> "out", dev |-> Null, seen |-> {}]]
    /\ rounds = [q \in Qdiscs |-> 2]

Go(t, pc, d) == user' = [user EXCEPT ![t] = [pc |-> pc, dev |-> d, seen |-> {}]]

\* rcu_read_unlock.
LeaveRcu(t) == [d \in Qdevs |-> [qdev[d] EXCEPT !.readers = @ \ {t}]]

-----------------------------------------------------------------------------
(* homa_qdisc_qdev_get, called by homa_qdisc_init                          *)

homa_qdisc_init(q) ==
    /\ user[q].pc = "out" /\ rounds[q] > 0
    /\ rounds' = [rounds EXCEPT ![q] = @ - 1]
    /\ Go(q, "rcu", Null)
    /\ UNCHANGED <<qdev, qdevs, mutex>>

\* The next structure of the list is looked at; it may have left the list
\* since then.
NextEntry(t) ==
    /\ user[t].pc \in {"rcu", "check"} /\ user[t].dev = Null
    /\ \E d \in Range(qdevs) \ user[t].seen :
         user' = [user EXCEPT ![t].dev = d, ![t].seen = @ \cup {d}]
    /\ UNCHANGED <<qdev, qdevs, mutex, rounds>>

\* refcount_inc_not_zero.
IncNotZero(d) == qdev[d].refs > 0

TryGet(q) ==
    LET d == user[q].dev
    IN  /\ user[q].pc = "rcu" /\ d # Null
        /\ IF IncNotZero(d)
           THEN /\ qdev' = [LeaveRcu(q) EXCEPT ![d].refs = @ + 1]
                /\ Go(q, "in", d)
           ELSE /\ user' = [user EXCEPT ![q].dev = Null]
                /\ UNCHANGED qdev
        /\ UNCHANGED <<qdevs, mutex, rounds>>

EndScan(q) ==
    /\ user[q].pc = "rcu" /\ user[q].dev = Null /\ Range(qdevs) \subseteq user[q].seen
    /\ qdev' = LeaveRcu(q)
    /\ Go(q, "lock", Null)
    /\ UNCHANGED <<qdevs, mutex, rounds>>

Lock(t) ==
    /\ user[t].pc \in {"lock", "unlink"} /\ mutex = Null
    /\ mutex' = t
    /\ user' = [user EXCEPT ![t].pc = IF @ = "lock" THEN "create" ELSE "remove"]
    /\ UNCHANGED <<qdev, qdevs, rounds>>

\* Mutant: the list is not scanned again with the mutex.
RecheckNone == {}

\* Structures that another thread has created meanwhile.
Recheck == {d \in Range(qdevs) : IncNotZero(d)}

\* With the mutex: use an existing structure, or allocate one and start its
\* pacer thread, which may fail.
Create(q) ==
    /\ user[q].pc = "create" /\ mutex = q
    /\ mutex' = Null
    /\ IF Recheck # {}
       THEN \E d \in Recheck : /\ qdev' = [qdev EXCEPT ![d].refs = @ + 1]
                               /\ Go(q, "in", d)
                               /\ UNCHANGED qdevs
       ELSE \/ /\ Go(q, "out", Null)
               /\ UNCHANGED <<qdev, qdevs>>
            \/ \E d \in Qdevs : /\ qdev[d].state = "free"
                                /\ qdev' = [qdev EXCEPT ![d] = [Free EXCEPT
                                              !.state = "live", !.refs = 1]]
                                /\ qdevs' = list_insert(qdevs, 1, d)
                                /\ Go(q, "in", d)
    /\ UNCHANGED rounds

-----------------------------------------------------------------------------
(* homa_qdisc_qdev_put, called by homa_qdisc_destroy                       *)

homa_qdisc_destroy(q) ==
    LET d == user[q].dev
    IN  /\ user[q].pc = "in"
        /\ qdev' = [qdev EXCEPT ![d].refs = @ - 1]
        /\ IF qdev[d].refs = 1 THEN Go(q, "unlink", d) ELSE Go(q, "out", Null)
        /\ UNCHANGED <<qdevs, mutex, rounds>>

\* The readers that call_rcu waits for.
Grace == {t \in Users : user[t].pc \in {"rcu", "check"}}

\* list_del_rcu, kthread_stop, call_rcu.
Unlink(q) ==
    LET d == user[q].dev
    IN  /\ user[q].pc = "remove" /\ mutex = q
        /\ mutex' = Null
        /\ qdevs' = list_del(qdevs, d)
        /\ qdev' = [qdev EXCEPT ![d].state = "dying", ![d].readers = Grace]
        /\ Go(q, "out", Null)
        /\ UNCHANGED rounds

homa_qdisc_dev_callback(d) ==
    /\ qdev[d].state = "dying" /\ qdev[d].readers = {}
    /\ qdev' = [qdev EXCEPT ![d] = Free]
    /\ UNCHANGED <<qdevs, mutex, user, rounds>>

-----------------------------------------------------------------------------
(* homa_qdisc_pacer_check                                                  *)

homa_qdisc_pacer_check(t) ==
    /\ user[t].pc = "out" /\ t \in Scanners
    /\ Go(t, "check", Null)
    /\ UNCHANGED <<qdev, qdevs, mutex, rounds>>

\* It may run homa_qdisc_pacer for a structure, then goes on or returns.
Help(t) ==
    /\ user[t].pc = "check" /\ t \in Scanners
    /\ \/ user[t].dev # Null /\ user' = [user EXCEPT ![t].dev = Null] /\ UNCHANGED qdev
       \/ /\ user[t].dev = Null /\ Range(qdevs) \subseteq user[t].seen
          /\ Go(t, "out", Null) /\ qdev' = LeaveRcu(t)
    /\ UNCHANGED <<qdevs, mutex, rounds>>

UserStep(t) ==
    \/ NextEntry(t) \/ Help(t)
    \/ t \in Qdiscs /\ (TryGet(t) \/ EndScan(t) \/ Lock(t) \/ Create(t) \/ Unlink(t))

QdevNext ==
    \/ \E t \in Users : UserStep(t)
    \/ \E q \in Qdiscs : homa_qdisc_init(q) \/ homa_qdisc_destroy(q)
    \/ \E d \in Qdevs : homa_qdisc_dev_callback(d)
    \/ \E t \in Scanners : homa_qdisc_pacer_check(t)

QdevSpec == QdevInit /\ [][QdevNext]_qdevVars

-----------------------------------------------------------------------------
(* Properties                                                              *)

QdevType == [state : {"free", "live", "dying"}, refs : Nat, readers : SUBSET Users]
UserType == [pc : {"out", "rcu", "lock", "create", "in", "unlink", "remove", "check"},
             dev : Qdevs \cup {Null}, seen : SUBSET Qdevs]

QdevTypeOK ==
    /\ qdev \in [Qdevs -> QdevType]
    /\ qdevs \in Seq(Qdevs)
    /\ mutex \in Users \cup {Null}
    /\ user \in [Users -> UserType]
    /\ rounds \in [Qdiscs -> Nat]

Holders(d) == {q \in Qdiscs : user[q].pc = "in" /\ user[q].dev = d}

\* "includes one reference for each homa_qdisc that references this object"
\* (homa_qdisc.h), whatever the order of creations and destructions; no thread
\* uses a structure that has been freed.
QdevRefsExact ==
    /\ \A d \in Qdevs : qdev[d].refs = Cardinality(Holders(d))
    /\ \A t \in Users : user[t].dev # Null => qdev[user[t].dev].state # "free"

\* Two threads that create the first qdiscs of a device at the same time, or
\* one that creates a qdisc while the last one goes, never leave the device
\* with two structures (and two pacers that do not know of each other).
OneQdev ==
    \A q1, q2 \in Qdiscs :
        user[q1].pc = "in" /\ user[q2].pc = "in" => user[q1].dev = user[q2].dev

\* A device has one structure, which lives exactly as long as its qdiscs.
QdevConsistent == QdevTypeOK /\ QdevRefsExact /\ OneQdev
=============================================================================
