----------------------------- MODULE HomaQdisc ------------------------------
(***************************************************************************)
(* Homa's queueing discipline (homa_qdisc.c): packets of both Homa and TCP *)
(* that would make the queue of the NIC too long are deferred, and a pacer *)
(* thread, now and then helped by softirq code, sends them later: Homa     *)
(* packets in SRPT order, TCP packets by deficit round robin over the      *)
(* qdiscs of the device, and the two by their shares of the bandwidth.     *)
(*                                                                         *)
(* Packets have length 1 and take one unit of link time.  A step is what   *)
(* runs under the defer lock, or one turn of a loop outside it.            *)
(***************************************************************************)
EXTENDS Integers, Sequences, FiniteSets, SequencesExt

CONSTANTS
    Qdiscs,         \* transmit queues of the device, by index: 1, 2, ...
    Rpcs,           \* outgoing Homa messages: 1, 2, ... by init_time
    MaxMessage,     \* HOMA_MAX_MESSAGE_LENGTH
    LoopMax,        \* packets sent by one call of homa_qdisc_pacer
    CreditIncrement,\* tcp_credit_increment
    Workloads       \* settings and bounds, one of which is chosen at the start

(***************************************************************************)
(* A workload is a record of                                               *)
(*   length    length[r]: packets of the message of r                      *)
(*   tcp       TCP packets that each qdisc gets                            *)
(*   resends   packets of each message that are retransmitted              *)
(*   short     Homa control packets and packets of short messages          *)
(*   reap      whether the reaper frees RPCs                               *)
(*   destroy   whether qdiscs are destroyed: "never", "idle" (only those   *)
(*             without deferred packets) or "any"                          *)
(*   max       max_nic_queue_cycles                                        *)
(*   share     homa_share                                                  *)
(***************************************************************************)
VARIABLES
    load,           \* the workload; load.short counts down
    qdisc,          \* qdisc[q]: struct homa_qdisc, tcp_deferred as its length
    tcp_qdiscs,     \* qdev->tcp_qdiscs
    cur_tcp_qdisc,  \* qdev->cur_tcp_qdisc
    qrpc,           \* qrpc[r]: struct homa_rpc_qdisc, and packets not yet sent
    deferred_rpcs,  \* qdev->deferred_rpcs, from left to right
    last_defer,     \* whether qdev->last_defer is nonzero
    homa_credit,    \* qdev->homa_credit
    qixs,           \* pacer_qix and redirect_qix
    queue,          \* link_idle_time minus the time, 0 if that is past
    pacer           \* pacer[t]: where t is in homa_qdisc_pacer

qdiscVars == <<load, qdisc, tcp_qdiscs, cur_tcp_qdisc, qrpc, deferred_rpcs, last_defer,
               homa_credit, qixs, queue, pacer>>
tcpVars == <<qdisc, tcp_qdiscs, cur_tcp_qdisc>>
homaVars == <<qrpc, deferred_rpcs>>

None == 0
Kthread == "kthread"    \* homa_qdisc_pacer_main
Helper == "helper"      \* homa_qdisc_pacer_check
Pacers == {Kthread, Helper}
NoSkb == "none"

\* Whether homa_qdisc_dev has a reference: homa_qdisc_init takes one for each
\* qdisc, homa_qdisc_destroy drops it.
LiveQdiscs == {q \in Qdiscs : qdisc[q].live}

Init ==
    /\ load \in Workloads
    /\ qdisc = [q \in Qdiscs |-> [live |-> TRUE, tcp_deferred |-> 0, credit |-> 0,
                                  arrivals |-> load.tcp]]
    /\ tcp_qdiscs = <<>> /\ cur_tcp_qdisc = None
    /\ qrpc = [r \in Rpcs |-> [packets |-> <<>>, tx_left |-> MaxMessage,
                               next |-> 0, resends |-> load.resends, freed |-> FALSE]]
    /\ deferred_rpcs = <<>>
    /\ last_defer = FALSE
    /\ homa_credit = 0
    /\ qixs = [pacer |-> None, redirect |-> None]
    /\ queue = 0
    /\ pacer = [t \in Pacers |-> [pc |-> IF t = Kthread THEN "main" ELSE "idle",
                               i |-> 0, wait |-> 0, skb |-> NoSkb]]

homa_qdisc_any_deferred(tree, list) == tree # <<>> \/ list # <<>>

-----------------------------------------------------------------------------
(* Queue indices: hints that are verified before they are used             *)

homa_qdisc_set_qixs ==
    IF LiveQdiscs = {} THEN [pacer |-> None, redirect |-> None]
    ELSE LET first == CHOOSE q \in LiveQdiscs : \A x \in LiveQdiscs : q <= x
             rest == LiveQdiscs \ {first}
         IN  [pacer |-> first,
              redirect |-> IF rest = {} THEN first
                           ELSE CHOOSE q \in rest : \A x \in rest : q <= x]

Verified(q) == q \in LiveQdiscs

\* The index hints after homa_qdisc_redirect_skb, and the queue it chooses;
\* None if the packet is dropped.
QixsFor(kind) == IF Verified(qixs[kind]) THEN qixs ELSE homa_qdisc_set_qixs
homa_qdisc_redirect_skb(kind) ==
    LET q == QixsFor(kind)[kind] IN IF Verified(q) THEN q ELSE None

-----------------------------------------------------------------------------
(* Deferring packets                                                       *)

\* Mutant: the pacer is left asleep.
WakeNobody == pacer

\* The pacer thread is woken for the first deferred packet.
WakePacer ==
    IF ~last_defer /\ pacer[Kthread].pc = "asleep"
    THEN [pacer EXCEPT ![Kthread].pc = "wait"] ELSE pacer

homa_qdisc_defer_tcp(q) ==
    /\ qdisc' = [qdisc EXCEPT ![q].tcp_deferred = @ + 1, ![q].arrivals = @ - 1,
                    ![q].credit = IF q \in Range(tcp_qdiscs) THEN @ ELSE 0]
    /\ tcp_qdiscs' = IF q \in Range(tcp_qdiscs) THEN tcp_qdiscs ELSE Append(tcp_qdiscs, q)
    /\ last_defer' = TRUE
    /\ pacer' = WakePacer
    /\ UNCHANGED <<cur_tcp_qdisc, homaVars, homa_credit, qixs, queue>>

homa_qdisc_precedes(m, r1, r2) ==
    \/ m[r1].tx_left < m[r2].tx_left
    \/ m[r1].tx_left = m[r2].tx_left /\ r1 < r2

\* The tree is its RPCs from left to right: the new RPC goes before the ones
\* that it precedes.
homa_qdisc_insert_rb(m, r) ==
    LET after == {i \in 1 .. Len(deferred_rpcs) :
                      homa_qdisc_precedes(m, r, deferred_rpcs[i])}
        pos == IF after = {} THEN Len(deferred_rpcs) + 1
               ELSE CHOOSE i \in after : \A j \in after : i <= j
    IN  InsertAt(deferred_rpcs, pos, r)

Lower(x, y) == IF x < y THEN x ELSE y

\* tx_left changes only if the RPC is not in the tree.
TxLeft(r, offset) ==
    IF qrpc[r].packets = <<>> THEN Lower(load.length[r] - offset, qrpc[r].tx_left)
    ELSE qrpc[r].tx_left

homa_qdisc_defer_homa(r, offset, sent) ==
    LET m == [qrpc EXCEPT ![r] = [sent EXCEPT !.packets = Append(@, offset),
                                             !.tx_left = TxLeft(r, offset)]]
    IN  /\ qrpc' = m
        /\ deferred_rpcs' = IF qrpc[r].packets = <<>> THEN homa_qdisc_insert_rb(m, r)
                            ELSE deferred_rpcs
        /\ last_defer' = TRUE
        /\ pacer' = WakePacer
        /\ UNCHANGED <<tcpVars, homa_credit, qixs, queue>>

-----------------------------------------------------------------------------
(* homa_qdisc_enqueue                                                      *)

\* homa_qdisc_update_link_idle with a limit.
LinkAllows == queue <= load.max

\* The end of homa_qdisc_enqueue: the queue that is reserved for the pacer is
\* not used by other packets.
Enqueue(q) ==
    /\ queue' = queue + 1
    /\ qixs' = IF q = qixs.pacer THEN QixsFor("redirect") ELSE qixs
    /\ UNCHANGED <<tcp_qdiscs, cur_tcp_qdisc, deferred_rpcs, last_defer, homa_credit, pacer>>

\* A TCP packet is deferred if others of its qdisc are, and otherwise sent at
\* once if it is short.  Short packets find a queue of any length acceptable.
EnqueueTcp(q, short) ==
    LET linked == q \in Range(tcp_qdiscs)
        direct == /\ ~linked
                  /\ \/ short
                     \/ ~homa_qdisc_any_deferred(deferred_rpcs, tcp_qdiscs) /\ LinkAllows
    IN  /\ qdisc[q].live /\ qdisc[q].arrivals > 0
        /\ \/ direct /\ qdisc' = [qdisc EXCEPT ![q].arrivals = @ - 1]
              /\ Enqueue(q) /\ UNCHANGED qrpc
           \/ ~direct /\ homa_qdisc_defer_tcp(q)

\* A data packet of a Homa message: the next one, or a retransmission.
EnqueueHoma(q, r, offset, sent) ==
    LET direct == ~homa_qdisc_any_deferred(deferred_rpcs, tcp_qdiscs) /\ LinkAllows
    IN  /\ qdisc[q].live /\ ~qrpc[r].freed
        /\ \/ direct /\ qrpc' = [qrpc EXCEPT ![r] = sent] /\ Enqueue(q) /\ UNCHANGED qdisc
           \/ ~direct /\ homa_qdisc_defer_homa(r, offset, sent)

NewPacket(q, r) ==
    /\ qrpc[r].next < load.length[r]
    /\ EnqueueHoma(q, r, qrpc[r].next, [qrpc[r] EXCEPT !.next = @ + 1])

ResentPacket(q, r, offset) ==
    /\ qrpc[r].resends > 0 /\ offset < qrpc[r].next
    /\ EnqueueHoma(q, r, offset, [qrpc[r] EXCEPT !.resends = @ - 1])

\* A Homa control packet, or one of a short message.
ShortHoma(q) ==
    /\ qdisc[q].live /\ load.short > 0
    /\ load' = [load EXCEPT !.short = @ - 1]
    /\ Enqueue(q)
    /\ UNCHANGED <<qdisc, qrpc>>

-----------------------------------------------------------------------------
(* The pacer                                                               *)

At(t, pc, i) == pacer' = [pacer EXCEPT ![t] = [pc |-> pc, i |-> i, wait |-> 0, skb |-> NoSkb]]
Leave(t) == At(t, IF t = Kthread THEN "wait" ELSE "idle", 0)
MutexHeld == \E t \in Pacers : pacer[t].pc \in {"loop", "spin", "send"}

\* kthread_stop is called when the last qdisc is gone.
homa_qdisc_pacer_main ==
    /\ pacer[Kthread].pc = "main"
    /\ IF LiveQdiscs = {} THEN At(Kthread, "stopped", 0)
       ELSE IF MutexHeld THEN Leave(Kthread) ELSE At(Kthread, "loop", 0)
    /\ UNCHANGED <<tcpVars, homaVars, last_defer, homa_credit, qixs, queue>>

\* The check for more packets, and the condition of wait_event_interruptible.
Wait ==
    /\ pacer[Kthread].pc = "wait"
    /\ At(Kthread, IF LiveQdiscs = {} \/ homa_qdisc_any_deferred(deferred_rpcs, tcp_qdiscs)
                   THEN "main" ELSE "asleep", 0)
    /\ UNCHANGED <<tcpVars, homaVars, last_defer, homa_credit, qixs, queue>>

homa_qdisc_pacer_check ==
    /\ pacer[Helper].pc = "idle" /\ LiveQdiscs # {}
    /\ homa_qdisc_any_deferred(deferred_rpcs, tcp_qdiscs)
    /\ queue <= load.max \div 2
    /\ ~MutexHeld
    /\ At(Helper, "loop", 0)
    /\ UNCHANGED <<tcpVars, homaVars, last_defer, homa_credit, qixs, queue>>

\* homa_credit before a packet is chosen.
Credit ==
    IF tcp_qdiscs = <<>> THEN 1 ELSE IF deferred_rpcs = <<>> THEN 0 ELSE homa_credit

StillDeferred(tree, list) == homa_qdisc_any_deferred(tree, list)

\* The first packet of the leftmost RPC is taken.
homa_qdisc_get_deferred_homa ==
    LET r == Head(deferred_rpcs)
        left == load.length[r] - (Head(qrpc[r].packets) + 1)
        m == [qrpc EXCEPT ![r].packets = Tail(@), ![r].tx_left = Lower(left, @)]
        tree == IF m[r].packets = <<>> THEN Tail(deferred_rpcs) ELSE deferred_rpcs
    IN  /\ deferred_rpcs # <<>>
        /\ qrpc' = m /\ deferred_rpcs' = tree
        /\ last_defer' = (last_defer /\ StillDeferred(tree, tcp_qdiscs))
        /\ UNCHANGED tcpVars

Follows(q) ==   \* list_next_entry_circular
    LET i == CHOOSE i \in 1 .. Len(tcp_qdiscs) : tcp_qdiscs[i] = q
    IN  tcp_qdiscs[(i % Len(tcp_qdiscs)) + 1]

\* The search for a qdisc with positive credit, as a function of the turns
\* taken: the qdisc it is at and the credits.
Search[n \in Nat] ==
    LET raise(q, c) == [at |-> q, credit |-> [c EXCEPT ![q] = @ + CreditIncrement]]
        credits == [q \in Qdiscs |-> qdisc[q].credit]
        prev == Search[n - 1]
    IN  IF n = 0
        THEN IF cur_tcp_qdisc = None THEN raise(Head(tcp_qdiscs), credits)
             ELSE [at |-> cur_tcp_qdisc, credit |-> credits]
        ELSE IF prev.credit[prev.at] > 0 THEN prev
             ELSE raise(Follows(prev.at), prev.credit)

\* cur_tcp_qdisc after the last packet of q.
NextCur(q, list) == IF list = <<>> THEN None ELSE Follows(q)

\* Mutant: an off-by-one in the test for an empty queue.
LastTcpButOne(q) == qdisc[q].tcp_deferred <= 2

\* Whether the packet that is taken is the last of its qdisc.
LastTcp(q) == qdisc[q].tcp_deferred = 1

\* A packet of the next qdisc with credit is taken.
homa_qdisc_xmit_deferred_tcp ==
    LET turns == Search[2 * Cardinality(Qdiscs)]
        q == turns.at
        last == LastTcp(q)
        list == IF last THEN SelectSeq(tcp_qdiscs, LAMBDA x : x # q) ELSE tcp_qdiscs
    IN  /\ tcp_qdiscs # <<>>
        /\ qdisc' = [x \in Qdiscs |->
             [qdisc[x] EXCEPT !.credit = turns.credit[x] - (IF x = q THEN 1 ELSE 0),
                              !.tcp_deferred = IF x = q THEN @ - 1 ELSE @]]
        /\ tcp_qdiscs' = list
        /\ cur_tcp_qdisc' = IF last THEN NextCur(q, list) ELSE q
        /\ last_defer' = (last_defer /\ StillDeferred(deferred_rpcs, list))
        /\ UNCHANGED homaVars

\* Whether the next packet is one of Homa.
HomaNext == Credit > 0

\* One turn of the loop in homa_qdisc_pacer.  The first turn waits until the
\* packets that it found in the NIC queue have been sent, except for as many
\* as may be there; in a later turn such packets end the call.
Transmit(t) ==
    \/ /\ ~homa_qdisc_any_deferred(deferred_rpcs, tcp_qdiscs)
       /\ Leave(t)
       /\ UNCHANGED <<tcpVars, homaVars, last_defer, homa_credit, qixs, queue>>
    \/ /\ homa_qdisc_any_deferred(deferred_rpcs, tcp_qdiscs)
       /\ homa_credit' = Credit
       /\ IF HomaNext THEN homa_qdisc_get_deferred_homa ELSE homa_qdisc_xmit_deferred_tcp
       /\ pacer' = [pacer EXCEPT ![t].pc = "send", ![t].wait = 0,
                                 ![t].skb = IF HomaNext THEN "homa" ELSE "tcp"]
       /\ UNCHANGED <<qixs, queue>>

\* The rest of the turn, with the defer lock released: the packet goes to the
\* NIC, a Homa packet on the queue of the pacer, and the credit is adjusted.
XmitDeferred(t) ==
    /\ pacer[t].pc = "send"
    /\ queue' = queue + 1
    /\ IF pacer[t].skb = "homa"
       THEN qixs' = QixsFor("pacer") /\ homa_credit' = homa_credit - (100 - load.share)
       ELSE homa_credit' = homa_credit + load.share /\ UNCHANGED qixs
    /\ At(t, "loop", pacer[t].i + 1)
    /\ UNCHANGED <<tcpVars, homaVars, last_defer>>

\* By how much the NIC queue is too long.
Excess == IF queue > load.max THEN queue - load.max ELSE 0

PacerTurn(t) ==
    LET i == pacer[t].i
    IN  /\ pacer[t].pc = "loop"
        /\ \/ /\ i = LoopMax \/ (i # 0 /\ Excess > 0)
              /\ Leave(t)
              /\ UNCHANGED <<tcpVars, homaVars, last_defer, homa_credit, qixs, queue>>
           \/ /\ i = 0 /\ Excess > 0
              /\ pacer' = [pacer EXCEPT ![t].pc = "spin", ![t].wait = Excess]
              /\ UNCHANGED <<tcpVars, homaVars, last_defer, homa_credit, qixs, queue>>
           \/ i < LoopMax /\ Excess = 0 /\ Transmit(t)

EndOfWait(t) == pacer[t].pc = "spin" /\ pacer[t].wait = 0 /\ Transmit(t)

-----------------------------------------------------------------------------
(* The life of qdiscs                                                      *)

\* The deferred TCP packets of the qdisc are purged and it leaves the list;
\* with the last qdisc the reference count of the device structure drops to
\* zero and kthread_stop wakes the pacer thread.
homa_qdisc_destroy(q) ==
    /\ qdisc[q].live
    /\ load.destroy = "any" \/ (load.destroy = "idle" /\ qdisc[q].tcp_deferred = 0)
    /\ qdisc' = [qdisc EXCEPT ![q].live = FALSE, ![q].tcp_deferred = 0]
    /\ tcp_qdiscs' = SelectSeq(tcp_qdiscs, LAMBDA x : x # q)
    /\ pacer' = IF LiveQdiscs = {q} /\ pacer[Kthread].pc = "asleep"
                THEN [pacer EXCEPT ![Kthread].pc = "wait"] ELSE pacer
    /\ UNCHANGED <<cur_tcp_qdisc, homaVars, last_defer, homa_credit, qixs, queue>>

\* homa_qdisc_dev_callback, after the pacer has stopped and no RCU reader is
\* left: the deferred Homa packets are freed.  Also the next state's device
\* structure, if a qdisc is created later, is a new one.
homa_qdisc_free_homa ==
    /\ pacer[Kthread].pc = "stopped" /\ pacer[Helper].pc = "idle"
    /\ deferred_rpcs # <<>>
    /\ qrpc' = [r \in Rpcs |-> [qrpc[r] EXCEPT !.packets = <<>>]]
    /\ deferred_rpcs' = <<>>
    /\ last_defer' = FALSE
    /\ UNCHANGED <<tcpVars, homa_credit, qixs, queue, pacer>>

\* homa_rpc_reap: no packet of the RPC is in use elsewhere.
PacketsIdle(r) == qrpc[r].packets = <<>>

Reap(r) ==
    /\ load.reap /\ ~qrpc[r].freed /\ PacketsIdle(r)
    /\ qrpc' = [qrpc EXCEPT ![r].freed = TRUE]
    /\ UNCHANGED <<tcpVars, deferred_rpcs, last_defer, homa_credit, qixs, queue, pacer>>

Drain ==
    /\ queue > 0
    /\ queue' = queue - 1
    /\ pacer' = [t \in Pacers |-> [pacer[t] EXCEPT !.wait = IF @ > 0 THEN @ - 1 ELSE 0]]
    /\ UNCHANGED <<tcpVars, homaVars, last_defer, homa_credit, qixs>>

KthreadStep == homa_qdisc_pacer_main \/ Wait \/ PacerTurn(Kthread) \/ EndOfWait(Kthread)
               \/ XmitDeferred(Kthread)
HelperStep == PacerTurn(Helper) \/ EndOfWait(Helper) \/ XmitDeferred(Helper)

Traffic ==
    \E q \in Qdiscs : \/ \E short \in BOOLEAN : EnqueueTcp(q, short)
                      \/ \E r \in Rpcs : NewPacket(q, r)
                      \/ \E r \in Rpcs, o \in 0 .. MaxMessage : ResentPacket(q, r, o)

Next ==
    \/ \E q \in Qdiscs : ShortHoma(q)
    \/ /\ \/ Traffic
          \/ KthreadStep \/ HelperStep \/ homa_qdisc_pacer_check
          \/ homa_qdisc_free_homa
          \/ \E q \in Qdiscs : homa_qdisc_destroy(q)
          \/ \E r \in Rpcs : Reap(r)
          \/ Drain
       /\ UNCHANGED load

Spec == Init /\ [][Next]_qdiscVars

-----------------------------------------------------------------------------
(* Properties                                                              *)

\* Types, and the ranges of the two credits: a protocol or a qdisc never
\* builds up more than what one packet can bring it ("prevent negative
\* credit buildup", homa_qdisc.c).
QdiscTypeOK ==
    /\ \A q \in Qdiscs : /\ qdisc[q].tcp_deferred \in Nat
                         /\ qdisc[q].credit \in 0 .. CreditIncrement
    /\ tcp_qdiscs \in Seq(Qdiscs) /\ deferred_rpcs \in Seq(Rpcs)
    /\ cur_tcp_qdisc \in Qdiscs \cup {None}
    /\ homa_credit \in -(100 - load.share) .. load.share
    /\ queue \in Nat
    /\ \A t \in Pacers : pacer[t].pc \in {"idle", "main", "wait", "asleep", "loop", "spin", "send", "stopped"}

\* "List of all homa_qdiscs that have deferred TCP packets", "Contains all
\* homa_rpc's with deferred packets" (homa_qdisc.h): every deferred packet can
\* be found by the pacer, and no list names an entry twice.
DeferredListed ==
    /\ Range(tcp_qdiscs) = {q \in Qdiscs : qdisc[q].tcp_deferred > 0}
    /\ Len(tcp_qdiscs) = Cardinality(Range(tcp_qdiscs))
    /\ Range(deferred_rpcs) = {r \in Rpcs : qrpc[r].packets # <<>>}
    /\ Len(deferred_rpcs) = Cardinality(Range(deferred_rpcs))

\* cur_tcp_qdisc "Points to an element of tcp_qdiscs or NULL", last_defer is
\* "0 if there are currently no deferred packets" (homa_qdisc.h).
PacerStateExact ==
    /\ cur_tcp_qdisc \in Range(tcp_qdiscs) \cup {None}
    /\ last_defer = homa_qdisc_any_deferred(deferred_rpcs, tcp_qdiscs)

\* "The RPC was already the highest-priority one ... so its position in the
\* rbtree won't change" (homa_qdisc_get_deferred_homa): although tx_left
\* changes while an RPC is in the tree, the tree stays in SRPT order.
TreeSorted ==
    \A i \in 1 .. Len(deferred_rpcs) - 1 :
        homa_qdisc_precedes(qrpc, deferred_rpcs[i], deferred_rpcs[i + 1])

\* An RPC is not freed while homa_qdisc can still reach it through a packet.
QueuedRpcsLive == \A r \in Range(deferred_rpcs) : ~qrpc[r].freed

\* A packet that the pacer or homa_qdisc_enqueue redirects goes to a queue
\* that has a Homa qdisc, if there is one, although the index hints are not
\* updated when qdiscs go.
RedirectFinds ==
    LiveQdiscs # {} =>
        \A kind \in {"pacer", "redirect"} : homa_qdisc_redirect_skb(kind) \in LiveQdiscs

\* What the pacer relies on, after every step of the pacer thread, helpers,
\* enqueues, resends, reaping and the removal of qdiscs.
DeferralConsistent ==
    /\ QdiscTypeOK /\ DeferredListed /\ PacerStateExact
    /\ TreeSorted /\ QueuedRpcsLive /\ RedirectFinds

\* A packet is deferred, or taken by a pacer and not yet with the NIC.
Pending ==
    \/ homa_qdisc_any_deferred(deferred_rpcs, tcp_qdiscs)
    \/ \E t \in Pacers : pacer[t].pc = "send"

\* Deferred packets are sent, or freed with the last qdisc, with the pacer
\* thread as the only backstop.
DeferredSent == []<>~Pending
=============================================================================
