------------------------------ MODULE HomaXmit ------------------------------
(***************************************************************************)
(* Paced transmission: homa_message_out_fill, homa_xmit_data and           *)
(* homa_resend_data (homa_outgoing.c) and the pacer (homa_pacer.c), which  *)
(* keeps the queue of the NIC short.                                       *)
(*                                                                         *)
(* Messages are counted in packets of one unit of link time.  A step is    *)
(* what a thread does while it holds an RPC lock or the throttle lock;     *)
(* homa_message_out_fill releases the RPC lock for every packet it copies, *)
(* homa_xmit_data for every packet it sends.                               *)
(***************************************************************************)
EXTENDS Integers, Sequences, Lists

CONSTANTS
    Rpcs,           \* RPCs with outgoing messages: 1, 2, ... by init_time
    Length,         \* Length[r]: packets of the message of r
    Unscheduled,    \* packets that need no grant
    Senders,        \* threads that send messages or handle grants
    DeferMin,       \* defer_min_bytes
    MaxQueue,       \* max_nic_queue_cycles
    MaxResent,      \* bound of the model: packets that are retransmitted
    FifoFraction,   \* fifo_fraction
    FifoFull        \* 1000

VARIABLES
    msgout,         \* msgout[r]: next_xmit_offset, granted, packets that have
                    \* been copied (filled), state of the RPC
    throttled,      \* pacer->throttled_rpcs
    backlog,        \* link_idle_time minus the time, 0 if that is past
    retrans,        \* packets retransmitted so far
    fifo_count,     \* pacer->fifo_count
    thread          \* thread[t]: where t is and for whom; whether
                    \* homa_xmit_data was called inside homa_message_out_fill

xmitVars == <<msgout, throttled, backlog, retrans, fifo_count, thread>>

Kthread == "kthread"    \* homa_pacer_main
Softirq == "softirq"    \* homa_pacer_check, called by homa_gro_receive
Pacers == {Kthread, Softirq}
Threads == Pacers \cup Senders

None == 0

\* Lengths are counts of packets, and fifo_fraction is in thousandths.
XmitAssumptions ==
    /\ Rpcs \subseteq Nat \ {None}
    /\ Length \in [Rpcs -> Nat \ {0}]
    /\ Unscheduled \in Nat /\ DeferMin \in Nat /\ MaxQueue \in Nat
    /\ MaxResent \in Nat
    /\ FifoFull \in Nat \ {0} /\ FifoFraction \in 0 .. FifoFull
    /\ Kthread \notin Senders /\ Softirq \notin Senders

Thread(pc, r, force, fill) == [pc |-> pc, rpc |-> r, force |-> force, fill |-> fill]
At(t, pc) == thread' = [thread EXCEPT ![t] = Thread(pc, None, FALSE, FALSE)]

\* homa_xmit_data is called for r.
CallXmit(t, r, force, fill) ==
    thread' = [thread EXCEPT ![t] = Thread("xmit", r, force, fill)]

\* homa_message_out_fill copies the next packet of r, without the RPC lock.
Copying(t, r) == thread' = [thread EXCEPT ![t] = Thread("fill", r, FALSE, TRUE)]

Live(r) == msgout[r].state = "live"
Left(r) == Length[r] - msgout[r].next

\* There is a next packet, and it may be sent.
Ready(r) == msgout[r].next < msgout[r].filled /\ msgout[r].next < msgout[r].granted

Throttled(r) == r \in Range(throttled)

Init ==
    /\ msgout = [r \in Rpcs |-> [next |-> 0, granted |-> 0, filled |-> 0, state |-> "none"]]
    /\ throttled = <<>>
    /\ backlog = 0
    /\ retrans = 0
    /\ fifo_count = FifoFull
    /\ thread = [t \in Threads |->
         Thread(IF t = Kthread THEN "enter" ELSE "idle", None, FALSE, FALSE)]

-----------------------------------------------------------------------------
(* homa_xmit_data                                                          *)

\* The RPC goes before the first one that has more left to send.
homa_pacer_manage_rpc(r) ==
    LET longer == {i \in 1 .. Len(throttled) : Left(throttled[i]) > Left(r)}
        pos == IF longer = {} THEN Len(throttled) + 1
               ELSE CHOOSE i \in longer : \A j \in longer : i <= j
    IN  IF Throttled(r) THEN throttled ELSE list_insert(throttled, pos, r)

homa_pacer_unmanage_rpc(r) == list_del(throttled, r)

\* Short messages, and the ends of long ones, are not paced.
Bypasses(r) == Left(r) <= DeferMin

\* Whether the NIC queue has room for another packet.
homa_pacer_check_nic_q(force) == force \/ backlog <= MaxQueue

-----------------------------------------------------------------------------
(* homa_message_out_fill, grants and retransmissions                       *)

\* homa_message_out_init, and the copying begins.
homa_message_out_init(t, r) ==
    /\ thread[t].pc = "idle" /\ t \in Senders
    /\ msgout[r].state = "none"
    /\ msgout' = [msgout EXCEPT ![r].state = "live",
                      ![r].granted = IF Unscheduled < Length[r] THEN Unscheduled
                                     ELSE Length[r]]
    /\ Copying(t, r)
    /\ UNCHANGED <<throttled, backlog, retrans, fifo_count>>

\* The packet that was copied joins the message.  Unscheduled packets are sent
\* at once, the others by grants meanwhile or after the last one.
LinkPacket(t) ==
    LET r == thread[t].rpc
        n == msgout[r].filled
    IN  /\ thread[t].pc = "fill" /\ Live(r)
        /\ msgout' = [msgout EXCEPT ![r].filled = n + 1]
        /\ IF n < Unscheduled THEN CallXmit(t, r, FALSE, TRUE)
           ELSE IF n + 1 < Length[r] THEN Copying(t, r)
           ELSE CallXmit(t, r, FALSE, FALSE)
        /\ UNCHANGED <<throttled, backlog, retrans, fifo_count>>

\* The RPC is found dead, or there was no memory for the packet and the caller
\* ends the RPC.
FillFails(t) ==
    LET r == thread[t].rpc
    IN  /\ thread[t].pc = "fill"
        /\ msgout' = [msgout EXCEPT ![r].state = IF Live(r) THEN "dead" ELSE @]
        /\ At(t, "idle")
        /\ UNCHANGED <<throttled, backlog, retrans, fifo_count>>

GrantPkt(t, r) ==
    /\ thread[t].pc = "idle" /\ t \in Senders
    /\ Live(r) /\ msgout[r].granted < Length[r]
    /\ msgout' = [msgout EXCEPT ![r].granted = @ + 1]
    /\ CallXmit(t, r, FALSE, FALSE)
    /\ UNCHANGED <<throttled, backlog, retrans, fifo_count>>

\* homa_resend_data sends n packets again, whatever the NIC queue holds, with
\* the RPC lock held.
homa_resend_data(r, n) ==
    /\ n <= msgout[r].next
    /\ retrans + n <= MaxResent
    /\ retrans' = retrans + n
    /\ backlog' = backlog + n

\* A RESEND up to packet end: what was transmitted is sent again, and a grant
\* that was lost is made up for.
homa_resend_pkt(t, r, n, end) ==
    /\ thread[t].pc = "idle" /\ t \in Senders
    /\ Live(r)
    /\ homa_resend_data(r, n)
    /\ IF end > msgout[r].granted
       THEN /\ msgout' = [msgout EXCEPT ![r].granted = end]
            /\ CallXmit(t, r, FALSE, FALSE)
       ELSE UNCHANGED <<msgout, thread>>
    /\ UNCHANGED <<throttled, fifo_count>>

-----------------------------------------------------------------------------
(* homa_xmit_data                                                          *)

\* One packet is sent.
XmitPacket(t) ==
    LET r == thread[t].rpc
    IN  /\ thread[t].pc = "xmit"
        /\ Live(r) /\ Ready(r)
        /\ Bypasses(r) \/ homa_pacer_check_nic_q(thread[t].force)
        /\ backlog' = IF Bypasses(r) THEN backlog ELSE backlog + 1
        /\ msgout' = [msgout EXCEPT ![r].next = @ + 1]
        /\ CallXmit(t, r, FALSE, thread[t].fill)
        /\ UNCHANGED <<throttled, retrans, fifo_count>>

\* homa_pacer_xmit finds no next packet, or no grant for it.
SentAll(r) == ~Ready(r)

\* homa_xmit_data returns: the RPC is dead, has sent what it may, or goes to
\* the pacer.  homa_pacer_xmit then drops an RPC that is done, before the RPC
\* lock is released; homa_message_out_fill goes on copying, or calls
\* homa_xmit_data once more at its end.
XmitStops(t) ==
    LET r == thread[t].rpc
        list == IF Live(r) /\ Ready(r) THEN homa_pacer_manage_rpc(r) ELSE throttled
    IN  IF t \in Pacers /\ SentAll(r) THEN homa_pacer_unmanage_rpc(r) ELSE list

XmitReturns(t) ==
    LET r == thread[t].rpc
    IN  /\ thread[t].pc = "xmit"
        /\ \/ ~Live(r) \/ ~Ready(r)
           \/ ~Bypasses(r) /\ ~homa_pacer_check_nic_q(thread[t].force)
        /\ throttled' = XmitStops(t)
        /\ IF t \in Pacers THEN At(t, "loop")
           ELSE IF ~thread[t].fill THEN At(t, "idle")
           ELSE IF msgout[r].filled < Length[r] THEN Copying(t, r)
           ELSE CallXmit(t, r, FALSE, FALSE)
        /\ UNCHANGED <<msgout, backlog, retrans, fifo_count>>

-----------------------------------------------------------------------------
(* The pacer                                                               *)

\* Leaving homa_pacer_xmit: homa_pacer_main looks at the list again.
Leave(t) == At(t, IF t = Kthread THEN "check" ELSE "idle")

\* spin_trylock_bh of the pacer mutex.
MutexHeld == \E t \in Pacers : thread[t].pc \in {"loop", "select", "xmit"}

EnterPacer(t) ==
    /\ thread[t].pc = "enter"
    /\ IF MutexHeld THEN Leave(t) ELSE At(t, "loop")
    /\ UNCHANGED <<msgout, throttled, backlog, retrans, fifo_count>>

NicFull == backlog >= MaxQueue

PacerLoop(t) ==
    /\ thread[t].pc = "loop"
    /\ IF NicFull \/ throttled = <<>> THEN Leave(t) ELSE At(t, "select")
    /\ UNCHANGED <<msgout, throttled, backlog, retrans, fifo_count>>

\* With the throttle lock: the shortest message, or now and then the oldest.
PickRpc(t) ==
    LET count == fifo_count - FifoFraction
        fifo == count <= 0
        oldest == CHOOSE r \in Range(throttled) :
                      \A x \in Range(throttled) : r <= x
    IN  /\ thread[t].pc = "select"
        /\ fifo_count' = IF fifo THEN count + FifoFull ELSE count
        /\ IF throttled = <<>> THEN Leave(t)
           ELSE CallXmit(t, IF fifo THEN oldest ELSE Head(throttled), TRUE, FALSE)
        /\ UNCHANGED <<msgout, throttled, backlog, retrans>>

\* Mutant: the pacer sleeps whenever it cannot make progress.
SleepsAlways == TRUE

\* The condition of the pacer's wait.
Sleeps == throttled = <<>>

homa_pacer_main ==
    /\ \/ thread[Kthread].pc = "check" /\ At(Kthread, IF Sleeps THEN "sleep" ELSE "enter")
       \/ thread[Kthread].pc = "sleep" /\ ~Sleeps /\ At(Kthread, "enter")
    /\ UNCHANGED <<msgout, throttled, backlog, retrans, fifo_count>>

\* Helps the pacer when the NIC queue is half empty.
homa_pacer_check ==
    /\ thread[Softirq].pc = "idle"
    /\ throttled # <<>> /\ backlog <= MaxQueue \div 2
    /\ At(Softirq, "enter")
    /\ UNCHANGED <<msgout, throttled, backlog, retrans, fifo_count>>

-----------------------------------------------------------------------------
(* The NIC, and the end of an RPC                                          *)

Drain ==
    /\ backlog > 0
    /\ backlog' = backlog - 1
    /\ UNCHANGED <<msgout, throttled, retrans, fifo_count, thread>>

\* homa_rpc_end marks the RPC as dead, releases its lock for a moment in
\* homa_grant_end_rpc, and takes it off the throttled list at its end.
EndRpc(r) ==
    /\ Live(r)
    /\ msgout' = [msgout EXCEPT ![r].state = "dead"]
    /\ UNCHANGED <<throttled, backlog, retrans, fifo_count, thread>>

\* Mutant: the RPC stays on the list.
UnlinkNothing(r) == throttled

UnlinkRpc(r) == homa_pacer_unmanage_rpc(r)

FinishEnd(r) ==
    /\ msgout[r].state = "dead"
    /\ msgout' = [msgout EXCEPT ![r].state = "ended"]
    /\ throttled' = UnlinkRpc(r)
    /\ UNCHANGED <<backlog, retrans, fifo_count, thread>>

\* homa_rpc_reap frees an RPC that no thread holds.
Reap(r) ==
    /\ msgout[r].state = "ended"
    /\ \A t \in Threads : thread[t].rpc # r
    /\ msgout' = [msgout EXCEPT ![r].state = "freed"]
    /\ UNCHANGED <<throttled, backlog, retrans, fifo_count, thread>>

ThreadStep(t) ==
    \/ LinkPacket(t) \/ FillFails(t)
    \/ XmitPacket(t) \/ XmitReturns(t)
    \/ t \in Pacers /\ (EnterPacer(t) \/ PacerLoop(t) \/ PickRpc(t))
    \/ t = Kthread /\ homa_pacer_main

Next ==
    \/ \E t \in Senders, r \in Rpcs :
         \/ homa_message_out_init(t, r) \/ GrantPkt(t, r)
         \/ \E n, end \in 0 .. Length[r] : homa_resend_pkt(t, r, n, end)
    \/ \E t \in Threads : ThreadStep(t)
    \/ homa_pacer_check
    \/ Drain
    \/ \E r \in Rpcs : EndRpc(r) \/ FinishEnd(r) \/ Reap(r)

Spec == Init /\ [][Next]_xmitVars

\* Threads that can run do, and the NIC transmits.  Nothing is assumed of
\* homa_pacer_check, whose calls "are not guaranteed to happen".
Fairness ==
    /\ \A t \in Threads : WF_xmitVars(ThreadStep(t))
    /\ WF_xmitVars(Drain)
    /\ \A r \in Rpcs : WF_xmitVars(FinishEnd(r))

FairSpec == Spec /\ Fairness

-----------------------------------------------------------------------------
(* Properties                                                              *)

MsgOutType == [next : Nat, granted : Nat, filled : Nat,
               state : {"none", "live", "dead", "ended", "freed"}]
ThreadType == [pc : {"idle", "fill", "enter", "loop", "select", "xmit", "check", "sleep"},
               rpc : Rpcs \cup {None}, force : BOOLEAN, fill : BOOLEAN]

\* Types; no packet is sent before it is copied or without a grant, and
\* fifo_count stays in range.
XmitTypeOK ==
    /\ msgout \in [Rpcs -> MsgOutType]
    /\ \A r \in Rpcs : /\ msgout[r].next <= msgout[r].filled
                       /\ msgout[r].next <= msgout[r].granted
                       /\ msgout[r].granted <= Length[r]
    /\ throttled \in Seq(Rpcs)
    /\ backlog \in Nat /\ retrans \in Nat
    /\ fifo_count \in 1 .. FifoFull
    /\ thread \in [Threads -> ThreadType]
    /\ \A t \in Threads : thread[t].pc \in {"fill", "xmit"} <=> thread[t].rpc \in Rpcs

\* "Contains all homa_rpcs that have bytes ready for transmission, but which
\* couldn't be sent" (homa_pacer.h): a message with packets that may be sent
\* is on the throttled list, or a thread is sending it or still copying it.
NoneStranded ==
    \A r \in Rpcs : Live(r) /\ Ready(r) =>
        Throttled(r) \/ \E t \in Threads : thread[t].rpc = r

\* The throttled list names no RPC twice and none that has been unlinked and
\* may be freed, whatever homa_rpc_end, the pacer and grants do meanwhile.
ThrottledLive ==
    /\ \A r \in Range(throttled) : msgout[r].state \in {"live", "dead"}
    /\ NoRepeats(throttled)

\* The pacer's estimate of the NIC queue exceeds the limit by at most two
\* packets, one that was sent when the queue was just short enough and one that
\* the single pacer forces, besides the packets that homa_resend_data forced.
QueueBounded == backlog <= MaxQueue + 2 + retrans

\* The throttled list is exact, with types and the NIC queue's bound, in every
\* interleaving of senders that still copy, grants, retransmissions, the pacer
\* and homa_rpc_end.
ThrottledExact == XmitTypeOK /\ NoneStranded /\ ThrottledLive /\ QueueBounded

\* What may be sent is sent in the end, with the pacer thread as the only
\* backstop, also if the message waits on the throttled list.
SentInTheEnd == \A r \in Rpcs : []<>~(Live(r) /\ Ready(r))
=============================================================================
