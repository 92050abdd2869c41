------------------------------- MODULE MCLive -------------------------------
(***************************************************************************)
(* Progress of a host, for TLC: what must happen in the end in the         *)
(* reassembly of a message, the buffer pool, the receiving threads, the    *)
(* pacer, the queueing discipline and the exchange of priorities. Init     *)
(* chooses the part that is explored; the others stay in their initial     *)
(* states.                                                                 *)
(***************************************************************************)
EXTENDS Integers, Sequences, TLC

CONSTANTS t1, t2, a, b0, b1, b2, c1, r1, r2, r3, none

VARIABLES focus,      \* the part that is explored
          region, state, msgin, pkts_ready, handed_off, receiver, skbs,
          copied, result, bpages, cores, free_bpages, bpages_needed,
          waiting_for_bufs, ctx, phase, bufs, pend, wait_rpc, thr,
          ready_rpcs, interests, shut, scan, msgout, throttled, backlog,
          retrans, fifo_count, thread, load, qdisc, tcp_qdiscs,
          cur_tcp_qdisc, qrpc, deferred_rpcs, last_defer, homa_credit, qixs,
          queue, pacer, rcvr, admin, reader, prio_peer, cutoffs_pkts, data_pkt,
          updated, losses

msginVars == <<region, state, msgin, pkts_ready, handed_off, receiver, skbs,
               copied, result>>
poolVars == <<bpages, cores, free_bpages, bpages_needed, waiting_for_bufs,
              ctx, phase, bufs, pend>>
waitVars == <<wait_rpc, thr, ready_rpcs, interests, shut, scan>>
xmitVars == <<msgout, throttled, backlog, retrans, fifo_count, thread>>
qdiscVars == <<load, qdisc, tcp_qdiscs, cur_tcp_qdisc, qrpc, deferred_rpcs,
               last_defer, homa_credit, qixs, queue, pacer>>
prioVars == <<rcvr, admin, reader, prio_peer, cutoffs_pkts, data_pkt, updated,
              losses>>

allVars == <<focus, msginVars, poolVars, waitVars, xmitVars, qdiscVars, prioVars>>

\* The segments of a message as homa_message_out_fill cuts it: all of the same
\* size except the last.
Segments == {[start |-> 0, end |-> 2], [start |-> 2, end |-> 4],
             [start |-> 4, end |-> 6], [start |-> 6, end |-> 7]}

\* A message of four segments.
In == INSTANCE HomaMsgIn WITH
       Packets <- Segments, Length <- 7, Unsched <- 2, MaxSkbs <- 2,
       RegionFirst <- TRUE

\* Three messages that need more than the three bpages of the region.
Pool == INSTANCE HomaPool WITH
       Bpages <- {b0, b1, b2}, Bpage0 <- b0, BpageSize <- 2, Cores <- {c1},
       Rpcs <- {r1, r2, r3}, NoRpc <- none,
       MsgLen <- r1 :> 2 @@ r2 :> 3 @@ r3 :> 4, Recycle <- FALSE

\* Two receiving threads and a response.
Wait == INSTANCE HomaWait WITH
       Threads <- {t1, t2}, Client <- {a}, Private <- {}, Server <- {},
       NumPkts <- 1, MaxSkbs <- 1, Actor <- FALSE,
       Events <- {"abort", "shutdown"}, MaxRefs <- 4, NoRpc <- none,
       NoThread <- none, rpc <- wait_rpc

Load(length, tcp, resends, short, reap, destroy, max, share) ==
    [length |-> length, tcp |-> tcp, resends |-> resends, short |-> short,
     reap |-> reap, destroy |-> destroy, max |-> max, share |-> share]

\* One sender thread, two messages and the pacer.
Xmit == INSTANCE HomaXmit WITH
       Rpcs <- {1, 2}, Length <- <<2, 1>>, Unscheduled <- 1,
       Senders <- {"s1"}, DeferMin <- 0, MaxQueue <- 1, MaxResent <- 1,
       FifoFraction <- 500, FifoFull <- 1000

\* A qdisc with short, long and TCP packets.
Qdisc == INSTANCE HomaQdisc WITH
       Qdiscs <- {1, 2}, Rpcs <- {1, 2}, MaxMessage <- 4, LoopMax <- 2,
       CreditIncrement <- 1,
       Workloads <- {Load(<<1, 1>>, 1, 0, 0, FALSE, "never", 1, 25)}

\* A receiver that changes its cutoffs and a sender, one lost packet.
Prio == INSTANCE HomaPrio WITH
       MaxPriorities <- 3, MaxLength <- 3, IntMax <- 9, Cutoff <- {2},
       NumPriorities <- {1, 2, 3}, Modulus <- 9, MaxData <- 1, MaxChanges <- 1,
       MaxLosses <- 1,
       peer <- prio_peer

-----------------------------------------------------------------------------
LiveInit ==
    /\ focus \in {"msgin", "pool", "wait", "xmit", "qdisc", "prio"}
    /\ In!Init
    /\ Pool!PoolInit
    /\ Wait!Init
    /\ Xmit!Init
    /\ Qdisc!Init
    /\ Prio!Init

\* The parts other than f keep their state.
Others(f) ==
    /\ UNCHANGED focus
    /\ IF f = "msgin" THEN TRUE ELSE UNCHANGED msginVars
    /\ IF f = "pool" THEN TRUE ELSE UNCHANGED poolVars
    /\ IF f = "wait" THEN TRUE ELSE UNCHANGED waitVars
    /\ IF f = "xmit" THEN TRUE ELSE UNCHANGED xmitVars
    /\ IF f = "qdisc" THEN TRUE ELSE UNCHANGED qdiscVars
    /\ IF f = "prio" THEN TRUE ELSE UNCHANGED prioVars

LiveNext ==
    \/ focus = "msgin" /\ In!Next /\ Others("msgin")
    \/ focus = "pool" /\ Pool!PoolNext /\ Others("pool")
    \/ focus = "wait" /\ Wait!Next /\ Others("wait")
    \/ focus = "xmit" /\ Xmit!Next /\ Others("xmit")
    \/ focus = "qdisc" /\ Qdisc!Next /\ Others("qdisc")
    \/ focus = "prio" /\ Prio!Next /\ Others("prio")

LiveSpec == LiveInit /\ [][LiveNext]_allVars

\* The fairness that each module states for its part; that of HomaQdisc and
\* HomaPrio is that the pacer thread and its helpers run and the NIC transmits,
\* and that a sender keeps sending, packets arrive and the clock advances.
InFair(i) ==
    \/ i = 1 /\ In!homa_data_pkt([start |-> 0, end |-> 2], TRUE)
    \/ i = 2 /\ In!homa_data_pkt([start |-> 2, end |-> 4], TRUE)
    \/ i = 3 /\ In!homa_data_pkt([start |-> 4, end |-> 6], TRUE)
    \/ i = 4 /\ In!homa_data_pkt([start |-> 6, end |-> 7], TRUE)
    \/ i = 5 /\ In!homa_pool_set_region
    \/ i = 6 /\ In!GetBuffers
    \/ i = 7 /\ In!Receive

PoolFair(i) ==
    \/ i = 1 /\ Pool!AllocStep(c1)
    \/ i = 2 /\ Pool!CheckStep(c1)
    \/ i = 3 /\ Pool!homa_pool_check_waiting(c1)
    \/ i = 4 /\ Pool!StartRelease(r1)
    \/ i = 5 /\ Pool!StartRelease(r2)
    \/ i = 6 /\ Pool!StartRelease(r3)
    \/ i = 7 /\ Pool!homa_pool_release_buffers(r1)
    \/ i = 8 /\ Pool!homa_pool_release_buffers(r2)
    \/ i = 9 /\ Pool!homa_pool_release_buffers(r3)
    \/ i = 10 /\ Pool!LeaseExpires(b0)
    \/ i = 11 /\ Pool!LeaseExpires(b1)
    \/ i = 12 /\ Pool!LeaseExpires(b2)

WaitFair(i) ==
    \/ i = 1 /\ (\/ Wait!homa_wait_shared(t1) \/ Wait!Interrupted(t1)
                 \/ Wait!LockRpc(t1) \/ Wait!CopyDone(t1) \/ Wait!RecvEnd(t1))
    \/ i = 2 /\ thr[t1].ready /\ (Wait!homa_interest_wait(t1) \/ Wait!homa_wait_private(t1))
    \/ i = 3 /\ Wait!RecvShared(t1, FALSE)
    \/ i = 4 /\ (\/ Wait!homa_wait_shared(t2) \/ Wait!Interrupted(t2)
                 \/ Wait!LockRpc(t2) \/ Wait!CopyDone(t2) \/ Wait!RecvEnd(t2))
    \/ i = 5 /\ thr[t2].ready /\ (Wait!homa_interest_wait(t2) \/ Wait!homa_wait_private(t2))
    \/ i = 6 /\ Wait!RecvShared(t2, FALSE)
    \/ i = 7 /\ Wait!EndFinish(a)
    \/ i = 8 /\ Wait!homa_rpc_reap(a)
    \/ i = 9 /\ Wait!ScanAbort
    \/ i = 10 /\ Wait!homa_unprotect_rpcs
    \/ i = 11 /\ (Wait!ShutEnd \/ Wait!ShutWake)
    \/ i = 12 /\ Wait!Live(a) /\ Wait!ShutPick(a)

XmitFair(i) ==
    \/ i = 1 /\ Xmit!ThreadStep("s1")
    \/ i = 2 /\ Xmit!ThreadStep("kthread")
    \/ i = 3 /\ Xmit!ThreadStep("softirq")
    \/ i = 4 /\ Xmit!Drain
    \/ i = 5 /\ Xmit!FinishEnd(1)
    \/ i = 6 /\ Xmit!FinishEnd(2)

QdiscFair(i) ==
    \/ i = 1 /\ Qdisc!KthreadStep /\ UNCHANGED load
    \/ i = 2 /\ Qdisc!HelperStep /\ UNCHANGED load
    \/ i = 3 /\ Qdisc!Drain /\ UNCHANGED load
    \/ i = 4 /\ Qdisc!homa_qdisc_free_homa /\ UNCHANGED load

PrioFair(i) ==
    \/ i = 1 /\ Prio!SendData
    \/ i = 2 /\ \E v \in 0 .. 8 : Prio!DataPkt(v)
    \/ i = 3 /\ \E p \in cutoffs_pkts : Prio!homa_cutoffs_pkt(p)
    \/ i = 4 /\ Prio!NextJiffy
    \/ i = 5 /\ (Prio!ReadCutoff \/ Prio!SendCutoffs)
    \/ i = 6 /\ Prio!homa_prios_changed

\* focus never changes, so weak fairness of FairStep(i) is weak fairness of
\* the i-th of these steps of the part that is explored.
FairStep(i) ==
    \/ focus = "msgin" /\ InFair(i) /\ Others("msgin")
    \/ focus = "pool" /\ PoolFair(i) /\ Others("pool")
    \/ focus = "wait" /\ WaitFair(i) /\ Others("wait")
    \/ focus = "xmit" /\ XmitFair(i) /\ Others("xmit")
    \/ focus = "qdisc" /\ QdiscFair(i) /\ Others("qdisc")
    \/ focus = "prio" /\ PrioFair(i) /\ Others("prio")

FairSpec == LiveSpec /\ \A i \in 1 .. 12 : WF_allVars(FairStep(i))

-----------------------------------------------------------------------------
(* The properties of the parts.  They hold in the initial state, in which  *)
(* a part that is not explored stays, except for those of HomaPrio.        *)

\* A response whose packets keep arriving is returned by recvmsg, unless the
\* RPC is ended.
EventuallyReturned == In!EventuallyReturned

\* An RPC that waits for buffer space gets it, or ends.
WaitersServed == Pool!WaitersServed

\* Messages are returned, shutdown wakes everybody, and what has ended is
\* freed.
ReceiversServed == Wait!ReceiversServed

\* What may be sent is sent in the end.
SentInTheEnd == Xmit!SentInTheEnd

\* Deferred packets are sent in the end.
DeferredSent == Qdisc!DeferredSent

\* A sender that keeps sending learns the current cutoffs, and always finds a
\* level.
CutoffsLearned ==
    [](focus = "prio" => Prio!CutoffsSound) /\ []<>(focus = "prio" => Prio!Learned)
=============================================================================
