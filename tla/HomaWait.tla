------------------------------ MODULE HomaWait ------------------------------
(***************************************************************************)
(* Life and delivery of the RPCs of one socket: threads in recvmsg         *)
(* (homa_wait_shared, homa_wait_private, homa_interest.c), packets that    *)
(* arrive at softirq level, aborts by the application, by the timer and by *)
(* ICMP errors, homa_rpc_end, socket shutdown and the reaper.              *)
(*                                                                         *)
(* A step is a region of code under one RPC lock or socket lock, up to the *)
(* point where the lock is released.  A message is NumPkts packets; which  *)
(* bytes they hold is the subject of HomaMsgIn.                            *)
(***************************************************************************)
EXTENDS Integers, Sequences, FiniteSets, SequencesExt

CONSTANTS
    Threads,     \* application threads that call recvmsg on the socket
    Client,      \* client RPCs
    Private,     \* those created with HOMA_SENDMSG_PRIVATE
    Server,      \* server RPCs
    NumPkts,     \* DATA packets in each incoming message
    MaxSkbs,     \* MAX_SKBS of homa_copy_to_pool
    Actor,       \* the socket has an rx_actor (homa_deliver_skbs)
    Events,      \* which of the things that need not happen do happen:
                 \* "abort", "late_abort", "scan", "shutdown", "fault", "nonblocking"
    MaxRefs,     \* bound on the references that calls for a private RPC leave behind
    NoRpc, NoThread

SockRpcs == Client \cup Server

\* What the constants must satisfy.
WaitAssumptions ==
    /\ Private \subseteq Client /\ Client \cap Server = {}
    /\ NoRpc \notin SockRpcs /\ NoThread \notin Threads
    /\ NumPkts \in Nat \ {0} /\ MaxSkbs \in Nat \ {0} /\ MaxRefs \in Nat
    /\ Actor \in BOOLEAN

VARIABLES
    rpc,         \* the struct homa_rpc of each RPC
    thr,         \* what each thread is doing, and its struct homa_interest
    ready_rpcs,  \* hsk->ready_rpcs
    interests,   \* threads whose interest is on hsk->interests
    shut,        \* progress of homa_sock_shutdown, and the RPC it looks at
    scan         \* progress of a scan of active_rpcs (timer, homa_abort_rpcs)

vars == <<rpc, thr, ready_rpcs, interests, shut, scan>>

\* hsk->shutdown, and hsk->protect_count > 0
shutdown == shut.pc # "open"
Protected == scan.pc # "idle"

NewRpc(state) ==
    [state |-> state, ending |-> FALSE, dead |-> FALSE, error |-> "none",
     length |-> -1, bytes_remaining |-> 0, packets |-> 0, pkts_ready |-> FALSE,
     num_bpages |-> 0, refs |-> 1, ready_links |-> "self", interest |-> NoThread,
     result |-> "none"]

IdleThread == [pc |-> "idle", rpc |-> NoRpc, nonblocking |-> FALSE, ready |-> FALSE]

\* Client RPCs have been created by sendmsg; no request has arrived yet.
Init ==
    /\ rpc = [r \in SockRpcs |-> NewRpc(IF r \in Client THEN "OUTGOING" ELSE "none")]
    /\ thr = [t \in Threads |-> IdleThread]
    /\ ready_rpcs = <<>>
    /\ interests = {}
    /\ shut = [pc |-> "open", rpc |-> NoRpc]
    /\ scan = [pc |-> "idle", rpc |-> NoRpc]

Live(r) == rpc[r].state \in {"OUTGOING", "INCOMING", "IN_SERVICE"}

\* In the hash bucket and on active_rpcs: homa_rpc_end unlinks the RPC some
\* time after it has set the state.
Linked(r) == Live(r) \/ rpc[r].ending

\* homa_grant_end_rpc is called, and may release the RPC lock in the middle of
\* homa_rpc_end, only if the RPC has an incoming message.
Unlocked(r) == ~(rpc[r].ending /\ rpc[r].length < 0)

-----------------------------------------------------------------------------
(* homa_rpc_handoff and homa_rpc_end *)

\* Mutant: the interest keeps its pointer to the RPC without a reference.
Handoff_NoHold(r, rec) ==
    IF r \in Private
    THEN /\ rpc' = [rpc EXCEPT ![r] = rec]
         /\ thr' = IF rec.interest = NoThread THEN thr
                   ELSE [thr EXCEPT ![rec.interest].ready = TRUE]
         /\ UNCHANGED <<ready_rpcs, interests>>
    ELSE \/ /\ ~shutdown /\ interests # {}
            /\ \E t \in interests :
                  /\ interests' = interests \ {t}
                  /\ thr' = [thr EXCEPT ![t].ready = TRUE, ![t].rpc = r]
            /\ rpc' = [rpc EXCEPT ![r] = rec]
            /\ UNCHANGED ready_rpcs
         \/ /\ ~shutdown /\ interests = {} /\ rec.ready_links = "self"
            /\ ready_rpcs' = Append(ready_rpcs, r)
            /\ rpc' = [rpc EXCEPT ![r] = [rec EXCEPT !.ready_links = "queued"]]
            /\ UNCHANGED <<thr, interests>>
         \/ /\ shutdown \/ (interests = {} /\ rec.ready_links # "self")
            /\ rpc' = [rpc EXCEPT ![r] = rec]
            /\ UNCHANGED <<thr, ready_rpcs, interests>>

\* homa_rpc_handoff for RPC r, whose fields the caller has changed to rec:
\* notify the private interest; or hand the RPC to a waiting thread (any of
\* them: homa_choose_interest looks for one on an idle core); or queue it
\* unless it is queued already.
homa_rpc_handoff(r, rec) ==
    IF r \in Private
    THEN /\ rpc' = [rpc EXCEPT ![r] = rec]
         /\ thr' = IF rec.interest = NoThread THEN thr
                   ELSE [thr EXCEPT ![rec.interest].ready = TRUE]
         /\ UNCHANGED <<ready_rpcs, interests>>
    ELSE \/ /\ ~shutdown /\ interests # {}
            /\ \E t \in interests :
                  /\ interests' = interests \ {t}
                  /\ thr' = [thr EXCEPT ![t].ready = TRUE, ![t].rpc = r]
            /\ rpc' = [rpc EXCEPT ![r] = [rec EXCEPT !.refs = @ + 1]]
            /\ UNCHANGED ready_rpcs
         \/ /\ ~shutdown /\ interests = {} /\ rec.ready_links = "self"
            /\ ready_rpcs' = Append(ready_rpcs, r)
            /\ rpc' = [rpc EXCEPT ![r] = [rec EXCEPT !.ready_links = "queued"]]
            /\ UNCHANGED <<thr, interests>>
         \/ /\ shutdown \/ (interests = {} /\ rec.ready_links # "self")
            /\ rpc' = [rpc EXCEPT ![r] = rec]
            /\ UNCHANGED <<thr, ready_rpcs, interests>>

\* The first part of homa_rpc_end.  homa_grant_end_rpc may release the RPC lock
\* before the second part.
EndBegin(rec) ==
    IF rec.state = "DEAD" THEN rec
    ELSE [rec EXCEPT !.state = "DEAD", !.error = "EINVAL", !.ending = TRUE]

\* The rest of homa_rpc_end, under the socket lock.  __list_del_entry takes the
\* RPC off ready_rpcs but leaves its own pointers as they were.
EndFinish(r) ==
    /\ rpc[r].ending
    /\ rpc' = [rpc EXCEPT ![r].ending = FALSE, ![r].dead = TRUE,
                          ![r].ready_links = IF @ = "queued" THEN "stale" ELSE @]
    /\ ready_rpcs' = SelectSeq(ready_rpcs, LAMBDA x : x # r)
    /\ thr' = IF rpc[r].interest = NoThread THEN thr
              ELSE [thr EXCEPT ![rpc[r].interest].ready = TRUE]
    /\ UNCHANGED <<interests, shut, scan>>

\* homa_rpc_abort for RPC r: a server RPC ends; a client RPC gets the error and
\* is handed off.
homa_rpc_abort(r) ==
    IF r \in Server
    THEN /\ rpc' = [rpc EXCEPT ![r] = EndBegin(@)]
         /\ UNCHANGED <<thr, ready_rpcs, interests>>
    ELSE homa_rpc_handoff(r, [rpc[r] EXCEPT !.error = "abort"])

-----------------------------------------------------------------------------
(* Softirq level: packets for the RPC.  After shutdown the socket is no       *)
(* longer found.                                                              *)

\* homa_rpc_alloc_server: the first packet of a request creates the RPC and
\* hands it off, whether at once or in homa_data_pkt.  homa_data_pkt, which
\* follows under the same lock, queues the packet; but if the packet carries an
\* ack it releases the lock first, and the RPC is seen without the packet.
homa_rpc_alloc_server(r) ==
    /\ ~shutdown /\ r \in Server /\ rpc[r].state = "none"
    /\ \E queued \in {0, 1} :
          homa_rpc_handoff(r, [rpc[r] EXCEPT !.state = "INCOMING", !.length = NumPkts,
                                 !.bytes_remaining = NumPkts - queued, !.packets = queued,
                                 !.num_bpages = 1, !.pkts_ready = TRUE])
    /\ UNCHANGED <<shut, scan>>

\* The RPC after homa_message_in_init, if this is the first packet of a response.
Started(rec) ==
    IF rec.state = "OUTGOING"
    THEN [rec EXCEPT !.state = "INCOMING", !.length = NumPkts, !.bytes_remaining = NumPkts,
                     !.num_bpages = 1]
    ELSE rec

\* homa_data_pkt for a new packet of the message: it is queued, and the RPC is
\* handed off unless RPC_PKTS_READY says that this has been done.
homa_data_pkt(r) ==
    LET rec == Started(rpc[r])
        rec2 == [rec EXCEPT !.bytes_remaining = @ - 1, !.packets = @ + 1]
    IN  /\ ~shutdown
        /\ rpc[r].state = "INCOMING" \/ (r \in Client /\ rpc[r].state = "OUTGOING")
        /\ rec.bytes_remaining > 0 /\ rec.num_bpages > 0
        /\ IF rec.pkts_ready
           THEN /\ rpc' = [rpc EXCEPT ![r] = rec2]
                /\ UNCHANGED <<thr, ready_rpcs, interests>>
           ELSE homa_rpc_handoff(r, [rec2 EXCEPT !.pkts_ready = TRUE])
        /\ UNCHANGED <<shut, scan>>

\* homa_rpc_acked, homa_ack_pkt and homa_rpc_unknown_pkt end a server RPC.
homa_rpc_acked(r) ==
    /\ ~shutdown /\ r \in Server /\ Live(r)
    /\ rpc' = [rpc EXCEPT ![r] = EndBegin(@)]
    /\ UNCHANGED <<thr, ready_rpcs, interests, shut, scan>>

-----------------------------------------------------------------------------
(* Aborts *)

\* homa_ioc_abort for one client RPC: with an error the RPC is aborted,
\* without one it ends.
homa_ioc_abort(r) ==
    /\ r \in Client /\ Linked(r) /\ Unlocked(r)
    /\ (IF Live(r) THEN "abort" ELSE "late_abort") \in Events
    /\ \/ homa_rpc_abort(r)
       \/ rpc' = [rpc EXCEPT ![r] = EndBegin(@)] /\ UNCHANGED <<thr, ready_rpcs, interests>>
    /\ UNCHANGED <<shut, scan>>

\* homa_protect_rpcs
homa_protect_rpcs ==
    /\ "scan" \in Events /\ scan.pc = "idle" /\ ~shutdown
    /\ scan' = [scan EXCEPT !.pc = "scan"]
    /\ UNCHANGED <<rpc, thr, ready_rpcs, interests, shut>>

\* The scan reaches RPC r on active_rpcs; its lock is not yet held.
ScanPick(r) ==
    /\ scan.pc = "scan" /\ Linked(r)
    /\ scan' = [pc |-> "at", rpc |-> r]
    /\ UNCHANGED <<rpc, thr, ready_rpcs, interests, shut>>

\* homa_abort_rpcs, or homa_timer for an RPC that has timed out: neither looks
\* at the state.  (Whether an RPC that is ending is met is up to Events.)
ScanAbort ==
    /\ scan.pc = "at" /\ Unlocked(scan.rpc)
    /\ scan' = [pc |-> "scan", rpc |-> NoRpc]
    /\ IF Live(scan.rpc) \/ "late_abort" \in Events THEN homa_rpc_abort(scan.rpc)
       ELSE UNCHANGED <<rpc, thr, ready_rpcs, interests>>
    /\ UNCHANGED shut

\* homa_abort_sock_rpcs skips RPCs that are dead, and server RPCs.
homa_abort_sock_rpcs ==
    LET r == scan.rpc
    IN  /\ scan.pc = "at" /\ Unlocked(r)
        /\ scan' = [pc |-> "scan", rpc |-> NoRpc]
        /\ \/ Live(r) /\ r \in Client /\ homa_rpc_abort(r)
           \/ /\ rpc' = IF Live(r) /\ r \in Client THEN [rpc EXCEPT ![r] = EndBegin(@)] ELSE rpc
              /\ UNCHANGED <<thr, ready_rpcs, interests>>
        /\ UNCHANGED shut

homa_unprotect_rpcs ==
    /\ scan.pc = "scan"
    /\ scan' = [scan EXCEPT !.pc = "idle"]
    /\ UNCHANGED <<rpc, thr, ready_rpcs, interests, shut>>

-----------------------------------------------------------------------------
(* homa_recvmsg *)

\* The thread returns to the application: homa_rpc_put and homa_rpc_unlock.
RecvDone(t, rec) ==
    /\ rpc' = [rpc EXCEPT ![thr[t].rpc] = [rec EXCEPT !.refs = @ - 1]]
    /\ thr' = [thr EXCEPT ![t] = IdleThread]

\* Mutant: a client RPC does not end when its response is returned.
RecvResult_NoEnd(t, rec) ==
    RecvDone(t, [rec EXCEPT !.num_bpages = 0, !.result = IF rec.error = "none" THEN "ok" ELSE rec.error])

\* The end of homa_recvmsg for an RPC that is ready: the application gets the
\* result and the buffers; a client RPC, or one with an error, ends.
RecvResult(t, rec) ==
    LET rec2 == [rec EXCEPT !.num_bpages = 0, !.result = IF rec.error = "none" THEN "ok" ELSE rec.error]
    IN  IF thr[t].rpc \in Client \/ rec.error # "none"
        THEN /\ rpc' = [rpc EXCEPT ![thr[t].rpc] = EndBegin(rec2)]
             /\ thr' = [thr EXCEPT ![t].pc = "end"]
        ELSE RecvDone(t, [rec2 EXCEPT !.state = "IN_SERVICE"])

Complete(rec) == rec.bytes_remaining = 0 /\ rec.packets = 0

\* The part of the loop in homa_wait_shared that follows the copy.
SharedResult(t, rec) ==
    IF (rec.error # "none" /\ rec.state # "DEAD") \/ (rec.error = "none" /\ Complete(rec))
    THEN RecvResult(t, rec)
    ELSE /\ rpc' = [rpc EXCEPT ![thr[t].rpc] = [rec EXCEPT !.refs = @ - 1]]
         /\ thr' = [thr EXCEPT ![t] = [IdleThread EXCEPT !.pc = "shared",
                                          !.nonblocking = thr[t].nonblocking]]

\* The part of the loop in homa_wait_private that follows the copy, with
\* homa_interest_init_private.  homa_recvmsg drops one of the two references.
PrivateResult(t, rec) ==
    IF rec.error = "none" /\ rec.length >= 0 /\ Complete(rec) THEN RecvResult(t, rec)
    ELSE IF rec.error # "none" \/ thr[t].nonblocking \/ rec.interest # NoThread THEN RecvDone(t, rec)
    ELSE /\ rpc' = [rpc EXCEPT ![thr[t].rpc] = [rec EXCEPT !.interest = t]]
         /\ thr' = [thr EXCEPT ![t].pc = "pwait", ![t].ready = FALSE]

CopyResult(t, rec) == IF thr[t].rpc \in Private THEN PrivateResult(t, rec) ELSE SharedResult(t, rec)

\* The thread takes n packets off the queue and releases the RPC lock to copy them.
StartCopy(t, rec, n) ==
    /\ rpc' = [rpc EXCEPT ![thr[t].rpc] = [rec EXCEPT !.packets = @ - n]]
    /\ thr' = [thr EXCEPT ![t].pc = "copying"]

\* homa_copy_to_pool, from the top of its loop, under the RPC lock.  Its result
\* is assigned to rpc->error.
homa_copy_to_pool(t, rec) ==
    IF rec.state = "DEAD" THEN CopyResult(t, [rec EXCEPT !.error = "EINVAL"])
    ELSE IF rec.packets > 0
    THEN StartCopy(t, rec, IF rec.packets < MaxSkbs THEN rec.packets ELSE MaxSkbs)
    ELSE CopyResult(t, [rec EXCEPT !.pkts_ready = FALSE, !.error = "none"])

\* homa_deliver_skbs up to the point where it releases the RPC lock.
homa_deliver_skbs(t, rec) ==
    IF rec.state = "DEAD" THEN CopyResult(t, [rec EXCEPT !.error = "EINVAL"])
    ELSE IF rec.length >= 0 /\ rec.bytes_remaining = 0 /\ rec.packets > 0
    THEN StartCopy(t, [rec EXCEPT !.pkts_ready = FALSE, !.refs = @ + 1], rec.packets)
    ELSE CopyResult(t, [rec EXCEPT !.pkts_ready = FALSE, !.error = "none"])

\* The thread acquires the lock of its RPC at the top of the loop.
LockRpc(t) ==
    LET rec == rpc[thr[t].rpc]
    IN  /\ thr[t].pc = "lock" /\ Unlocked(thr[t].rpc)
        /\ IF rec.error # "none" THEN CopyResult(t, rec)
           ELSE IF Actor THEN homa_deliver_skbs(t, rec) ELSE homa_copy_to_pool(t, rec)
        /\ UNCHANGED <<ready_rpcs, interests, shut, scan>>

\* The thread has copied a batch, or failed to, and acquires the lock again.
CopyDone(t) ==
    LET rec == rpc[thr[t].rpc]
        put == [rec EXCEPT !.refs = @ - 1]
    IN  /\ thr[t].pc = "copying" /\ Unlocked(thr[t].rpc)
        /\ IF ~Actor
           THEN \/ homa_copy_to_pool(t, rec)
                \/ "fault" \in Events /\ CopyResult(t, [rec EXCEPT !.error = "EFAULT"])
           ELSE \E err \in {"none"} \cup (IF "fault" \in Events THEN {"EFAULT"} ELSE {}) :
                  IF rec.state = "DEAD"
                  THEN CopyResult(t, [put EXCEPT !.error = IF err = "none" THEN "EINVAL" ELSE err])
                  ELSE CopyResult(t, [put EXCEPT !.num_bpages = 0, !.error = err])
        /\ UNCHANGED <<ready_rpcs, interests, shut, scan>>

\* homa_rpc_end has returned; the end of homa_recvmsg.
RecvEnd(t) ==
    /\ thr[t].pc = "end" /\ ~rpc[thr[t].rpc].ending
    /\ RecvDone(t, rpc[thr[t].rpc])
    /\ UNCHANGED <<ready_rpcs, interests, shut, scan>>

\* A thread calls recvmsg for any RPC that is not private.
RecvShared(t, nonblocking) ==
    /\ thr[t].pc = "idle"
    /\ thr' = [thr EXCEPT ![t].pc = "shared", ![t].nonblocking = nonblocking]
    /\ UNCHANGED <<rpc, ready_rpcs, interests, shut, scan>>

\* The top of the loop in homa_wait_shared, under the socket lock.
homa_wait_shared(t) ==
    /\ thr[t].pc = "shared"
    /\ \/ /\ shutdown \/ (ready_rpcs = <<>> /\ thr[t].nonblocking)
          /\ thr' = [thr EXCEPT ![t] = IdleThread]
          /\ UNCHANGED <<rpc, ready_rpcs, interests>>
       \/ /\ ~shutdown /\ ready_rpcs # <<>>
          /\ LET r == Head(ready_rpcs)
             IN  /\ rpc' = [rpc EXCEPT ![r].refs = @ + 1, ![r].ready_links = "self"]
                 /\ thr' = [thr EXCEPT ![t].pc = "lock", ![t].rpc = r]
          /\ ready_rpcs' = Tail(ready_rpcs)
          /\ UNCHANGED interests
       \/ /\ ~shutdown /\ ready_rpcs = <<>> /\ ~thr[t].nonblocking
          /\ thr' = [thr EXCEPT ![t].pc = "wait", ![t].ready = FALSE]
          /\ interests' = interests \cup {t}
          /\ UNCHANGED <<rpc, ready_rpcs>>
    /\ UNCHANGED <<shut, scan>>

\* Where a thread goes when its interest is ready: to the RPC it was handed, or
\* back to the application with ESHUTDOWN.
Woken(t) == [thr EXCEPT ![t] = IF @.rpc = NoRpc THEN IdleThread ELSE [@ EXCEPT !.pc = "lock", !.ready = FALSE]]

\* homa_interest_wait returns: the interest is ready, or a signal has arrived.
homa_interest_wait(t) ==
    /\ thr[t].pc = "wait"
    /\ thr' = IF thr[t].ready THEN Woken(t) ELSE [thr EXCEPT ![t].pc = "intr"]
    /\ UNCHANGED <<rpc, ready_rpcs, interests, shut, scan>>

\* Mutant: a handoff that came in before the socket was locked is not seen.
Interrupted_NoRecheck(t) ==
    /\ thr[t].pc = "intr"
    /\ interests' = interests \ {t}
    /\ thr' = [thr EXCEPT ![t] = IdleThread]
    /\ UNCHANGED <<rpc, ready_rpcs, shut, scan>>

\* After a signal, under the socket lock: a handoff may have come in meanwhile.
Interrupted(t) ==
    /\ thr[t].pc = "intr"
    /\ interests' = interests \ {t}
    /\ thr' = IF thr[t].ready THEN Woken(t) ELSE [thr EXCEPT ![t] = IdleThread]
    /\ UNCHANGED <<rpc, ready_rpcs, shut, scan>>

\* A thread calls recvmsg for private RPC r (homa_rpc_find_client).  homa_recvmsg
\* and homa_wait_private both call homa_rpc_hold.
RecvPrivate(t, r, nonblocking) ==
    /\ thr[t].pc = "idle" /\ r \in Private /\ Linked(r) /\ Unlocked(r)
    /\ rpc[r].refs < MaxRefs
    /\ thr' = [thr EXCEPT ![t] = [@ EXCEPT !.pc = "lock", !.rpc = r, !.nonblocking = nonblocking]]
    /\ rpc' = [rpc EXCEPT ![r].refs = @ + 2]
    /\ UNCHANGED <<ready_rpcs, interests, shut, scan>>

\* homa_interest_wait returns in homa_wait_private: the interest is unlinked
\* under the RPC lock; a signal counts only if the interest is not ready.
homa_wait_private(t) ==
    LET r == thr[t].rpc
    IN  /\ thr[t].pc = "pwait" /\ Unlocked(r)
        /\ IF thr[t].ready
           THEN /\ rpc' = [rpc EXCEPT ![r].interest = NoThread]
                /\ thr' = [thr EXCEPT ![t].pc = "lock", ![t].ready = FALSE]
           ELSE RecvDone(t, [rpc[r] EXCEPT !.interest = NoThread])
        /\ UNCHANGED <<ready_rpcs, interests, shut, scan>>

-----------------------------------------------------------------------------
(* Shutdown and reaping *)

\* homa_sock_shutdown: the shutdown flag is set and the socket unlinked.
homa_sock_shutdown ==
    /\ "shutdown" \in Events /\ shut.pc = "open"
    /\ shut' = [shut EXCEPT !.pc = "scan"]
    /\ UNCHANGED <<rpc, thr, ready_rpcs, interests, scan>>

\* Its scan of active_rpcs reaches RPC r; then it locks and ends it.
ShutPick(r) ==
    /\ shut.pc = "scan" /\ Linked(r)
    /\ shut' = [pc |-> "at", rpc |-> r]
    /\ UNCHANGED <<rpc, thr, ready_rpcs, interests, scan>>

ShutEnd ==
    /\ shut.pc = "at" /\ Unlocked(shut.rpc)
    /\ shut' = [pc |-> "scan", rpc |-> NoRpc]
    /\ rpc' = IF rpc[shut.rpc].state = "freed" THEN rpc
              ELSE [rpc EXCEPT ![shut.rpc] = EndBegin(@)]
    /\ UNCHANGED <<thr, ready_rpcs, interests, scan>>

\* Mutant: threads that wait for any RPC are left waiting.
ShutWake_NoWakeup ==
    /\ shut.pc = "scan" /\ \A r \in SockRpcs : ~Live(r)
    /\ shut' = [shut EXCEPT !.pc = "done"]
    /\ UNCHANGED <<rpc, thr, ready_rpcs, interests, scan>>

\* No RPC is left on active_rpcs: all waiting threads are woken.
ShutWake ==
    /\ shut.pc = "scan" /\ \A r \in SockRpcs : ~Live(r)
    /\ shut' = [shut EXCEPT !.pc = "done"]
    /\ interests' = {}
    /\ thr' = [t \in Threads |-> IF t \in interests THEN [thr[t] EXCEPT !.ready = TRUE] ELSE thr[t]]
    /\ UNCHANGED <<rpc, ready_rpcs, scan>>

\* homa_rpc_reap frees a dead RPC.
homa_rpc_reap(r) ==
    /\ rpc[r].dead /\ rpc[r].refs = 1 /\ ~Protected
    /\ rpc' = [rpc EXCEPT ![r] = [NewRpc("freed") EXCEPT !.result = rpc[r].result]]
    /\ UNCHANGED <<thr, ready_rpcs, interests, shut, scan>>

-----------------------------------------------------------------------------

ThreadStep(t) ==
    \/ homa_wait_shared(t) \/ homa_interest_wait(t) \/ Interrupted(t)
    \/ LockRpc(t) \/ CopyDone(t) \/ RecvEnd(t) \/ homa_wait_private(t)

Recv(t) ==
    \E nonblocking \in {FALSE} \cup (IF "nonblocking" \in Events THEN {TRUE} ELSE {}) :
        RecvShared(t, nonblocking) \/ \E r \in Private : RecvPrivate(t, r, nonblocking)

Packet(r) == homa_rpc_alloc_server(r) \/ homa_data_pkt(r) \/ homa_rpc_acked(r)

Scan == ScanAbort \/ homa_abort_sock_rpcs \/ homa_unprotect_rpcs \/ homa_protect_rpcs
        \/ \E r \in SockRpcs : ScanPick(r)

Shutdown == homa_sock_shutdown \/ ShutEnd \/ ShutWake \/ \E r \in SockRpcs : ShutPick(r)

Next ==
    \/ \E t \in Threads : ThreadStep(t) \/ Recv(t)
    \/ \E r \in SockRpcs : Packet(r) \/ homa_ioc_abort(r) \/ EndFinish(r) \/ homa_rpc_reap(r)
    \/ Scan \/ Shutdown

Spec == Init /\ [][Next]_vars

\* Fairness.  Threads that run keep running and call recvmsg again; a scan of
\* the RPCs ends; homa_rpc_reap is called again and again by waiting threads
\* and by the timer, also at times when no scan is under way.  No packet, abort
\* or signal need ever arrive.
Fairness ==
    /\ \A t \in Threads :
          /\ WF_vars(homa_wait_shared(t) \/ Interrupted(t) \/ LockRpc(t) \/ CopyDone(t) \/ RecvEnd(t))
          /\ WF_vars(thr[t].ready /\ (homa_interest_wait(t) \/ homa_wait_private(t)))
          /\ WF_vars(RecvShared(t, FALSE))
    /\ \A r \in SockRpcs : WF_vars(EndFinish(r)) /\ WF_vars(homa_rpc_reap(r))
    /\ WF_vars(ScanAbort) /\ WF_vars(homa_unprotect_rpcs)
    /\ WF_vars(ShutEnd \/ ShutWake) /\ WF_vars(\E r \in SockRpcs : Live(r) /\ ShutPick(r))

FairSpec == Spec /\ Fairness

-----------------------------------------------------------------------------
(* Correctness *)

\* Every variable keeps its type; in particular no reference is dropped twice.
WaitTypeOK ==
    /\ rpc \in [SockRpcs -> [state : {"none", "OUTGOING", "INCOMING", "IN_SERVICE", "DEAD", "freed"},
                             ending : BOOLEAN, dead : BOOLEAN,
                             error : {"none", "abort", "EINVAL", "EFAULT"},
                             length : {-1, NumPkts}, bytes_remaining : 0 .. NumPkts, packets : 0 .. NumPkts,
                             pkts_ready : BOOLEAN, num_bpages : {0, 1}, refs : Nat \ {0},
                             ready_links : {"self", "queued", "stale"},
                             interest : Threads \cup {NoThread},
                             result : {"none", "ok", "abort", "EFAULT"}]]
    /\ thr \in [Threads -> [pc : {"idle", "shared", "wait", "intr", "lock", "copying", "end", "pwait"},
                            rpc : SockRpcs \cup {NoRpc}, nonblocking : BOOLEAN, ready : BOOLEAN]]
    /\ ready_rpcs \in Seq(SockRpcs) /\ interests \subseteq Threads
    /\ shut \in [pc : {"open", "scan", "at", "done"}, rpc : SockRpcs \cup {NoRpc}]
    /\ scan \in [pc : {"idle", "scan", "at"}, rpc : SockRpcs \cup {NoRpc}]

\* Threads that use RPC r: a reference is held for each of them.
Users(r) == {t \in Threads : thr[t].rpc = r}

\* Nothing waits for attention unattended: a handoff and the registration of
\* an interest never miss each other, so no thread sleeps on hsk->interests
\* while an RPC is queued on ready_rpcs.  A thread that sleeps on a private
\* RPC has nothing to do: no packet is queued, the RPC has neither failed nor
\* ended.  While RPC_PKTS_READY is set or an error is recorded for another RPC,
\* the RPC is queued on ready_rpcs or some thread has it and has yet to look.
Attended ==
    /\ ~shutdown => interests = {} \/ ready_rpcs = <<>>
    /\ \A t \in Threads : thr[t].pc = "pwait" /\ ~thr[t].ready =>
          LET rec == rpc[thr[t].rpc]
          IN  rec.ending \/ (rec.packets = 0 /\ rec.error = "none")
    /\ \A r \in SockRpcs \ Private : Live(r) /\ ~shutdown =>
          /\ rpc[r].packets > 0 /\ (Actor => rpc[r].bytes_remaining = 0) => rpc[r].pkts_ready
          /\ (rpc[r].pkts_ready \/ rpc[r].error # "none") /\ rpc[r].state # "IN_SERVICE" =>
                \/ r \in ToSet(ready_rpcs)
                \/ \E t \in Users(r) : thr[t].pc \in {"wait", "intr", "lock", "copying"}

\* The documentation of homa_rpc.refs: one reference for the socket and one for
\* each thread that uses the RPC (another while homa_deliver_skbs has released
\* its lock), for an RPC that is not private.  So the reaper frees an RPC only
\* when no thread, no list and no scan that called homa_protect_rpcs can still
\* reach it.
RpcRefsExact ==
    /\ \A r \in SockRpcs : rpc[r].state = "freed" =>
          Users(r) = {} /\ r \notin ToSet(ready_rpcs) /\ scan.rpc # r
    /\ \A r \in SockRpcs \ Private :
        rpc[r].refs = 1 + Cardinality(Users(r))
                      + (IF Actor THEN Cardinality({t \in Users(r) : thr[t].pc = "copying"}) ELSE 0)

\* homa_wait_shared returns an RPC "with a complete incoming message or nonzero
\* error field": recvmsg reports success only for a message all of whose packets
\* have arrived and have been copied out, with no copy of it still in progress.
ReturnedWhole ==
    \A r \in SockRpcs : rpc[r].result = "ok" /\ rpc[r].state # "freed" =>
        /\ rpc[r].length >= 0 /\ rpc[r].bytes_remaining = 0 /\ rpc[r].packets = 0
        /\ \A t \in Threads : ~(thr[t].rpc = r /\ thr[t].pc = "copying")

\* An RPC is returned to the application at most once, whichever threads were
\* handed the RPC or found it on ready_rpcs, and where homa_deliver_skbs does
\* not compete with aborts it is whole.
ReturnsOnce ==
    /\ \A r \in SockRpcs : rpc[r].result # "none" => rpc'[r].result = rpc[r].result
    /\ Actor => ReturnedWhole'

\* A complete message of a shared RPC is returned by some recvmsg, unless the
\* RPC or the socket ends first.
MessageReturned ==
    \A r \in SockRpcs \ Private :
        []<>~(rpc[r].state = "INCOMING" /\ rpc[r].bytes_remaining = 0 /\ ~shutdown)

\* Shutdown wakes every thread that waits for a message on the socket.
ShutdownWakesAll ==
    \A t \in Threads : []<>~(shutdown /\ thr[t].pc \in {"wait", "pwait"})

\* homa_rpc_end: "this process will continue in the background until
\* homa_rpc_reap eventually completes it".
DeadReaped == \A r \in SockRpcs : []<>(rpc[r].state # "DEAD")

\* The receiving threads make progress: messages are returned, shutdown wakes
\* everybody, and what has ended is freed.
ReceiversServed == MessageReturned /\ ShutdownWakesAll /\ DeadReaped

\* homa_rpc_end: "Unlink from all lists, so no-one will ever find this RPC again".
DeadUnlinked == \A r \in SockRpcs : rpc[r].dead \/ rpc[r].state = "freed" => r \notin ToSet(ready_rpcs)
=============================================================================
