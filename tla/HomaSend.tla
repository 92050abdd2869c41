------------------------------ MODULE HomaSend ------------------------------
(***************************************************************************)
(* Sending: homa_sendmsg (in its four variants: a caller in user space or  *)
(* in the kernel, a connected socket or not), the creation of the packets  *)
(* of a message, and the limit on a socket's transmit memory.              *)
(*                                                                         *)
(* A sender that finds the socket over its limit waits in                  *)
(* homa_sock_wait_wmem; homa_rpc_reap frees memory and wakes the waiting   *)
(* threads.  The RPC lock is released while data is copied, so the RPC can *)
(* end in the middle: a step of a sender is what happens between two       *)
(* moments at which the lock is free.  A packet costs one unit of memory.  *)
(*                                                                         *)
(* A setting (an element of SendConfigs) says which senders wait (block),  *)
(* how often each sends (sends), whether the socket is shut down           *)
(* (shutdown), connected (connect) and polled (poll), whether the callers  *)
(* are in user space (user), whether signals arrive (signals), and whether *)
(* some thread reaps after a shutdown (receiver), as every homa_recvmsg    *)
(* does.                                                                   *)
(***************************************************************************)
EXTENDS Integers, FiniteSetsExt

CONSTANTS Senders,      \* threads in homa_sendmsg
          Clients,      \* client RPCs that exist at a time, as numbers
          Servers,      \* server RPCs, whose requests have been received
          Packets,      \* number of packets of a message
          Sndbuf,       \* sk_sndbuf, in packets
          SendConfigs   \* the settings

VARIABLES wconf,        \* the setting
          out_rpc,      \* the RPCs
          out_thread,   \* the senders
          hsk,          \* the socket
          poller,       \* a thread in poll: "idle", "checked" or "sleep"
          reaper        \* "idle", or "wake": homa_rpc_reap has yet to wake waiters

sendVars == <<wconf, out_rpc, out_thread, hsk, poller, reaper>>

OutRpcs == Clients \cup Servers
NoRpc == 0

Unused == [state |-> "none", refs |-> 0, num_skbs |-> 0, charged |-> FALSE, dest |-> "none"]
Idle == [pc |-> "idle", rpc |-> NoRpc, user |-> FALSE, path |-> FALSE, left |-> 0, skb |-> 0,
         sends |-> 0]

Init == /\ wconf \in SendConfigs
        /\ out_rpc = [r \in OutRpcs |-> IF r \in Servers
                                        THEN [Unused EXCEPT !.state = "IN_SERVICE", !.refs = 1]
                                        ELSE Unused]
        /\ out_thread = [t \in Senders |-> Idle]
        /\ hsk = [wmem |-> 0, nospace |-> FALSE, shutdown |-> FALSE, connected |-> FALSE,
                  target |-> "none", dead_skbs |-> 0, skbs |-> 0]
        /\ poller = "idle"
        /\ reaper = "idle"

homa_sock_wmem_avl == hsk.wmem < Sndbuf

(***************************************************************************)
(* The end of an RPC, and of a system call.                                *)
(***************************************************************************)
homa_rpc_end(k) == [k EXCEPT !.state = "DEAD"]

DeadSkbs(k) == IF k.state = "DEAD" THEN 0 ELSE k.num_skbs

Return(t) == out_thread' = [out_thread EXCEPT ![t] = [Idle EXCEPT !.sends = out_thread[t].sends + 1]]

(***************************************************************************)
(* homa_sendmsg up to the memory check, and homa_sock_wait_wmem.           *)
(***************************************************************************)
StartSend(t, user, connected) ==
    /\ out_thread[t].pc = "idle"
    /\ out_thread[t].sends < wconf.sends[t]
    /\ out_thread' = [out_thread EXCEPT ![t].user = user, ![t].path = connected,
                                        ![t].pc = IF homa_sock_wmem_avl THEN "find" ELSE "nospace"]
    /\ UNCHANGED <<wconf, out_rpc, hsk, poller, reaper>>

homa_sendmsg_user_unconnected(t) == wconf.user /\ ~hsk.connected /\ StartSend(t, TRUE, FALSE)

homa_sendmsg_user_connected(t) == wconf.user /\ hsk.connected /\ StartSend(t, TRUE, TRUE)

homa_sendmsg_in_kernel_connected(t) == ~wconf.user /\ hsk.connected /\ StartSend(t, FALSE, TRUE)

homa_sendmsg_in_kernel_unconnected(t) == ~wconf.user /\ ~hsk.connected /\ StartSend(t, FALSE, FALSE)

homa_sendmsg(t) == \/ homa_sendmsg_user_unconnected(t)
                   \/ homa_sendmsg_user_connected(t)
                   \/ homa_sendmsg_in_kernel_connected(t)
                   \/ homa_sendmsg_in_kernel_unconnected(t)

SetNospace(t) ==
    /\ out_thread[t].pc = "nospace"
    /\ hsk' = [hsk EXCEPT !.nospace = TRUE]
    /\ out_thread' = [out_thread EXCEPT ![t].pc = "check"]
    /\ UNCHANGED <<wconf, out_rpc, poller, reaper>>

homa_sock_wait_wmem(t) ==
    /\ out_thread[t].pc = "check"
    /\ LET ready == homa_sock_wmem_avl \/ hsk.shutdown
       IN \/ /\ ready
             /\ out_thread' = [out_thread EXCEPT ![t].pc = "find"]
          \/ /\ ~ready
             /\ t \in wconf.block
             /\ out_thread' = [out_thread EXCEPT ![t].pc = "sleep"]
          \/ /\ ~ready
             /\ t \notin wconf.block
             /\ Return(t)
    /\ UNCHANGED <<wconf, out_rpc, hsk, poller, reaper>>

Signal(t) ==
    /\ wconf.signals
    /\ out_thread[t].pc = "sleep"
    /\ Return(t)
    /\ UNCHANGED <<wconf, out_rpc, hsk, poller, reaper>>

(***************************************************************************)
(* Finding the RPC: homa_rpc_alloc_client for a request (it refuses after  *)
(* a shutdown), homa_rpc_find_server for a response.  A reference is taken *)
(* before the RPC lock is released.                                        *)
(***************************************************************************)
Target(t) == IF out_thread[t].path THEN hsk.target ELSE "named"

Held(k) == [k EXCEPT !.refs = @ + 1]

homa_rpc_alloc_client(t) ==
    /\ out_thread[t].pc = "find"
    /\ \/ /\ hsk.shutdown
          /\ Return(t)
          /\ UNCHANGED out_rpc
       \/ /\ ~hsk.shutdown
          /\ \E r \in Clients :
                /\ out_rpc[r].state = "none"
                /\ \A q \in Clients : out_rpc[q].state = "none" => r <= q
                /\ out_rpc' = [out_rpc EXCEPT ![r] =
                       Held([Unused EXCEPT !.state = "OUTGOING", !.refs = 1, !.dest = Target(t)])]
                /\ out_thread' = [out_thread EXCEPT ![t].pc = "copy", ![t].rpc = r,
                                                    ![t].left = Packets]
    /\ UNCHANGED <<wconf, hsk, poller, reaper>>

CanReply(k) == k.state = "IN_SERVICE"

SendReply(t, r) ==
    /\ out_thread[t].pc = "find"
    /\ \/ /\ ~CanReply(out_rpc[r])
          /\ Return(t)
          /\ UNCHANGED out_rpc
       \/ /\ CanReply(out_rpc[r])
          /\ out_rpc' = [out_rpc EXCEPT ![r] = [Held(@) EXCEPT !.state = "OUTGOING"]]
          /\ out_thread' = [out_thread EXCEPT ![t].pc = "copy", ![t].rpc = r, ![t].left = Packets]
    /\ UNCHANGED <<wconf, hsk, poller, reaper>>

(***************************************************************************)
(* homa_message_out_fill.  Without the RPC lock it allocates a packet and  *)
(* copies data into it (homa_tx_data_pkt_alloc); with the lock it links    *)
(* the packet, or frees it if the RPC has died.  The memory is charged to  *)
(* the socket once, at the end or when the call fails.                     *)
(***************************************************************************)
homa_tx_data_pkt_alloc(t) ==
    /\ out_thread[t].pc = "copy"
    /\ \/ /\ out_thread' = [out_thread EXCEPT ![t].pc = "link", ![t].skb = 1]
          /\ hsk' = [hsk EXCEPT !.skbs = @ + 1]
       \/ /\ out_thread' = [out_thread EXCEPT ![t].pc = "fail"]
          /\ UNCHANGED hsk
    /\ UNCHANGED <<wconf, out_rpc, poller, reaper>>

Charged(k) == [k EXCEPT !.charged = TRUE]

LinkPacket(t) ==
    LET r == out_thread[t].rpc
        k == [out_rpc[r] EXCEPT !.num_skbs = @ + 1]
    IN /\ out_thread[t].pc = "link"
       /\ out_rpc[r].state # "DEAD"
       /\ \/ /\ out_thread[t].left > 1
             /\ out_thread' = [out_thread EXCEPT ![t].pc = "copy", ![t].left = @ - 1, ![t].skb = 0]
             /\ out_rpc' = [out_rpc EXCEPT ![r] = k]
             /\ UNCHANGED hsk
          \/ /\ out_thread[t].left = 1
             /\ out_thread' = [out_thread EXCEPT ![t].pc = "report", ![t].left = 0, ![t].skb = 0]
             /\ out_rpc' = [out_rpc EXCEPT ![r] = Charged(k)]
             /\ hsk' = [hsk EXCEPT !.wmem = @ + k.num_skbs]
       /\ UNCHANGED <<wconf, poller, reaper>>

(* Mutant: the packet of a dead RPC is not freed.                          *)
FoundDeadLeaks(t) ==
    /\ out_thread[t].pc = "link"
    /\ out_rpc[out_thread[t].rpc].state = "DEAD"
    /\ out_thread' = [out_thread EXCEPT ![t].pc = "fail", ![t].skb = 0]
    /\ UNCHANGED <<wconf, out_rpc, hsk, poller, reaper>>

FoundDead(t) ==
    /\ out_thread[t].pc = "link"
    /\ out_rpc[out_thread[t].rpc].state = "DEAD"
    /\ out_thread' = [out_thread EXCEPT ![t].pc = "fail", ![t].skb = 0]
    /\ hsk' = [hsk EXCEPT !.skbs = @ - 1]
    /\ UNCHANGED <<wconf, out_rpc, poller, reaper>>

(***************************************************************************)
(* The error exit: the memory of the linked packets is charged and the RPC *)
(* is ended.  The normal exit of a request first stores the new id in the  *)
(* caller's arguments, without the lock; it ends the RPC if that fails,    *)
(* which only happens for arguments in user space.                         *)
(***************************************************************************)
Ending(t, k) == /\ out_rpc' = [out_rpc EXCEPT ![out_thread[t].rpc] =
                                   [homa_rpc_end(k) EXCEPT !.refs = @ - 1]]
                /\ Return(t)

FillFails(t) ==
    LET k == out_rpc[out_thread[t].rpc]
    IN /\ out_thread[t].pc = "fail"
       /\ Ending(t, Charged(k))
       /\ hsk' = [hsk EXCEPT !.wmem = @ + k.num_skbs, !.dead_skbs = @ + DeadSkbs(k)]
       /\ UNCHANGED <<wconf, poller, reaper>>

ReturnId(t) ==
    LET r == out_thread[t].rpc
    IN /\ out_thread[t].pc = "report"
       /\ \/ /\ out_rpc' = [out_rpc EXCEPT ![r].refs = @ - 1]
             /\ Return(t)
             /\ UNCHANGED hsk
          \/ /\ r \in Clients
             /\ out_thread[t].user
             /\ Ending(t, out_rpc[r])
             /\ hsk' = [hsk EXCEPT !.dead_skbs = @ + DeadSkbs(out_rpc[r])]
       /\ UNCHANGED <<wconf, poller, reaper>>

(***************************************************************************)
(* An RPC ends: its response has been received, it has been acknowledged,  *)
(* aborted or timed out.  A shutdown ends all of them.                     *)
(***************************************************************************)
EndRpc(r) ==
    /\ out_rpc[r].state \in {"OUTGOING", "IN_SERVICE"}
    /\ out_rpc' = [out_rpc EXCEPT ![r] = homa_rpc_end(@)]
    /\ hsk' = [hsk EXCEPT !.dead_skbs = @ + DeadSkbs(out_rpc[r])]
    /\ UNCHANGED <<wconf, out_thread, poller, reaper>>

homa_sock_shutdown ==
    /\ wconf.shutdown
    /\ ~hsk.shutdown
    /\ LET live == {r \in OutRpcs : out_rpc[r].state \in {"OUTGOING", "IN_SERVICE"}}
       IN /\ out_rpc' = [r \in OutRpcs |-> IF r \in live THEN homa_rpc_end(out_rpc[r])
                                           ELSE out_rpc[r]]
          /\ hsk' = [hsk EXCEPT !.shutdown = TRUE,
                                !.dead_skbs = @ + MapThenSumSet(LAMBDA r : out_rpc[r].num_skbs, live)]
    /\ UNCHANGED <<wconf, out_thread, poller, reaper>>

(***************************************************************************)
(* homa_rpc_reap frees a dead RPC that nobody else holds, then (without    *)
(* the socket lock) homa_sock_wakeup_wmem wakes the waiting threads.       *)
(***************************************************************************)
Reapable(k) == k.state = "DEAD" /\ k.refs = 1

homa_rpc_reap(r) ==
    /\ reaper = "idle"
    /\ ~hsk.shutdown \/ wconf.receiver
    /\ Reapable(out_rpc[r])
    /\ hsk' = [hsk EXCEPT !.wmem = @ - out_rpc[r].num_skbs, !.skbs = @ - out_rpc[r].num_skbs,
                          !.dead_skbs = @ - out_rpc[r].num_skbs]
    /\ out_rpc' = [out_rpc EXCEPT ![r] = Unused]
    /\ reaper' = "wake"
    /\ UNCHANGED <<wconf, out_thread, poller>>

Wakes == hsk.nospace /\ homa_sock_wmem_avl

homa_sock_wakeup_wmem ==
    /\ reaper = "wake"
    /\ reaper' = "idle"
    /\ \/ /\ Wakes
          /\ hsk' = [hsk EXCEPT !.nospace = FALSE]
          /\ out_thread' = [t \in Senders |-> IF out_thread[t].pc = "sleep"
                                              THEN [out_thread[t] EXCEPT !.pc = "check"]
                                              ELSE out_thread[t]]
          /\ poller' = IF poller = "sleep" THEN "idle" ELSE poller
       \/ /\ ~Wakes
          /\ UNCHANGED <<hsk, out_thread, poller>>
    /\ UNCHANGED <<wconf, out_rpc>>

(***************************************************************************)
(* homa_poll: it tests for memory and only then announces that it waits.   *)
(***************************************************************************)
homa_poll ==
    /\ wconf.poll
    /\ poller = "idle"
    /\ ~homa_sock_wmem_avl
    /\ poller' = "checked"
    /\ UNCHANGED <<wconf, out_rpc, out_thread, hsk, reaper>>

PollSleeps ==
    /\ poller = "checked"
    /\ poller' = "sleep"
    /\ hsk' = [hsk EXCEPT !.nospace = TRUE]
    /\ UNCHANGED <<wconf, out_rpc, out_thread, reaper>>

(***************************************************************************)
(* homa_connect writes the target address, then sets connected.  Senders   *)
(* read both without the socket lock.                                      *)
(***************************************************************************)
Connecting == [hsk EXCEPT !.target = "torn"]

homa_connect ==
    /\ wconf.connect
    /\ ~hsk.connected
    /\ ~hsk.shutdown
    /\ hsk' = CASE hsk.target = "none" -> Connecting
                [] hsk.target = "torn" -> [hsk EXCEPT !.target = "set"]
                [] hsk.target = "set"  -> [hsk EXCEPT !.connected = TRUE]
    /\ UNCHANGED <<wconf, out_rpc, out_thread, poller, reaper>>

SenderStep(t) == \/ SetNospace(t)
                 \/ homa_sock_wait_wmem(t)
                 \/ homa_rpc_alloc_client(t)
                 \/ homa_tx_data_pkt_alloc(t)
                 \/ LinkPacket(t)
                 \/ FoundDead(t)
                 \/ FillFails(t)
                 \/ ReturnId(t)

Next == \/ \E t \in Senders : \/ homa_sendmsg(t)
                              \/ SenderStep(t)
                              \/ Signal(t)
                              \/ \E r \in Servers : SendReply(t, r)
        \/ \E r \in OutRpcs : EndRpc(r) \/ homa_rpc_reap(r)
        \/ homa_sock_wakeup_wmem
        \/ homa_sock_shutdown
        \/ homa_poll
        \/ PollSleeps
        \/ homa_connect

Spec == Init /\ [][Next]_sendVars

(***************************************************************************)
(* Senders run, every RPC ends some day (its peer answers or it times      *)
(* out), and homa_rpc_reap is called again and again (by homa_timer and by *)
(* homa_recvmsg).                                                          *)
(***************************************************************************)
Fairness == /\ \A t \in Senders : WF_sendVars(SenderStep(t))
            /\ \A r \in OutRpcs : WF_sendVars(EndRpc(r)) /\ WF_sendVars(homa_rpc_reap(r))
            /\ WF_sendVars(homa_sock_wakeup_wmem)

FairSpec == Spec /\ Fairness

(***************************************************************************)
(* Properties                                                              *)
(***************************************************************************)

(* The socket's transmit memory is that of the messages that have been     *)
(* charged and not reaped, also for calls that failed half way.            *)
WmemExact ==
    hsk.wmem = MapThenSumSet(LAMBDA r : out_rpc[r].num_skbs, {r \in OutRpcs : out_rpc[r].charged})

(* Every packet buffer belongs to an RPC or is in the hands of a sender:   *)
(* none is lost when an RPC dies while its message is being copied.        *)
SkbsAccounted ==
    hsk.skbs = MapThenSumSet(LAMBDA r : out_rpc[r].num_skbs, OutRpcs)
               + MapThenSumSet(LAMBDA t : out_thread[t].skb, Senders)

(* dead_skbs, which decides when homa_timer reaps, counts the packet       *)
(* buffers of the dead RPCs exactly.                                       *)
DeadSkbsExact ==
    hsk.dead_skbs = MapThenSumSet(LAMBDA r : out_rpc[r].num_skbs,
                                  {r \in OutRpcs : out_rpc[r].state = "DEAD"})

(* A sender never touches an RPC that has been reaped while the sender had *)
(* released the RPC lock, and each RPC counts its senders.                 *)
SenderHoldsRpc ==
    \A r \in OutRpcs :
        LET users == {t \in Senders : out_thread[t].rpc = r}
        IN IF out_rpc[r].state = "none" THEN users = {}
           ELSE out_rpc[r].refs = 1 + Cardinality(users)

(* homa_message_out_fill runs at most once for an RPC, although two        *)
(* threads may try to answer the same request.                             *)
FillOnce ==
    \A r \in OutRpcs : /\ Cardinality({t \in Senders : out_thread[t].rpc = r}) <= 1
                       /\ out_rpc[r].num_skbs <= Packets

(* A request sent on a connected socket goes to the address of the         *)
(* connect, never to one that is half written.                             *)
WholeTarget == \A r \in OutRpcs : out_rpc[r].dest \notin {"torn"}

(* Memory, packet buffers, references and addresses of a message are       *)
(* accounted for while senders copy without the RPC lock.                  *)
SendConsistent ==
    /\ WmemExact /\ SkbsAccounted /\ DeadSkbsExact
    /\ SenderHoldsRpc /\ FillOnce /\ WholeTarget

(* "Block the thread until @hsk's usage of tx packet memory drops below    *)
(* the socket's limit" (homa_sock.c): a sender does not sleep on while     *)
(* there is memory.                                                        *)
SenderWoken ==
    \A t \in Senders : (out_thread[t].pc = "sleep" /\ homa_sock_wmem_avl) ~>
                       (out_thread[t].pc # "sleep" \/ ~homa_sock_wmem_avl)
=============================================================================
