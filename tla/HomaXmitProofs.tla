--------------------------- MODULE HomaXmitProofs ---------------------------
(***************************************************************************)
(* Proofs about the throttled list and the pacer (HomaXmit), for any       *)
(* number of messages, senders and packets and any limit on the NIC queue: *)
(* no message is stranded, the list names no RPC that may be freed, and    *)
(* the NIC queue exceeds its limit by at most two packets besides those    *)
(* that are retransmitted.                                                 *)
(***************************************************************************)
EXTENDS HomaXmit, ListLemmas

\* The steps are first-order and go to Zenon; the others are marked SMT.
USE ZenonT(60)

\* Threads that hold the pacer's mutex.
InPacer(t) == thread[t].pc \in {"loop", "select", "xmit"}

\* The mutex: one pacer at a time.
OnePacer == \A s, t \in Pacers : InPacer(s) /\ InPacer(t) => s = t

\* Only a pacer that has just picked an RPC sends a packet by force.
ForcedByPacer ==
    \A t \in Threads : thread[t].force => t \in Pacers /\ thread[t].pc = "xmit"

\* From its look at the NIC queue until its forced packet, a pacer knows that
\* other threads can have filled the queue by one packet more than the limit,
\* not counting retransmissions.
RoomForForced ==
    \A t \in Pacers : thread[t].pc = "select" \/ thread[t].force =>
        backlog <= MaxQueue + 1 + retrans

\* Messages are filled by threads that send, not by pacers.
FilledBySender ==
    \A t \in Threads : thread[t].pc = "fill" \/ thread[t].fill => t \in Senders

\* Nothing has been sent of a message that does not exist yet.
FreshUnsent == \A r \in Rpcs : msgout[r].state = "none" => msgout[r].next = 0

\* The inductive invariant.
XmitInv ==
    /\ XmitTypeOK /\ FreshUnsent /\ NoneStranded /\ ThrottledLive
    /\ OnePacer /\ ForcedByPacer /\ RoomForForced /\ FilledBySender /\ QueueBounded

-----------------------------------------------------------------------------
(* The throttled list                                                      *)

\* homa_pacer_manage_rpc adds the RPC and keeps the others.
LEMMA ManageRpc ==
  ASSUME XmitAssumptions, XmitTypeOK, NEW r \in Rpcs, NoRepeats(throttled)
  PROVE  /\ homa_pacer_manage_rpc(r) \in Seq(Rpcs)
         /\ Range(homa_pacer_manage_rpc(r)) = Range(throttled) \cup {r}
         /\ NoRepeats(homa_pacer_manage_rpc(r))
<1>1. throttled \in Seq(Rpcs) /\ Len(throttled) \in Nat
  BY SMTT(60) DEF XmitTypeOK
<1>2. CASE Throttled(r)
  BY <1>1, <1>2 DEF homa_pacer_manage_rpc, Throttled
<1>3. CASE ~Throttled(r)
  <2>1. PICK longer \in SUBSET (1 .. Len(throttled)) :
           longer = {i \in 1 .. Len(throttled) : Left(throttled[i]) > Left(r)}
    OBVIOUS
  <2>2. PICK pos : pos = IF longer = {} THEN Len(throttled) + 1
                         ELSE CHOOSE i \in longer : \A j \in longer : i <= j
    BY SMTT(60)
  <2>3. pos \in 1 .. Len(throttled) + 1
    <3>1. CASE longer = {}
      BY <1>1, <2>2, <3>1, SMTT(60)
    <3>2. CASE longer # {}
      <4>1. longer \in SUBSET Nat
        BY <1>1, <2>1, SMTT(60)
      <4>2. \E i \in longer : \A j \in longer : i <= j
        BY <3>2, <4>1, SmallestPosition
      <4>3. pos \in longer
        BY <2>2, <3>2, <4>2
      <4> QED BY <1>1, <2>1, <4>3, SMTT(60)
    <3> QED BY <3>1, <3>2
  <2>4. homa_pacer_manage_rpc(r) = list_insert(throttled, pos, r)
    BY <1>3, <2>1, <2>2, SMTT(60) DEF homa_pacer_manage_rpc
  <2>5. r \notin Range(throttled)
    BY <1>3 DEF Throttled
  <2> QED BY <1>1, <2>3, <2>4, <2>5, InsertSet, SMTT(60)
<1> QED BY <1>2, <1>3

\* homa_pacer_unmanage_rpc takes the RPC off and keeps the others.
LEMMA UnmanageRpc ==
  ASSUME XmitTypeOK, NEW r, NoRepeats(throttled)
  PROVE  /\ homa_pacer_unmanage_rpc(r) \in Seq(Rpcs)
         /\ Range(homa_pacer_unmanage_rpc(r)) = Range(throttled) \ {r}
         /\ NoRepeats(homa_pacer_unmanage_rpc(r))
BY RemoveFirstSet DEF homa_pacer_unmanage_rpc, XmitTypeOK

-----------------------------------------------------------------------------
(* The steps                                                               *)

\* One thread changes its place.
LEMMA ThreadMoves ==
  ASSUME XmitTypeOK, NEW t \in Threads, NEW k \in ThreadType,
         thread' = [thread EXCEPT ![t] = k]
  PROVE  /\ thread' \in [Threads -> ThreadType] /\ thread'[t] = k
         /\ \A s \in Threads : s # t => thread'[s] = thread[s]
BY DEF XmitTypeOK

\* The record of a thread.
LEMMA ThreadTyped ==
  ASSUME NEW pc \in {"idle", "fill", "enter", "loop", "select", "xmit", "check", "sleep"},
         NEW r \in Rpcs \cup {None}, NEW force \in BOOLEAN, NEW fill \in BOOLEAN
  PROVE  Thread(pc, r, force, fill) \in ThreadType
BY DEF Thread, ThreadType

\* In the initial state nobody sends.
LEMMA InitXmit == ASSUME XmitAssumptions PROVE Init => XmitInv
<1> SUFFICES ASSUME Init PROVE XmitInv
  OBVIOUS
<1>1. XmitTypeOK
  BY SMTT(60) DEF Init, XmitTypeOK, XmitAssumptions, MsgOutType, ThreadType, Thread, Threads,
         Pacers, Kthread, Softirq, None
<1>2. throttled = <<>> /\ Range(throttled) = {} /\ NoRepeats(throttled)
  BY SMTT(60) DEF Init, Range, NoRepeats
<1>3. FreshUnsent /\ NoneStranded /\ ThrottledLive
  BY <1>2 DEF Init, FreshUnsent, NoneStranded, Live, ThrottledLive
<1>5. QueueBounded
  BY SMTT(60) DEF Init, QueueBounded, XmitAssumptions
<1>4. OnePacer /\ ForcedByPacer /\ RoomForForced /\ FilledBySender
  BY DEF Init, OnePacer, ForcedByPacer, RoomForForced, FilledBySender, InPacer, Thread, Threads
<1> QED BY <1>1, <1>3, <1>4, <1>5 DEF XmitInv

\* A thread that sends starts with a message, or goes on with the one that it
\* fills; n packets are retransmitted.
LEMMA SenderMoves ==
  ASSUME XmitAssumptions, XmitInv, NEW t \in Senders, NEW r \in Rpcs, NEW m \in MsgOutType,
         NEW k \in ThreadType, NEW n \in Nat,
         thread[t].pc = "idle" \/ thread[t].rpc = r,
         k.pc \in {"fill", "xmit"}, k.rpc = r, k.force = FALSE,
         thread' = [thread EXCEPT ![t] = k], msgout' = [msgout EXCEPT ![r] = m],
         m.next = msgout[r].next, m.next <= m.granted, m.next <= m.filled,
         m.granted <= Length[r], m.state = "live", msgout[r].state \in {"none", "live"},
         backlog' = backlog + n, retrans' = retrans + n, UNCHANGED <<throttled, fifo_count>>
  PROVE  XmitInv'
<1>0. t \in Threads /\ t \notin Pacers /\ r # None
  BY DEF Threads, Pacers, XmitAssumptions
<1>1. /\ thread' \in [Threads -> ThreadType] /\ thread'[t] = k
      /\ \A s \in Threads : s # t => thread'[s] = thread[s]
  BY <1>0, ThreadMoves DEF XmitInv
<1>2. /\ msgout' \in [Rpcs -> MsgOutType] /\ msgout'[r] = m
      /\ \A x \in Rpcs : x # r => msgout'[x] = msgout[x]
  BY DEF XmitInv, XmitTypeOK
<1>3. backlog \in Nat /\ retrans \in Nat /\ MaxQueue \in Nat
  BY DEF XmitInv, XmitTypeOK, XmitAssumptions
<1>4. XmitTypeOK'
  <2>1. backlog' \in Nat /\ retrans' \in Nat
    BY <1>3, SMTT(60)
  <2>2. \A x \in Rpcs : /\ msgout'[x].next <= msgout'[x].filled
                        /\ msgout'[x].next <= msgout'[x].granted
                        /\ msgout'[x].granted <= Length[x]
    BY <1>2 DEF XmitInv, XmitTypeOK
  <2>3. \A s \in Threads : thread'[s].pc \in {"fill", "xmit"} <=> thread'[s].rpc \in Rpcs
    BY <1>1 DEF XmitInv, XmitTypeOK
  <2> QED BY <1>1, <1>2, <2>1, <2>2, <2>3 DEF XmitInv, XmitTypeOK
<1>6. FreshUnsent'
  BY <1>2 DEF XmitInv, FreshUnsent
<1>7. NoneStranded'
  <2> SUFFICES ASSUME NEW x \in Rpcs, Live(x)', Ready(x)'
               PROVE  Throttled(x)' \/ \E s \in Threads : thread'[s].rpc = x
    BY DEF NoneStranded
  <2>1. CASE x = r
    BY <1>0, <1>1, <2>1
  <2>2. CASE x # r
    <3>1. Live(x) /\ Ready(x)
      BY <1>2, <2>2 DEF Live, Ready
    <3>2. Throttled(x) \/ \E s \in Threads : thread[s].rpc = x
      BY <3>1 DEF XmitInv, NoneStranded
    <3>3. thread[t].rpc # x
      BY <1>0, <2>2 DEF XmitInv, XmitTypeOK
    <3> QED BY <1>1, <3>2, <3>3 DEF Throttled
  <2> QED BY <2>1, <2>2
<1>8. ThrottledLive'
  <2>1. throttled \in Seq(Rpcs) /\ Range(throttled) \subseteq Rpcs
    BY SMTT(60) DEF XmitInv, XmitTypeOK, Range
  <2> QED BY <1>2, <2>1 DEF XmitInv, ThrottledLive
<1>9. \A s \in Pacers : thread'[s] = thread[s]
  BY <1>0, <1>1 DEF Threads
<1>10. (OnePacer /\ FilledBySender)'
  BY <1>1, <1>9 DEF XmitInv, OnePacer, InPacer, FilledBySender
<1>11. ForcedByPacer'
  BY <1>1 DEF XmitInv, ForcedByPacer
<1>12. QueueBounded'
  BY <1>3, SMTT(60) DEF XmitInv, QueueBounded
<1>13. RoomForForced'
  <2> SUFFICES ASSUME NEW s \in Pacers, thread'[s].pc = "select" \/ thread'[s].force
               PROVE  backlog' <= MaxQueue + 1 + retrans'
    BY DEF RoomForForced
  <2>1. backlog <= MaxQueue + 1 + retrans
    BY <1>9 DEF XmitInv, RoomForForced
  <2> QED BY <1>3, <2>1, SMTT(60)
<1> QED BY <1>4, <1>6, <1>7, <1>8, <1>10, <1>11, <1>12, <1>13 DEF XmitInv

\* A pacer moves on without sending a packet.
LEMMA PacerMoves ==
  ASSUME XmitAssumptions, XmitInv, NEW t \in Pacers, NEW k \in ThreadType,
         thread' = [thread EXCEPT ![t] = k],
         thread[t].pc # "xmit", k.pc # "fill", ~k.fill, k.pc = "xmit" <=> k.rpc \in Rpcs,
         k.pc \in {"loop", "select", "xmit"} => \A s \in Pacers : InPacer(s) => s = t,
         k.force => k.pc = "xmit",
         k.pc = "select" \/ k.force => backlog <= MaxQueue + 1 + retrans,
         fifo_count' \in 1 .. FifoFull, UNCHANGED <<msgout, throttled, backlog, retrans>>
  PROVE  XmitInv'
<1>1. t \in Threads /\ Pacers \subseteq Threads
  BY DEF Threads
<1>2. /\ thread' \in [Threads -> ThreadType] /\ thread'[t] = k
      /\ \A s \in Threads : s # t => thread'[s] = thread[s]
  BY <1>1, ThreadMoves DEF XmitInv
<1>3. XmitTypeOK'
  BY <1>1, <1>2 DEF XmitInv, XmitTypeOK
<1>4. FreshUnsent' /\ ThrottledLive' /\ QueueBounded'
  BY DEF XmitInv, FreshUnsent, ThrottledLive, QueueBounded
<1>5. NoneStranded'
  <2> SUFFICES ASSUME NEW x \in Rpcs, Live(x), Ready(x)
               PROVE  Throttled(x) \/ \E s \in Threads : thread'[s].rpc = x
    BY DEF NoneStranded, Live, Ready, Throttled
  <2>1. Throttled(x) \/ \E s \in Threads : thread[s].rpc = x
    BY DEF XmitInv, NoneStranded
  <2>2. thread[t].pc # "fill"
    BY <1>1 DEF XmitInv, FilledBySender, XmitAssumptions, Pacers
  <2>3. thread[t].rpc \notin Rpcs
    BY <1>1, <2>2 DEF XmitInv, XmitTypeOK
  <2> QED BY <1>2, <2>1, <2>3
<1>6. OnePacer' /\ FilledBySender'
  BY <1>1, <1>2 DEF XmitInv, OnePacer, InPacer, FilledBySender
<1>7. ForcedByPacer'
  BY <1>2 DEF XmitInv, ForcedByPacer
<1>8. RoomForForced'
  BY <1>1, <1>2 DEF XmitInv, RoomForForced
<1> QED BY <1>3, <1>4, <1>5, <1>6, <1>7, <1>8 DEF XmitInv

\* A pacer goes to a place without an RPC.
LEMMA PacerAt ==
  ASSUME XmitAssumptions, XmitInv, NEW t \in Pacers,
         NEW pc \in {"idle", "enter", "loop", "select", "check", "sleep"},
         At(t, pc), thread[t].pc # "xmit",
         pc \in {"loop", "select"} => \A s \in Pacers : InPacer(s) => s = t,
         pc = "select" => backlog <= MaxQueue + 1 + retrans,
         fifo_count' \in 1 .. FifoFull, UNCHANGED <<msgout, throttled, backlog, retrans>>
  PROVE  XmitInv'
<1>1. PICK k \in ThreadType : k = Thread(pc, None, FALSE, FALSE)
  BY DEF ThreadType, Thread
<1>2. thread' = [thread EXCEPT ![t] = k]
  BY <1>1 DEF At
<1>3. None \notin Rpcs
  BY DEF XmitAssumptions
<1>4. k.pc = pc /\ k.rpc = None /\ k.force = FALSE /\ k.fill = FALSE
  BY <1>1 DEF Thread
<1> QED BY <1>2, <1>3, <1>4, PacerMoves

\* homa_pacer_xmit tries to get the mutex.
LEMMA EnterPacerInv ==
  ASSUME XmitAssumptions, XmitInv, NEW t \in Pacers, EnterPacer(t)
  PROVE  XmitInv'
<1>1. fifo_count' \in 1 .. FifoFull /\ UNCHANGED <<msgout, throttled, backlog, retrans>>
      /\ thread[t].pc # "xmit"
  BY DEF EnterPacer, XmitInv, XmitTypeOK
<1>2. CASE MutexHeld
  <2>1. PICK pc \in {"idle", "check"} : At(t, pc)
    BY <1>2 DEF EnterPacer, Leave
  <2> QED BY <1>1, <2>1, PacerAt
<1>3. CASE ~MutexHeld
  <2>1. At(t, "loop")
    BY <1>3 DEF EnterPacer
  <2>2. \A s \in Pacers : ~InPacer(s)
    BY <1>3 DEF MutexHeld, InPacer
  <2> QED BY <1>1, <2>1, <2>2, PacerAt
<1> QED BY <1>2, <1>3

\* It looks at the NIC queue and the list.
LEMMA PacerLoopInv ==
  ASSUME XmitAssumptions, XmitInv, NEW t \in Pacers, PacerLoop(t)
  PROVE  XmitInv'
<1>1. fifo_count' \in 1 .. FifoFull /\ UNCHANGED <<msgout, throttled, backlog, retrans>>
      /\ thread[t].pc = "loop"
  BY DEF PacerLoop, XmitInv, XmitTypeOK
<1>2. CASE NicFull \/ throttled = <<>>
  <2>1. PICK pc \in {"idle", "check"} : At(t, pc)
    BY <1>2 DEF PacerLoop, Leave
  <2> QED BY <1>1, <2>1, PacerAt
<1>3. CASE ~(NicFull \/ throttled = <<>>)
  <2>1. At(t, "select")
    BY <1>3 DEF PacerLoop
  <2>2. \A s \in Pacers : InPacer(s) => s = t
    BY <1>1 DEF XmitInv, OnePacer, InPacer
  <2>3. backlog <= MaxQueue + 1 + retrans
    BY <1>3, SMTT(60) DEF NicFull, XmitInv, XmitTypeOK, XmitAssumptions
  <2> QED BY <1>1, <2>1, <2>2, <2>3, PacerAt
<1> QED BY <1>2, <1>3

\* It picks a message, the shortest or the oldest, and will send a packet of it
\* by force.
LEMMA PickRpcInv ==
  ASSUME XmitAssumptions, XmitInv, NEW t \in Pacers, PickRpc(t)
  PROVE  XmitInv'
<1>1. thread[t].pc = "select" /\ UNCHANGED <<msgout, throttled, backlog, retrans>>
  BY DEF PickRpc
<1>2. fifo_count' \in 1 .. FifoFull
  BY SMTT(60) DEF PickRpc, XmitInv, XmitTypeOK, XmitAssumptions
<1>3. CASE throttled = <<>>
  <2>1. PICK pc \in {"idle", "check"} : At(t, pc)
    BY <1>3 DEF PickRpc, Leave
  <2> QED BY <1>1, <1>2, <2>1, PacerAt
<1>4. CASE throttled # <<>>
  <2>1. throttled \in Seq(Rpcs) /\ Range(throttled) \subseteq Rpcs /\ Rpcs \subseteq Nat
    BY SMTT(60) DEF XmitInv, XmitTypeOK, Range, XmitAssumptions
  <2>2. Head(throttled) \in Range(throttled)
    BY <1>4, <2>1, TailSet
  <2>3. PICK oldest : oldest = CHOOSE r \in Range(throttled) : \A x \in Range(throttled) : r <= x
    OBVIOUS
  <2>4. oldest \in Range(throttled)
    <3>1. \E r \in Range(throttled) : \A x \in Range(throttled) : r <= x
      BY <2>1, <2>2, SmallestPosition
    <3> QED BY <2>3, <3>1
  <2>5. PICK r \in Rpcs : CallXmit(t, r, TRUE, FALSE)
    <3>1. CallXmit(t, IF fifo_count - FifoFraction <= 0 THEN oldest ELSE Head(throttled),
                   TRUE, FALSE)
      BY <1>4, <2>3 DEF PickRpc
    <3> QED BY <2>1, <2>2, <2>4, <3>1
  <2>6. PICK k \in ThreadType : k = Thread("xmit", r, TRUE, FALSE)
    BY DEF ThreadType, Thread
  <2>7. thread' = [thread EXCEPT ![t] = k]
    BY <2>5, <2>6 DEF CallXmit
  <2>8. \A s \in Pacers : InPacer(s) => s = t
    BY <1>1 DEF XmitInv, OnePacer, InPacer
  <2>9. backlog <= MaxQueue + 1 + retrans
    BY <1>1 DEF XmitInv, RoomForForced
  <2>10. k.pc = "xmit" /\ k.rpc = r /\ k.force = TRUE /\ k.fill = FALSE
    BY <2>6 DEF Thread
  <2> QED BY <1>1, <1>2, <2>7, <2>8, <2>9, <2>10, PacerMoves
<1> QED BY <1>3, <1>4

\* homa_pacer_main goes to sleep, or tries again.
LEMMA MainInv ==
  ASSUME XmitAssumptions, XmitInv, homa_pacer_main
  PROVE  XmitInv'
<1>1. /\ fifo_count' \in 1 .. FifoFull /\ UNCHANGED <<msgout, throttled, backlog, retrans>>
      /\ thread[Kthread].pc # "xmit" /\ Kthread \in Pacers
  BY DEF homa_pacer_main, XmitInv, XmitTypeOK, Pacers
<1>2. PICK pc \in {"sleep", "enter"} : At(Kthread, pc)
  BY DEF homa_pacer_main
<1> QED BY <1>1, <1>2, PacerAt

\* homa_pacer_check lets a softirq handler help.
LEMMA CheckInv ==
  ASSUME XmitAssumptions, XmitInv, homa_pacer_check
  PROVE  XmitInv'
<1>1. /\ fifo_count' \in 1 .. FifoFull /\ UNCHANGED <<msgout, throttled, backlog, retrans>>
      /\ thread[Softirq].pc # "xmit" /\ Softirq \in Pacers /\ At(Softirq, "enter")
  BY DEF homa_pacer_check, XmitInv, XmitTypeOK, Pacers
<1> QED BY <1>1, PacerAt

\* A packet is sent: what may be sent shrinks, and the NIC queue grows by one
\* packet that had room or is the one that the only pacer forces.
LEMMA XmitPacketInv ==
  ASSUME XmitAssumptions, XmitInv, NEW t \in Threads, XmitPacket(t)
  PROVE  XmitInv'
<1>1. PICK r \in Rpcs : r = thread[t].rpc
  BY DEF XmitPacket, XmitInv, XmitTypeOK
<1>2. /\ thread[t].pc = "xmit" /\ Live(r) /\ Ready(r)
      /\ UNCHANGED <<throttled, retrans, fifo_count>>
      /\ Bypasses(r) \/ thread[t].force \/ backlog <= MaxQueue
      /\ backlog' = IF Bypasses(r) THEN backlog ELSE backlog + 1
      /\ CallXmit(t, r, FALSE, thread[t].fill)
  BY <1>1 DEF XmitPacket, homa_pacer_check_nic_q
<1>3. PICK k \in ThreadType : k = Thread("xmit", r, FALSE, thread[t].fill)
  BY DEF XmitInv, XmitTypeOK, ThreadType, Thread
<1>4. /\ thread' \in [Threads -> ThreadType] /\ thread'[t] = k
      /\ \A s \in Threads : s # t => thread'[s] = thread[s]
  <2>1. thread' = [thread EXCEPT ![t] = k]
    BY <1>2, <1>3 DEF CallXmit
  <2> QED BY <2>1, ThreadMoves DEF XmitInv
<1>5. \A s \in Threads : /\ thread'[s].pc = thread[s].pc /\ thread'[s].rpc = thread[s].rpc
                         /\ thread'[s].fill = thread[s].fill
  <2>1. k.pc = "xmit" /\ k.rpc = r /\ k.fill = thread[t].fill
    BY <1>3 DEF Thread
  <2> QED BY <1>1, <1>2, <1>4, <2>1
<1>6. PICK m \in MsgOutType : m = [msgout[r] EXCEPT !.next = @ + 1]
  <2>1. msgout[r] \in MsgOutType
    BY DEF XmitInv, XmitTypeOK
  <2>2. [msgout[r] EXCEPT !.next = @ + 1] \in MsgOutType
    BY <2>1, SMTT(60) DEF MsgOutType
  <2> QED BY <2>2
<1>7. /\ m.next = msgout[r].next + 1 /\ m.granted = msgout[r].granted
      /\ m.filled = msgout[r].filled /\ m.state = msgout[r].state
  BY <1>6 DEF XmitInv, XmitTypeOK, MsgOutType
<1>8. /\ msgout' \in [Rpcs -> MsgOutType] /\ msgout'[r] = m
      /\ \A x \in Rpcs : x # r => msgout'[x] = msgout[x]
  <2>1. msgout' = [msgout EXCEPT ![r] = m]
    BY <1>1, <1>6 DEF XmitPacket, XmitInv, XmitTypeOK
  <2> QED BY <2>1 DEF XmitInv, XmitTypeOK
<1>9. \A x \in Rpcs : msgout'[x].state = msgout[x].state /\ (Ready(x)' => Ready(x))
  <2> QED BY <1>2, <1>7, <1>8 DEF Ready
<1>10. XmitTypeOK'
  <2>1. m.next <= m.granted /\ m.next <= m.filled
    <3>1. msgout[r].next \in Nat /\ msgout[r].granted \in Nat /\ msgout[r].filled \in Nat
      BY DEF XmitInv, XmitTypeOK, MsgOutType
    <3> QED BY <1>2, <1>7, <3>1, SMTT(60) DEF Ready
  <2>2. backlog' \in Nat
    BY <1>2, SMTT(60) DEF XmitInv, XmitTypeOK
  <2>3. \A x \in Rpcs : /\ msgout'[x].next <= msgout'[x].filled
                        /\ msgout'[x].next <= msgout'[x].granted
                        /\ msgout'[x].granted <= Length[x]
    BY <1>7, <1>8, <2>1 DEF XmitInv, XmitTypeOK
  <2>4. \A s \in Threads : thread'[s].pc \in {"fill", "xmit"} <=> thread'[s].rpc \in Rpcs
    BY <1>5 DEF XmitInv, XmitTypeOK
  <2> QED BY <1>2, <1>4, <1>8, <2>2, <2>3, <2>4 DEF XmitInv, XmitTypeOK
<1>11. FreshUnsent'
  BY <1>2, <1>7, <1>8 DEF Live, XmitInv, FreshUnsent
<1>12. NoneStranded'
  BY <1>2, <1>5, <1>9, SMTT(60) DEF XmitInv, NoneStranded, Live, Throttled
<1>13. ThrottledLive'
  <2>1. Range(throttled) \subseteq Rpcs
    BY SMTT(60) DEF XmitInv, XmitTypeOK, Range
  <2> QED BY <1>2, <1>9, <2>1 DEF XmitInv, ThrottledLive
<1>14. OnePacer' /\ ForcedByPacer' /\ FilledBySender'
  <2>1. Pacers \subseteq Threads
    BY DEF Threads
  <2>2. thread'[t].force = FALSE
    BY <1>3, <1>4, SMTT(60) DEF Thread
  <2> QED BY <1>4, <1>5, <2>1, <2>2 DEF XmitInv, OnePacer, InPacer, ForcedByPacer, FilledBySender
<1>15. backlog <= MaxQueue + 2 + retrans /\ backlog \in Nat /\ MaxQueue \in Nat /\ retrans \in Nat
  BY DEF XmitInv, QueueBounded, XmitTypeOK, XmitAssumptions
<1>16. QueueBounded'
  <2>1. CASE thread[t].force
    <3>1. backlog <= MaxQueue + 1 + retrans
      BY <2>1 DEF XmitInv, ForcedByPacer, RoomForForced
    <3> QED BY <1>2, <1>15, <3>1, SMTT(60) DEF QueueBounded
  <2>2. CASE ~thread[t].force
    BY <1>2, <1>15, <2>2, SMTT(60) DEF QueueBounded
  <2> QED BY <2>1, <2>2
<1>17. RoomForForced'
  <2> SUFFICES ASSUME NEW s \in Pacers, thread'[s].pc = "select" \/ thread'[s].force
               PROVE  backlog' <= MaxQueue + 1 + retrans'
    BY DEF RoomForForced
  <2>1. s \in Threads
    BY DEF Threads
  <2>2. s # t
    BY <1>3, <1>4, SMTT(60) DEF Thread
  <2>3. thread[s].pc = "select" \/ thread[s].force
    BY <1>4, <2>1, <2>2
  <2>4. backlog <= MaxQueue + 1 + retrans
    BY <2>3 DEF XmitInv, RoomForForced
  <2>5. ~thread[t].force
    <3> SUFFICES ASSUME thread[t].force PROVE FALSE
      OBVIOUS
    <3>1. t \in Pacers /\ InPacer(t)
      BY <1>2 DEF XmitInv, ForcedByPacer, InPacer
    <3>2. InPacer(s)
      BY <2>1, <2>3 DEF XmitInv, ForcedByPacer, InPacer
    <3> QED BY <2>2, <3>1, <3>2 DEF XmitInv, OnePacer
  <2> QED BY <1>2, <1>15, <2>4, <2>5, SMTT(60)
<1> QED BY <1>10, <1>11, <1>12, <1>13, <1>14, <1>16, <1>17 DEF XmitInv

\* homa_xmit_data returns: a message with packets left to send is on the list
\* before its thread lets go of it.
LEMMA XmitReturnsInv ==
  ASSUME XmitAssumptions, XmitInv, NEW t \in Threads, XmitReturns(t)
  PROVE  XmitInv'
<1>1. PICK r \in Rpcs : r = thread[t].rpc
  BY DEF XmitReturns, XmitInv, XmitTypeOK
<1>2. /\ thread[t].pc = "xmit" /\ UNCHANGED <<msgout, backlog, retrans, fifo_count>>
      /\ throttled' = XmitStops(t)
  BY DEF XmitReturns
<1>3. PICK k : /\ thread' = [thread EXCEPT ![t] = k]
               /\ \/ t \in Pacers /\ k = Thread("loop", None, FALSE, FALSE)
                  \/ t \notin Pacers /\ k = Thread("idle", None, FALSE, FALSE)
                  \/ t \notin Pacers /\ k = Thread("fill", r, FALSE, TRUE)
                  \/ t \notin Pacers /\ k = Thread("xmit", r, FALSE, FALSE)
  BY <1>1 DEF XmitReturns, At, Copying, CallXmit
<1>13. k \in ThreadType
  BY <1>3, ThreadTyped
<1>14. /\ k.force = FALSE /\ k.pc # "select"
       /\ t \in Pacers => k.pc = "loop"
  BY <1>3, SMTT(60) DEF Thread
<1>15. k.pc \in {"fill", "xmit"} <=> k.rpc \in Rpcs
  <2>1. None \notin Rpcs
    BY DEF XmitAssumptions
  <2> QED BY <1>3, <2>1, SMTT(60) DEF Thread
<1>16. k.pc = "fill" \/ k.fill => t \in Senders
  <2>1. t \in Pacers \/ t \in Senders
    BY DEF Threads
  <2>2. k.pc = "fill" \/ k.fill => t \notin Pacers
    BY <1>3, SMTT(60) DEF Thread
  <2> QED BY <2>1, <2>2
<1>4. /\ thread' \in [Threads -> ThreadType] /\ thread'[t] = k
      /\ \A s \in Threads : s # t => thread'[s] = thread[s]
  BY <1>3, <1>13, ThreadMoves DEF XmitInv
<1>5. XmitTypeOK /\ NoRepeats(throttled) /\ Pacers \subseteq Threads /\ None \notin Rpcs
  BY DEF XmitInv, ThrottledLive, Threads, XmitAssumptions
<1>6. /\ throttled' \in Seq(Rpcs) /\ NoRepeats(throttled')
      /\ Live(r) /\ Ready(r) => r \in Range(throttled')
      /\ \A x : x # r => (x \in Range(throttled') <=> x \in Range(throttled))
      /\ r \in Range(throttled') => Live(r) \/ r \in Range(throttled)
  <2>1. throttled \in Seq(Rpcs)
    BY <1>5 DEF XmitTypeOK
  <2>2. CASE Live(r) /\ Ready(r)
    <3>1. throttled' = homa_pacer_manage_rpc(r)
      BY <1>1, <1>2, <2>2 DEF XmitStops, SentAll
    <3> QED BY <1>5, <2>2, <3>1, ManageRpc
  <2>3. CASE ~(Live(r) /\ Ready(r)) /\ t \in Pacers /\ SentAll(r)
    <3>1. throttled' = homa_pacer_unmanage_rpc(r)
      BY <1>1, <1>2, <2>3 DEF XmitStops
    <3> QED BY <1>5, <2>3, <3>1, UnmanageRpc
  <2>4. CASE ~(Live(r) /\ Ready(r)) /\ ~(t \in Pacers /\ SentAll(r))
    <3>1. throttled' = throttled
      BY <1>1, <1>2, <2>4 DEF XmitStops
    <3> QED BY <1>5, <2>1, <2>4, <3>1
  <2> QED BY <2>2, <2>3, <2>4
<1>7. XmitTypeOK'
  <2>1. \A s \in Threads : thread'[s].pc \in {"fill", "xmit"} <=> thread'[s].rpc \in Rpcs
    BY <1>4, <1>5, <1>15 DEF XmitTypeOK
  <2> QED BY <1>2, <1>4, <1>5, <1>6, <2>1 DEF XmitTypeOK
<1>8. FreshUnsent' /\ QueueBounded'
  BY <1>2 DEF XmitInv, FreshUnsent, QueueBounded
<1>9. NoneStranded'
  <2> SUFFICES ASSUME NEW x \in Rpcs, Live(x), Ready(x)
               PROVE  x \in Range(throttled') \/ \E s \in Threads : thread'[s].rpc = x
    BY <1>2 DEF NoneStranded, Live, Ready, Throttled
  <2>1. CASE x = r
    BY <1>6, <2>1
  <2>2. CASE x # r
    <3>1. x \in Range(throttled) \/ \E s \in Threads : thread[s].rpc = x
      BY DEF XmitInv, NoneStranded, Throttled
    <3> QED BY <1>1, <1>4, <1>6, <2>2, <3>1
  <2> QED BY <2>1, <2>2
<1>10. ThrottledLive'
  BY <1>2, <1>6 DEF XmitInv, ThrottledLive, Live
<1>11. OnePacer' /\ FilledBySender'
  BY <1>2, <1>4, <1>5, <1>14, <1>16 DEF XmitInv, OnePacer, InPacer, FilledBySender
<1>12. ForcedByPacer' /\ RoomForForced'
  BY <1>2, <1>4, <1>5, <1>14 DEF XmitInv, ForcedByPacer, RoomForForced
<1> QED BY <1>7, <1>8, <1>9, <1>10, <1>11, <1>12 DEF XmitInv

\* An RPC goes from one state to the next, and leaves the list with the last
\* step of homa_rpc_end.
LEMMA RpcEnds ==
  ASSUME XmitAssumptions, XmitInv, NEW r \in Rpcs,
         EndRpc(r) \/ FinishEnd(r) \/ Reap(r)
  PROVE  XmitInv'
<1>1. UNCHANGED <<backlog, retrans, fifo_count, thread>>
  BY DEF EndRpc, FinishEnd, Reap
<1>2. PICK st \in {"dead", "ended", "freed"} : msgout' = [msgout EXCEPT ![r].state = st]
  BY DEF EndRpc, FinishEnd, Reap
<1>3. PICK m \in MsgOutType : m = [msgout[r] EXCEPT !.state = st]
  <2>1. msgout[r] \in MsgOutType
    BY DEF XmitInv, XmitTypeOK
  <2>2. [msgout[r] EXCEPT !.state = st] \in MsgOutType
    BY <2>1 DEF MsgOutType
  <2> QED BY <2>2
<1>4. /\ m.next = msgout[r].next /\ m.granted = msgout[r].granted
      /\ m.filled = msgout[r].filled /\ m.state = st
  BY <1>3 DEF XmitInv, XmitTypeOK, MsgOutType
<1>5. /\ msgout' \in [Rpcs -> MsgOutType] /\ msgout'[r] = m
      /\ \A x \in Rpcs : x # r => msgout'[x] = msgout[x]
  <2>1. msgout' = [msgout EXCEPT ![r] = m]
    BY <1>2, <1>3
  <2> QED BY <2>1 DEF XmitInv, XmitTypeOK
<1>6. XmitTypeOK /\ NoRepeats(throttled) /\ throttled \in Seq(Rpcs)
      /\ Range(throttled) \subseteq Rpcs
  BY SMTT(60) DEF XmitInv, ThrottledLive, XmitTypeOK, Range
<1>7. /\ throttled' \in Seq(Rpcs) /\ NoRepeats(throttled')
      /\ Range(throttled') \subseteq Range(throttled)
      /\ \A x : x # r => (x \in Range(throttled') <=> x \in Range(throttled))
      /\ st # "dead" => r \notin Range(throttled')
  <2>1. CASE EndRpc(r)
    <3>1. st = "dead" /\ throttled' = throttled
      <4>1. msgout'[r].state = "dead"
        BY <2>1 DEF EndRpc, XmitInv, XmitTypeOK, MsgOutType
      <4> QED BY <1>4, <1>5, <2>1, <4>1 DEF EndRpc
    <3> QED BY <1>6, <3>1
  <2>2. CASE FinishEnd(r)
    <3>1. throttled' = homa_pacer_unmanage_rpc(r)
      BY <2>2 DEF FinishEnd, UnlinkRpc
    <3> QED BY <1>6, <3>1, UnmanageRpc
  <2>3. CASE Reap(r)
    BY <1>6, <2>3 DEF Reap, XmitInv, ThrottledLive
  <2> QED BY <2>1, <2>2, <2>3
<1>8. XmitTypeOK'
  BY <1>1, <1>4, <1>5, <1>6, <1>7 DEF XmitTypeOK
<1>9. FreshUnsent'
  BY <1>4, <1>5 DEF XmitInv, FreshUnsent
<1>10. NoneStranded'
  <2> SUFFICES ASSUME NEW x \in Rpcs, Live(x)', Ready(x)'
               PROVE  Throttled(x)' \/ \E s \in Threads : thread[s].rpc = x
    BY <1>1 DEF NoneStranded
  <2>1. x # r
    BY <1>4, <1>5 DEF Live
  <2>2. Live(x) /\ Ready(x)
    BY <1>5, <2>1 DEF Live, Ready
  <2> QED BY <1>7, <2>1, <2>2 DEF XmitInv, NoneStranded, Throttled
<1>11. ThrottledLive'
  <2> SUFFICES ASSUME NEW x \in Range(throttled') PROVE msgout'[x].state \in {"live", "dead"}
    BY <1>7 DEF ThrottledLive
  <2>1. x \in Rpcs /\ msgout[x].state \in {"live", "dead"}
    BY <1>6, <1>7 DEF XmitInv, ThrottledLive
  <2> QED BY <1>4, <1>5, <1>7, <2>1
<1>12. (OnePacer /\ ForcedByPacer /\ RoomForForced /\ FilledBySender /\ QueueBounded)'
  BY <1>1 DEF XmitInv, OnePacer, InPacer, ForcedByPacer, RoomForForced, FilledBySender,
              QueueBounded
<1> QED BY <1>8, <1>9, <1>10, <1>11, <1>12 DEF XmitInv

\* A thread stops filling a message, whose RPC is or becomes dead.
LEMMA FillFailsInv ==
  ASSUME XmitAssumptions, XmitInv, NEW t \in Threads, FillFails(t)
  PROVE  XmitInv'
<1>1. PICK r \in Rpcs : r = thread[t].rpc
  BY DEF FillFails, XmitInv, XmitTypeOK
<1>2. /\ thread[t].pc = "fill" /\ At(t, "idle")
      /\ UNCHANGED <<throttled, backlog, retrans, fifo_count>>
  BY DEF FillFails
<1>3. PICK k \in ThreadType : k = Thread("idle", None, FALSE, FALSE)
  BY DEF ThreadType, Thread
<1>4. k.pc = "idle" /\ k.rpc \notin Rpcs /\ k.force = FALSE /\ k.fill = FALSE
  BY <1>3 DEF Thread, XmitAssumptions
<1>5. /\ thread' \in [Threads -> ThreadType] /\ thread'[t] = k
      /\ \A s \in Threads : s # t => thread'[s] = thread[s]
  <2>1. thread' = [thread EXCEPT ![t] = k]
    BY <1>2, <1>3 DEF At
  <2> QED BY <2>1, ThreadMoves DEF XmitInv
<1>6. PICK st \in {"none", "dead", "ended", "freed"} :
        /\ st = IF Live(r) THEN "dead" ELSE msgout[r].state
        /\ msgout' = [msgout EXCEPT ![r].state = st]
  <2>1. msgout[r].state \in {"none", "live", "dead", "ended", "freed"}
    BY DEF XmitInv, XmitTypeOK, MsgOutType
  <2>2. msgout' = [msgout EXCEPT ![r].state = IF Live(r) THEN "dead" ELSE msgout[r].state]
    BY <1>1 DEF FillFails
  <2>3. CASE Live(r)
    BY <2>2, <2>3
  <2>4. CASE ~Live(r)
    BY <2>1, <2>2, <2>4 DEF Live
  <2> QED BY <2>3, <2>4
<1>7. PICK m \in MsgOutType : m = [msgout[r] EXCEPT !.state = st]
  <2>1. msgout[r] \in MsgOutType
    BY DEF XmitInv, XmitTypeOK
  <2>2. [msgout[r] EXCEPT !.state = st] \in MsgOutType
    BY <2>1 DEF MsgOutType
  <2> QED BY <2>2
<1>8. /\ m.next = msgout[r].next /\ m.granted = msgout[r].granted
      /\ m.filled = msgout[r].filled /\ m.state = st
  BY <1>7 DEF XmitInv, XmitTypeOK, MsgOutType
<1>9. /\ msgout' \in [Rpcs -> MsgOutType] /\ msgout'[r] = m
      /\ \A x \in Rpcs : x # r => msgout'[x] = msgout[x]
  <2>1. msgout' = [msgout EXCEPT ![r] = m]
    BY <1>6, <1>7
  <2> QED BY <2>1 DEF XmitInv, XmitTypeOK
<1>10. XmitTypeOK'
  <2>1. \A s \in Threads : thread'[s].pc \in {"fill", "xmit"} <=> thread'[s].rpc \in Rpcs
    BY <1>4, <1>5 DEF XmitInv, XmitTypeOK
  <2>2. \A x \in Rpcs : /\ msgout'[x].next <= msgout'[x].filled
                        /\ msgout'[x].next <= msgout'[x].granted
                        /\ msgout'[x].granted <= Length[x]
    BY <1>8, <1>9 DEF XmitInv, XmitTypeOK
  <2> QED BY <1>2, <1>5, <1>9, <2>1, <2>2 DEF XmitInv, XmitTypeOK
<1>11. FreshUnsent'
  BY <1>6, <1>8, <1>9 DEF XmitInv, FreshUnsent
<1>12. NoneStranded'
  <2> SUFFICES ASSUME NEW x \in Rpcs, Live(x)', Ready(x)'
               PROVE  Throttled(x)' \/ \E s \in Threads : thread'[s].rpc = x
    BY DEF NoneStranded
  <2>1. x # r
    BY <1>8, <1>9 DEF Live
  <2>2. Live(x) /\ Ready(x)
    BY <1>9, <2>1 DEF Live, Ready
  <2>3. Throttled(x) \/ \E s \in Threads : thread[s].rpc = x
    BY <2>2 DEF XmitInv, NoneStranded
  <2> QED BY <1>1, <1>2, <1>5, <2>1, <2>3 DEF Throttled
<1>13. ThrottledLive'
  <2> SUFFICES ASSUME NEW x \in Range(throttled) PROVE msgout'[x].state \in {"live", "dead"}
    BY <1>2 DEF XmitInv, ThrottledLive
  <2>1. x \in Rpcs
    BY SMTT(60) DEF XmitInv, XmitTypeOK, Range
  <2>2. msgout[x].state \in {"live", "dead"}
    BY DEF XmitInv, ThrottledLive
  <2> QED BY <1>6, <1>8, <1>9, <2>1, <2>2 DEF Live
<1>14. (OnePacer /\ ForcedByPacer /\ RoomForForced /\ FilledBySender /\ QueueBounded)'
  <2>1. Pacers \subseteq Threads
    BY DEF Threads
  <2> QED BY <1>2, <1>4, <1>5, <2>1 DEF XmitInv, OnePacer, InPacer, ForcedByPacer, RoomForForced,
                                      FilledBySender, QueueBounded
<1> QED BY <1>10, <1>11, <1>12, <1>13, <1>14 DEF XmitInv

\* A queue that grows by what is retransmitted stays within its bounds.
LEMMA BoundKept ==
  ASSUME NEW b \in Nat, NEW c \in Nat, NEW p \in Nat, NEW q \in Nat, NEW m \in Nat,
         c + p <= b + q
  PROVE  /\ b <= m + 1 + p => c <= m + 1 + q
         /\ b <= m + 2 + p => c <= m + 2 + q
BY SMTT(60)

\* The NIC's queue changes by what is sent or retransmitted.
LEMMA QueueChanges ==
  ASSUME XmitAssumptions, XmitInv, backlog' \in Nat, retrans' \in Nat,
         backlog' + retrans <= backlog + retrans',
         UNCHANGED <<msgout, throttled, fifo_count, thread>>
  PROVE  XmitInv'
<1>1. XmitTypeOK' /\ FreshUnsent' /\ NoneStranded' /\ ThrottledLive'
  BY DEF XmitInv, XmitTypeOK, FreshUnsent, NoneStranded, Live, Ready, Throttled, ThrottledLive
<1>2. OnePacer' /\ ForcedByPacer' /\ FilledBySender'
  BY DEF XmitInv, OnePacer, InPacer, ForcedByPacer, FilledBySender
<1>3. backlog \in Nat /\ retrans \in Nat /\ MaxQueue \in Nat
  BY DEF XmitInv, XmitTypeOK, XmitAssumptions
<1>4. /\ backlog <= MaxQueue + 1 + retrans => backlog' <= MaxQueue + 1 + retrans'
      /\ backlog <= MaxQueue + 2 + retrans => backlog' <= MaxQueue + 2 + retrans'
  BY <1>3, BoundKept
<1>5. RoomForForced' /\ QueueBounded'
  BY <1>4 DEF XmitInv, RoomForForced, QueueBounded
<1> QED BY <1>1, <1>2, <1>5 DEF XmitInv

\* The NIC sends a packet.
LEMMA DrainInv == ASSUME XmitAssumptions, XmitInv, Drain PROVE XmitInv'
<1>1. backlog \in Nat /\ retrans \in Nat
  BY DEF XmitInv, XmitTypeOK
<1>2. /\ backlog > 0 /\ backlog' = backlog - 1
      /\ UNCHANGED <<msgout, throttled, retrans, fifo_count, thread>>
  BY DEF Drain
<1>3. backlog' \in Nat /\ retrans' \in Nat /\ backlog' + retrans <= backlog + retrans'
  BY <1>1, <1>2, SMTT(60)
<1> QED BY <1>2, <1>3, QueueChanges

\* What is known of a message.
LEMMA MsgFacts ==
  ASSUME XmitAssumptions, XmitInv, NEW r \in Rpcs
  PROVE  /\ msgout[r] \in MsgOutType /\ Length[r] \in Nat /\ Unscheduled \in Nat
         /\ msgout[r].next <= msgout[r].granted /\ msgout[r].granted <= Length[r]
         /\ msgout[r].next <= msgout[r].filled
         /\ msgout[r].next \in Nat /\ msgout[r].granted \in Nat /\ msgout[r].filled \in Nat
         /\ backlog \in Nat /\ retrans \in Nat
         /\ backlog + 0 = backlog /\ retrans + 0 = retrans
<1>1. /\ msgout[r] \in MsgOutType /\ Length[r] \in Nat /\ Unscheduled \in Nat
      /\ msgout[r].next <= msgout[r].granted /\ msgout[r].granted <= Length[r]
      /\ msgout[r].next <= msgout[r].filled
      /\ backlog \in Nat /\ retrans \in Nat
  BY DEF XmitInv, XmitTypeOK, XmitAssumptions
<1>2. backlog + 0 = backlog /\ retrans + 0 = retrans
  BY <1>1, SMTT(60)
<1> QED BY <1>1, <1>2 DEF MsgOutType

\* A message is created.
LEMMA StartInv ==
  ASSUME XmitAssumptions, XmitInv, NEW t \in Senders, NEW r \in Rpcs,
         homa_message_out_init(t, r)
  PROVE  XmitInv'
<1>1. PICK g \in Nat : g = IF Unscheduled < Length[r] THEN Unscheduled ELSE Length[r]
  BY MsgFacts
<1>2. PICK m \in MsgOutType : m = [msgout[r] EXCEPT !.state = "live", !.granted = g]
  <2>1. [msgout[r] EXCEPT !.state = "live", !.granted = g] \in MsgOutType
    BY MsgFacts DEF MsgOutType
  <2> QED BY <2>1
<1>3. /\ m.next = msgout[r].next /\ m.granted = g /\ m.filled = msgout[r].filled
      /\ m.state = "live"
  BY <1>2, MsgFacts DEF MsgOutType
<1>4. msgout' = [msgout EXCEPT ![r] = m]
  BY <1>1, <1>2 DEF homa_message_out_init, XmitInv, XmitTypeOK
<1>5. /\ thread[t].pc = "idle" /\ msgout[r].state = "none" /\ Copying(t, r)
      /\ UNCHANGED <<throttled, backlog, retrans, fifo_count>>
  BY DEF homa_message_out_init
<1>6. m.next = 0
  BY <1>3, <1>5 DEF XmitInv, FreshUnsent
<1>7. g <= Length[r]
  BY <1>1, MsgFacts, SMTT(60)
<1>8. m.next <= m.granted /\ m.next <= m.filled /\ m.granted <= Length[r]
  <2>1. 0 <= g
    BY SMTT(60)
  <2> QED BY <1>3, <1>6, <1>7, <2>1, MsgFacts
<1>9. PICK k \in ThreadType : k = Thread("fill", r, FALSE, TRUE)
  BY DEF ThreadType, Thread
<1>10. k.pc = "fill" /\ k.rpc = r /\ k.force = FALSE /\ thread' = [thread EXCEPT ![t] = k]
  BY <1>5, <1>9 DEF Copying, Thread
<1>11. backlog' = backlog + 0 /\ retrans' = retrans + 0 /\ 0 \in Nat
  BY <1>5, MsgFacts
<1> QED BY <1>3, <1>4, <1>5, <1>8, <1>10, <1>11, SenderMoves

\* The granted packets of a message become more, after a GRANT or a RESEND.
LEMMA GrantInv ==
  ASSUME XmitAssumptions, XmitInv, NEW t \in Senders, NEW r \in Rpcs, NEW n \in Nat,
         NEW g \in Nat, thread[t].pc = "idle", Live(r),
         msgout[r].granted <= g, g <= Length[r],
         msgout' = [msgout EXCEPT ![r].granted = g], CallXmit(t, r, FALSE, FALSE),
         backlog' = backlog + n, retrans' = retrans + n, UNCHANGED <<throttled, fifo_count>>
  PROVE  XmitInv'
<1>1. PICK m \in MsgOutType : m = [msgout[r] EXCEPT !.granted = g]
  <2>1. [msgout[r] EXCEPT !.granted = g] \in MsgOutType
    BY MsgFacts DEF MsgOutType
  <2> QED BY <2>1
<1>2. /\ m.next = msgout[r].next /\ m.granted = g /\ m.filled = msgout[r].filled
      /\ m.state = "live"
  BY <1>1, MsgFacts DEF MsgOutType, Live
<1>3. msgout' = [msgout EXCEPT ![r] = m]
  BY <1>1
<1>4. m.next <= m.granted
  BY <1>2, MsgFacts, SMTT(60)
<1>5. PICK k \in ThreadType : k = Thread("xmit", r, FALSE, FALSE)
  BY DEF ThreadType, Thread
<1>6. k.pc = "xmit" /\ k.rpc = r /\ k.force = FALSE /\ thread' = [thread EXCEPT ![t] = k]
  BY <1>5 DEF CallXmit, Thread
<1> QED BY <1>2, <1>3, <1>4, <1>6, MsgFacts, SenderMoves DEF Live

\* A GRANT arrives.
LEMMA GrantPktInv ==
  ASSUME XmitAssumptions, XmitInv, NEW t \in Senders, NEW r \in Rpcs, GrantPkt(t, r)
  PROVE  XmitInv'
<1>1. /\ thread[t].pc = "idle" /\ Live(r) /\ CallXmit(t, r, FALSE, FALSE)
      /\ msgout[r].granted < Length[r]
      /\ UNCHANGED <<throttled, backlog, retrans, fifo_count>>
  BY DEF GrantPkt
<1>2. PICK g \in Nat : g = msgout[r].granted + 1
  BY MsgFacts, SMTT(60)
<1>3. msgout' = [msgout EXCEPT ![r].granted = g]
  BY <1>2 DEF GrantPkt
<1>4. msgout[r].granted <= g /\ g <= Length[r]
  BY <1>1, <1>2, MsgFacts, SMTT(60)
<1>5. backlog' = backlog + 0 /\ retrans' = retrans + 0 /\ 0 \in Nat
  BY <1>1, MsgFacts
<1> QED BY <1>1, <1>3, <1>4, <1>5, GrantInv

\* A RESEND arrives: packets are sent again, and a lost grant is made up for.
LEMMA ResendInv ==
  ASSUME XmitAssumptions, XmitInv, NEW t \in Senders, NEW r \in Rpcs,
         NEW n \in 0 .. Length[r], NEW end \in 0 .. Length[r], homa_resend_pkt(t, r, n, end)
  PROVE  XmitInv'
<1>1. /\ thread[t].pc = "idle" /\ Live(r) /\ UNCHANGED <<throttled, fifo_count>>
      /\ backlog' = backlog + n /\ retrans' = retrans + n
  BY DEF homa_resend_pkt, homa_resend_data
<1>2. n \in Nat /\ end \in Nat /\ end <= Length[r]
  BY MsgFacts, SMTT(60)
<1>3. CASE end > msgout[r].granted
  <2>1. msgout[r].granted <= end
    BY <1>2, <1>3, MsgFacts, SMTT(60)
  <2>2. msgout' = [msgout EXCEPT ![r].granted = end] /\ CallXmit(t, r, FALSE, FALSE)
    BY <1>3 DEF homa_resend_pkt
  <2> QED BY <1>1, <1>2, <2>1, <2>2, GrantInv
<1>4. CASE ~(end > msgout[r].granted)
  <2>1. UNCHANGED <<msgout, throttled, fifo_count, thread>>
    BY <1>1, <1>4 DEF homa_resend_pkt
  <2>2. backlog' \in Nat /\ retrans' \in Nat /\ backlog' + retrans <= backlog + retrans'
    BY <1>1, <1>2, MsgFacts, SMTT(60)
  <2> QED BY <2>1, <2>2, QueueChanges
<1> QED BY <1>3, <1>4

\* A packet that was copied joins its message.
LEMMA LinkPacketInv ==
  ASSUME XmitAssumptions, XmitInv, NEW t \in Threads, LinkPacket(t)
  PROVE  XmitInv'
<1>1. PICK r \in Rpcs : r = thread[t].rpc
  BY DEF LinkPacket, XmitInv, XmitTypeOK
<1>2. /\ thread[t].pc = "fill" /\ Live(r) /\ UNCHANGED <<throttled, backlog, retrans, fifo_count>>
  BY <1>1 DEF LinkPacket
<1>3. t \in Senders
  BY <1>2 DEF XmitInv, FilledBySender
<1>4. PICK m \in MsgOutType : m = [msgout[r] EXCEPT !.filled = msgout[r].filled + 1]
  <2>1. msgout[r].filled + 1 \in Nat
    BY MsgFacts, SMTT(60)
  <2>2. [msgout[r] EXCEPT !.filled = msgout[r].filled + 1] \in MsgOutType
    BY <2>1, MsgFacts DEF MsgOutType
  <2> QED BY <2>2
<1>5. /\ m.next = msgout[r].next /\ m.granted = msgout[r].granted
      /\ m.filled = msgout[r].filled + 1 /\ m.state = "live"
  BY <1>2, <1>4, MsgFacts DEF MsgOutType, Live
<1>6. msgout' = [msgout EXCEPT ![r] = m]
  BY <1>1, <1>4 DEF LinkPacket
<1>7. m.next <= m.filled /\ m.next <= m.granted /\ m.granted <= Length[r]
  BY <1>5, MsgFacts, SMTT(60)
<1>8. PICK k \in ThreadType : /\ k.pc \in {"fill", "xmit"} /\ k.rpc = r /\ k.force = FALSE
                             /\ thread' = [thread EXCEPT ![t] = k]
  <2>1. PICK k : /\ thread' = [thread EXCEPT ![t] = k]
                 /\ \/ k = Thread("xmit", r, FALSE, TRUE)
                    \/ k = Thread("fill", r, FALSE, TRUE)
                    \/ k = Thread("xmit", r, FALSE, FALSE)
    BY <1>1 DEF LinkPacket, CallXmit, Copying
  <2> QED BY <2>1 DEF Thread, ThreadType
<1>9. backlog' = backlog + 0 /\ retrans' = retrans + 0 /\ 0 \in Nat
  BY <1>2, MsgFacts
<1> QED BY <1>1, <1>2, <1>3, <1>5, <1>6, <1>7, <1>8, <1>9, SenderMoves DEF Live

-----------------------------------------------------------------------------

\* Every step keeps the inductive invariant.
LEMMA StepXmit == ASSUME XmitAssumptions, XmitInv, [Next]_xmitVars PROVE XmitInv'
<1>1. CASE UNCHANGED xmitVars
  <2>1. XmitTypeOK' /\ FreshUnsent' /\ NoneStranded' /\ ThrottledLive'
    BY <1>1 DEF xmitVars, XmitInv, XmitTypeOK, FreshUnsent, NoneStranded, Live, Ready, Throttled,
                ThrottledLive
  <2>2. (OnePacer /\ ForcedByPacer /\ RoomForForced /\ FilledBySender /\ QueueBounded)'
    BY <1>1 DEF xmitVars, XmitInv, OnePacer, InPacer, ForcedByPacer, RoomForForced,
                FilledBySender, QueueBounded
  <2> QED BY <2>1, <2>2 DEF XmitInv
<1>2. ASSUME NEW t \in Senders, NEW r \in Rpcs,
             \/ homa_message_out_init(t, r) \/ GrantPkt(t, r)
             \/ \E n, end \in 0 .. Length[r] : homa_resend_pkt(t, r, n, end)
      PROVE  XmitInv'
  BY <1>2, StartInv, GrantPktInv, ResendInv
<1>3. ASSUME NEW t \in Threads, ThreadStep(t)  PROVE  XmitInv'
  BY <1>3, LinkPacketInv, FillFailsInv, XmitPacketInv, XmitReturnsInv, EnterPacerInv,
     PacerLoopInv, PickRpcInv, MainInv DEF ThreadStep
<1>4. CASE \E r \in Rpcs : EndRpc(r) \/ FinishEnd(r) \/ Reap(r)
  BY <1>4, RpcEnds
<1> QED BY <1>1, <1>2, <1>3, <1>4, CheckInv, DrainInv DEF Next

\* ThrottledExact holds for any number of messages, senders and packets: every
\* message that may be sent is on the throttled list or with a thread, the list
\* names no RPC twice and none that may be freed, no packet is sent before it is
\* copied or without a grant, fifo_count stays in range, and the NIC queue
\* exceeds its limit by at most two packets besides retransmissions.
THEOREM ThrottledList == ASSUME XmitAssumptions PROVE Spec => []ThrottledExact
<1>1. Init => XmitInv
  BY InitXmit
<1>2. XmitInv /\ [Next]_xmitVars => XmitInv'
  BY StepXmit
<1>3. XmitInv => ThrottledExact
  BY DEF XmitInv, ThrottledExact
<1> QED BY <1>1, <1>2, <1>3, PTL DEF Spec
=============================================================================
