----------------------------- MODULE HomaMsgIn -----------------------------
(***************************************************************************)
(* Reassembly of one incoming message: struct homa_message_in as the       *)
(* softirq code (homa_data_pkt, homa_add_packet), the timer                *)
(* (homa_request_retrans) and one receiving thread (homa_copy_to_pool)     *)
(* use it.  The message is the response of a client RPC: the RPC starts in *)
(* RPC_OUTGOING and the first DATA packet initialises msgin.               *)
(*                                                                         *)
(* Byte ranges are records [start, end) as in struct homa_gap.  The gap    *)
(* list of the code is always in ascending order (homa_add_packet appends  *)
(* a gap that starts at recv_end, or inserts the low half of a split gap   *)
(* before the high half), so it is modelled as a set ordered by start.     *)
(***************************************************************************)
EXTENDS Integers, Sequences, FiniteSets

CONSTANTS
    Packets,      \* byte ranges that DATA packets of this message may carry
    Length,       \* message_length in the header of every one of them
    Unsched,      \* the "incoming" header field of the first one that arrives
    MaxSkbs,      \* MAX_SKBS of homa_copy_to_pool
    RegionFirst   \* the application sets SO_HOMA_RCVBUF before it sends

\* Byte ranges [start, end), never empty: homa_data_len() of a DATA packet is
\* positive because homa_message_out_fill rejects empty messages.
ByteRange == {r \in [start : Nat, end : Nat] : r.start < r.end}

ASSUME PacketsAssumption == Packets \subseteq ByteRange
ASSUME LengthAssumption == Length \in Nat \ {0}
ASSUME UnschedAssumption == Unsched \in Nat
ASSUME MaxSkbsAssumption == MaxSkbs \in Nat \ {0}
ASSUME RegionFirstAssumption == RegionFirst \in BOOLEAN

VARIABLES
    region,       \* hsk->buffer_pool->region is set
    state,        \* rpc->state
    msgin,        \* rpc->msgin
    pkts_ready,   \* the RPC_PKTS_READY bit of rpc->flags
    handed_off,   \* the RPC is queued for, or given to, a receiving thread
    receiver,     \* where the receiving thread is in homa_copy_to_pool
    skbs,         \* the packets it has dequeued and copies without the lock
    copied,       \* bytes of the message stored in the buffer pool
    result        \* what recvmsg returned for this RPC

vars == <<region, state, msgin, pkts_ready, handed_off, receiver, skbs, copied, result>>

Bytes(r) == r.start .. (r.end - 1)

BytesOf(q) == UNION {Bytes(q[i]) : i \in DOMAIN q}

\* The bytes that msgin records as received: those below recv_end that no gap
\* covers.
Received(m) == {b \in 0 .. (m.recv_end - 1) : \A g \in m.gaps : b \notin Bytes(g)}

-----------------------------------------------------------------------------
(* homa_message_in_init *)

\* msgin of a freshly allocated client RPC (kzalloc, then length = -1).
NoMessage == [length |-> -1, bytes_remaining |-> 0, recv_end |-> 0, gaps |-> {},
              granted |-> 0, num_bpages |-> 0, packets |-> <<>>]

\* homa_pool_alloc_msg outcomes: "ok" (bpages allocated), "wait" (the RPC was
\* queued on waiting_for_bufs), "err" (the socket has no buffer region).
homa_pool_alloc_msg == IF region THEN {"ok", "wait"} ELSE {"err"}

homa_message_in_init(alloc) ==
    [NoMessage EXCEPT
        !.length = IF alloc = "err" THEN -1 ELSE Length,
        !.bytes_remaining = Length,
        !.num_bpages = IF alloc = "ok" THEN 1 ELSE 0,
        !.granted = IF alloc = "err" THEN 0
                    ELSE IF Unsched >= Length THEN Length ELSE Unsched]

-----------------------------------------------------------------------------
(* homa_add_packet: mem says whether homa_gap_alloc succeeds *)

\* The "keep" label: queue the packet and count its bytes.
Keep(m, p) == [m EXCEPT !.packets = Append(@, p),
                        !.bytes_remaining = @ - (p.end - p.start)]

Overlaps(p, g) == p.start < g.end /\ g.start < p.end

\* Mutant: no test that the packet starts inside the gap.
FillsGap_StartUnchecked(m, p, g, mem) ==
    /\ Overlaps(p, g)
    /\ \A h \in m.gaps : Overlaps(p, h) => g.start <= h.start
    /\ p.end <= g.end

\* The walk over the gap list stops at the first gap the packet overlaps; the
\* packet is kept only if it lies inside that gap.  A packet strictly inside
\* it needs a second homa_gap.
FillsGap(m, p, g, mem) ==
    /\ Overlaps(p, g)
    /\ \A h \in m.gaps : Overlaps(p, h) => g.start <= h.start
    /\ g.start <= p.start /\ p.end <= g.end
    /\ g.start < p.start /\ p.end < g.end => mem

\* Mutant: the high part of a split gap starts one byte early.
RestOfGap_OffByOne(g, p) ==
    {r \in {[start |-> g.start, end |-> p.start], [start |-> p.end - 1, end |-> g.end]} :
        r.start < r.end}

\* What is left of gap g once packet p has been kept.
RestOfGap(g, p) ==
    {r \in {[start |-> g.start, end |-> p.start], [start |-> p.end, end |-> g.end]} :
        r.start < r.end}

homa_add_packet(m, p, mem) ==
    CASE p.end > m.length -> m
      [] p.end <= m.length /\ p.start = m.recv_end ->
            Keep([m EXCEPT !.recv_end = p.end], p)
      [] p.end <= m.length /\ p.start > m.recv_end /\ mem ->
            Keep([m EXCEPT !.gaps = @ \cup {[start |-> m.recv_end, end |-> p.start]},
                           !.recv_end = p.end], p)
      [] p.end <= m.length /\ p.start < m.recv_end
            /\ \E g \in m.gaps : FillsGap(m, p, g, mem) ->
            LET g == CHOOSE g \in m.gaps : FillsGap(m, p, g, mem)
            IN  Keep([m EXCEPT !.gaps = (@ \ {g}) \cup RestOfGap(g, p)], p)
      [] OTHER -> m

-----------------------------------------------------------------------------
(* homa_data_pkt *)

\* The rest of homa_data_pkt once msgin is initialised: drop the packet if
\* there is no buffer space, else add it and hand the RPC off when it has
\* packets and RPC_PKTS_READY was clear.
AcceptData(m, p, mem) ==
    LET m2 == IF m.num_bpages = 0 THEN m ELSE homa_add_packet(m, p, mem)
        notify == m.num_bpages # 0 /\ m2.packets # <<>> /\ ~pkts_ready
    IN  /\ msgin' = m2
        /\ pkts_ready' = (pkts_ready \/ notify)
        /\ handed_off' = (handed_off \/ notify)

\* A DATA packet arrives.  A dead RPC is not found (or is discarded by the
\* state tests at the top of homa_data_pkt), so nothing happens for it.
homa_data_pkt(p, mem) ==
    /\ \/ /\ state = "RPC_OUTGOING"
          /\ state' = "RPC_INCOMING"
          /\ \E alloc \in homa_pool_alloc_msg :
                AcceptData(homa_message_in_init(alloc), p, mem)
       \/ /\ state = "RPC_INCOMING"
          /\ AcceptData(msgin, p, mem)
          /\ UNCHANGED state
    /\ UNCHANGED <<region, receiver, skbs, copied, result>>

\* homa_pool_set_region, called by setsockopt(SO_HOMA_RCVBUF).
homa_pool_set_region ==
    /\ ~region
    /\ region' = TRUE
    /\ UNCHANGED <<state, msgin, pkts_ready, handed_off, receiver, skbs, copied, result>>

\* homa_pool_check_waiting found space for the message: it retries
\* homa_pool_alloc_msg under the RPC lock.
GetBuffers ==
    /\ state = "RPC_INCOMING"
    /\ msgin.length >= 0 /\ msgin.num_bpages = 0
    /\ msgin' = [msgin EXCEPT !.num_bpages = 1]
    /\ UNCHANGED <<region, state, pkts_ready, handed_off, receiver, skbs, copied, result>>

\* The grant code raises msgin.granted (it needs buffer space and a live RPC).
Grant(offset) ==
    /\ state = "RPC_INCOMING" /\ msgin.num_bpages # 0
    /\ msgin.granted < offset /\ offset <= msgin.length
    /\ msgin' = [msgin EXCEPT !.granted = offset]
    /\ UNCHANGED <<region, state, pkts_ready, handed_off, receiver, skbs, copied, result>>

-----------------------------------------------------------------------------
(* homa_request_retrans *)

\* Mutant: the data after the last gap is requested only if there is no gap.
homa_request_retrans_NoTail(m) ==
    IF m.length >= 0
    THEN IF m.gaps # {} THEN m.gaps
         ELSE IF m.granted > m.recv_end
              THEN {[start |-> m.recv_end, end |-> m.granted]} ELSE {}
    ELSE {[start |-> 0, end |-> -1]}

\* The ranges of the RESEND packets issued for m; the single range with end -1
\* stands for "everything sent so far" (length -1).
homa_request_retrans(m) ==
    IF m.length >= 0
    THEN m.gaps \cup (IF m.granted > m.recv_end
                      THEN {[start |-> m.recv_end, end |-> m.granted]} ELSE {})
    ELSE {[start |-> 0, end |-> -1]}

-----------------------------------------------------------------------------
(* The receiving thread: homa_wait_shared / homa_wait_private around        *)
(* homa_copy_to_pool, for an RPC whose error field is 0.                    *)

\* The thread picks up the RPC that was handed off to it and locks it.
StartReceive ==
    /\ handed_off /\ receiver = "waiting" /\ state # "RPC_DEAD"
    /\ handed_off' = FALSE
    /\ receiver' = "copy_loop"
    /\ UNCHANGED <<region, state, msgin, pkts_ready, skbs, copied, result>>

\* Top of the loop: dequeue up to MaxSkbs packets, then release the RPC lock.
Dequeue ==
    /\ receiver = "copy_loop" /\ state # "RPC_DEAD" /\ skbs = <<>>
    /\ msgin.packets # <<>>
    /\ LET n == IF Len(msgin.packets) < MaxSkbs THEN Len(msgin.packets) ELSE MaxSkbs
       IN  /\ skbs' = SubSeq(msgin.packets, 1, n)
           /\ msgin' = [msgin EXCEPT !.packets = SubSeq(@, n + 1, Len(@))]
    /\ UNCHANGED <<region, state, pkts_ready, handed_off, receiver, copied, result>>

\* Copy the batch into the buffer pool without the lock, then relock.
CopyBatch ==
    /\ receiver = "copy_loop" /\ skbs # <<>>
    /\ copied' = copied \cup BytesOf(skbs)
    /\ skbs' = <<>>
    /\ UNCHANGED <<region, state, msgin, pkts_ready, handed_off, receiver, result>>

\* Mutant: the error of a failed copy is dropped and the loop goes on.
CopyFails_ErrorIgnored ==
    /\ receiver = "copy_loop" /\ skbs # <<>>
    /\ skbs' = <<>>
    /\ UNCHANGED <<region, state, msgin, pkts_ready, handed_off, receiver, copied, result>>

\* The copy fails (bad buffer address): the batch is freed, the error is stored
\* in rpc->error and recvmsg returns it and ends the RPC.
CopyFails ==
    /\ receiver = "copy_loop" /\ skbs # <<>>
    /\ skbs' = <<>>
    /\ receiver' = "waiting"
    /\ result' = IF state = "RPC_DEAD" THEN result ELSE "error"
    /\ state' = "RPC_DEAD"
    /\ msgin' = [msgin EXCEPT !.gaps = {}]
    /\ UNCHANGED <<region, pkts_ready, handed_off, copied>>

\* Mutant: the thread leaves after one batch without looking at the queue again.
EndOfQueue_NoRecheck ==
    /\ receiver = "copy_loop" /\ state # "RPC_DEAD" /\ skbs = <<>>
    /\ pkts_ready' = FALSE
    /\ receiver' = "waiting"
    /\ IF msgin.bytes_remaining = 0 /\ msgin.packets = <<>>
       THEN result' = "ok" /\ state' = "RPC_DEAD"
       ELSE UNCHANGED <<result, state>>
    /\ UNCHANGED <<region, msgin, handed_off, skbs, copied>>

\* Mutant: RPC_PKTS_READY is never cleared.
EndOfQueue_FlagKept ==
    /\ receiver = "copy_loop" /\ state # "RPC_DEAD" /\ skbs = <<>>
    /\ msgin.packets = <<>>
    /\ receiver' = "waiting"
    /\ IF msgin.bytes_remaining = 0
       THEN result' = "ok" /\ state' = "RPC_DEAD"
       ELSE UNCHANGED <<result, state>>
    /\ UNCHANGED <<region, msgin, pkts_ready, handed_off, skbs, copied>>

\* The queue is empty: clear RPC_PKTS_READY.  If the message is complete the
\* thread returns it (recvmsg then calls homa_rpc_end), else it waits again.
EndOfQueue ==
    /\ receiver = "copy_loop" /\ state # "RPC_DEAD" /\ skbs = <<>>
    /\ msgin.packets = <<>>
    /\ pkts_ready' = FALSE
    /\ receiver' = "waiting"
    /\ IF msgin.bytes_remaining = 0
       THEN result' = "ok" /\ state' = "RPC_DEAD"
       ELSE UNCHANGED <<result, state>>
    /\ UNCHANGED <<region, msgin, handed_off, skbs, copied>>

\* The thread finds that the RPC died while the lock was released.
FoundDead ==
    /\ receiver = "copy_loop" /\ state = "RPC_DEAD" /\ skbs = <<>>
    /\ receiver' = "waiting"
    /\ UNCHANGED <<region, state, msgin, pkts_ready, handed_off, skbs, copied, result>>

\* Some other code ends the RPC (HOMAIOCABORT, socket shutdown): homa_rpc_end
\* frees the gaps and makes the RPC unreachable.
homa_rpc_end ==
    /\ state # "RPC_DEAD"
    /\ state' = "RPC_DEAD"
    /\ msgin' = IF msgin.length >= 0 THEN [msgin EXCEPT !.gaps = {}] ELSE msgin
    /\ handed_off' = FALSE
    /\ UNCHANGED <<region, pkts_ready, receiver, skbs, copied, result>>

-----------------------------------------------------------------------------

Init ==
    /\ region = RegionFirst
    /\ state = "RPC_OUTGOING"
    /\ msgin = NoMessage
    /\ pkts_ready = FALSE
    /\ handed_off = FALSE
    /\ receiver = "waiting"
    /\ skbs = <<>>
    /\ copied = {}
    /\ result = "none"

Receive == StartReceive \/ Dequeue \/ CopyBatch \/ EndOfQueue \/ FoundDead

Next ==
    \/ \E p \in Packets, mem \in BOOLEAN : homa_data_pkt(p, mem)
    \/ homa_pool_set_region
    \/ GetBuffers
    \/ \E offset \in 1 .. Length : Grant(offset)
    \/ Receive
    \/ CopyFails
    \/ homa_rpc_end

Spec == Init /\ [][Next]_vars

\* Fairness.  Every missing range is requested again each resend_interval
\* (homa_timer) and the sender answers, so a packet that stays missing keeps
\* arriving, and not all of those arrivals meet a failing kmalloc; a thread
\* that can run in recvmsg eventually does; freed bpages reach the RPC.
Fairness ==
    /\ \A p \in Packets : WF_vars(homa_data_pkt(p, TRUE))
    /\ WF_vars(homa_pool_set_region)
    /\ WF_vars(GetBuffers)
    /\ WF_vars(Receive)

FairSpec == Spec /\ Fairness

-----------------------------------------------------------------------------
(* Properties *)

MessageIn == [length : {-1, Length}, bytes_remaining : Int, recv_end : Nat,
              gaps : SUBSET ByteRange, granted : 0 .. Length,
              num_bpages : {0, 1}, packets : Seq(ByteRange)]

\* Type invariant.
TypeOK ==
    /\ region \in BOOLEAN
    /\ state \in {"RPC_OUTGOING", "RPC_INCOMING", "RPC_DEAD"}
    /\ msgin \in MessageIn
    /\ pkts_ready \in BOOLEAN
    /\ handed_off \in BOOLEAN
    /\ receiver \in {"waiting", "copy_loop"}
    /\ skbs \in Seq(ByteRange)
    /\ copied \in SUBSET Nat
    /\ result \in {"none", "ok", "error"}

Live == state = "RPC_INCOMING" /\ msgin.length >= 0

\* The gap list describes exactly maximal unreceived ranges: gaps lie below
\* recv_end, two gaps never touch, and the byte after a gap was received
\* (the definition of a gap in man/homa.7, rx_gaps).
GapsMaximal ==
    Live =>
      /\ msgin.recv_end <= msgin.length
      /\ \A g \in msgin.gaps : g.end < msgin.recv_end
      /\ \A g, h \in msgin.gaps : g # h => g.end < h.start \/ h.end < g.start

\* bytes_remaining counts exactly the bytes that are neither received nor
\* recorded otherwise, whatever packets were lost, duplicated or overlapping.
RemainingExact ==
    Live => msgin.bytes_remaining = msgin.length - Cardinality(Received(msgin))

\* The record of what has arrived is exact: gaps, recv_end and bytes_remaining
\* say the same and say what the packets brought, in every order of arrival.
ArrivalsExact == GapsMaximal /\ RemainingExact

\* Every byte marked as received is in exactly one place: in one queued
\* packet, in one packet being copied, or in the buffer pool.  So no byte is
\* lost by a packet that homa_add_packet rejects or by the unlocked copy.
KeptOnce ==
    Live =>
      /\ Received(msgin) = BytesOf(msgin.packets) \cup BytesOf(skbs) \cup copied
      /\ BytesOf(msgin.packets) \cap (BytesOf(skbs) \cup copied) = {}
      /\ BytesOf(skbs) \cap copied = {}
      /\ \A i, j \in DOMAIN msgin.packets :
            i # j => Bytes(msgin.packets[i]) \cap Bytes(msgin.packets[j]) = {}

\* recvmsg returns a message only when all of its bytes are in the buffers.
DeliveredWhole == result = "ok" => copied = 0 .. (Length - 1)

\* RESENDs ask for exactly the missing bytes among those granted or already
\* passed: nothing that was received, and nothing missing is forgotten.
RetransExact ==
    Live =>
      UNION {Bytes(r) : r \in homa_request_retrans(msgin)}
        = {b \in 0 .. (Length - 1) :
              b < msgin.recv_end \/ b < msgin.granted} \ Received(msgin)

\* No lost wakeup: queued packets always have RPC_PKTS_READY set, and while it
\* is set some thread has the RPC or will get it.
PacketsAttended ==
    Live =>
      /\ msgin.packets # <<>> => pkts_ready
      /\ pkts_ready => handed_off \/ receiver = "copy_loop"

\* A byte once received stays received, and the buffer never loses a byte,
\* while the RPC lives.
NothingForgotten ==
    [][Live /\ Live' => /\ Received(msgin) \subseteq Received(msgin)'
                       /\ copied \subseteq copied'
                       /\ msgin'.bytes_remaining <= msgin.bytes_remaining]_vars

\* A response whose packets keep arriving does not stay incoming for ever:
\* recvmsg returns it, unless the RPC is ended.
EventuallyReturned == []<>(state # "RPC_INCOMING")
-----------------------------------------------------------------------------
(* Refinement *)

Abandoned == state = "RPC_DEAD" /\ result # "ok"

Stored == IF Abandoned THEN {} ELSE copied

Accepted == IF Abandoned THEN {}
            ELSE BytesOf(msgin.packets) \cup BytesOf(skbs) \cup copied

Outcome == IF Abandoned THEN "abandoned"
           ELSE IF result = "ok" THEN "delivered" ELSE "open"

Assembly == INSTANCE MessageAssembly WITH
    Size <- Length, got <- Accepted, out <- Stored, status <- Outcome

\* Gaps, retransmission, buffer stalls and the unlocked copy together implement
\* the assembly of one message from its bytes.
ImplementsAssembly == Assembly!ASpec
=============================================================================
