---------------------------- MODULE HomaSegment -----------------------------
(***************************************************************************)
(* How a message becomes packets and packets become a message again        *)
(* (homa_outgoing.c: homa_message_out_fill, homa_tx_data_pkt_alloc,        *)
(* homa_fill_data_interleaved, homa_resend_data).  The sender builds GSO   *)
(* packets of several segments; the NIC splits each payload into pieces of *)
(* gso_size and copies the header in front of every piece; the receiver    *)
(* finds out where a piece belongs from the segment header or, when Homa   *)
(* travels as TCP, from the sequence number that the NIC has advanced.     *)
(*                                                                         *)
(* A byte of the message is represented by its position, and a segment     *)
(* header takes one unit of the packet.                                    *)
(***************************************************************************)
EXTENDS Integers, Sequences, FiniteSets

CONSTANTS
    Lengths,       \* the lengths of messages
    UnschedBytes,  \* the values of the unsched_bytes parameter
    SegData,       \* the values of max_seg_data, which follows from the MTU
    GsoSizes       \* the values of gso_size, without the headers

VARIABLES
    geometry,      \* what homa_message_out_fill computes before its loop
    msgout_pkts,   \* the packets built, as homa_skb_info describes them
    sent,          \* how many of them went to the NIC
    arrived_segs,  \* the segments that reached the other side
    resent         \* those of the last retransmission, and its range

segVars == <<geometry, msgout_pkts, sent, arrived_segs, resent>>

NoResend == [start |-> 0, end |-> 0, segs |-> {}]

MinOf(a, b) == IF a <= b THEN a ELSE b

(***************************************************************************)
(* The geometry: the most data that a GSO packet may have.                 *)
(***************************************************************************)
SegsPerGso(gso, seg, hijack) ==
    IF hijack THEN gso \div seg ELSE (gso + 1) \div (seg + 1)

MaxGsoData(gso, seg, hijack) ==
    IF SegsPerGso(gso, seg, hijack) = 0 THEN seg
    ELSE SegsPerGso(gso, seg, hijack) * seg

homa_message_out_init(length, unsched) ==
    [length |-> length, unscheduled |-> MinOf(unsched, length)]

Init ==
    /\ \E length \in Lengths, unsched \in UnschedBytes, seg \in SegData,
          gso \in GsoSizes, hijack \in BOOLEAN :
         LET m == homa_message_out_init(length, unsched) IN
         geometry = [length |-> m.length, unscheduled |-> m.unscheduled,
                     max_seg_data |-> seg,
                     max_gso_data |-> MaxGsoData(gso, seg, hijack),
                     hijack |-> hijack]
    /\ msgout_pkts = <<>>
    /\ sent = 0
    /\ arrived_segs = {}
    /\ resent = NoResend

(***************************************************************************)
(* Building packets.                                                       *)
(***************************************************************************)
Filled ==
    IF msgout_pkts = <<>> THEN 0
    ELSE msgout_pkts[Len(msgout_pkts)].offset +
         msgout_pkts[Len(msgout_pkts)].data_bytes

(* A packet boundary at the unscheduled limit, so that no extra data is    *)
(* transmitted with the unscheduled part.                                  *)
AtLimit(offset, bytes) ==
    IF /\ offset < geometry.unscheduled
       /\ offset + bytes > geometry.unscheduled
    THEN geometry.unscheduled - offset ELSE bytes

DataBytes(offset) ==
    MinOf(AtLimit(offset, geometry.max_gso_data), geometry.length - offset)

Segs(length) ==
    (length + geometry.max_seg_data - 1) \div geometry.max_seg_data

homa_tx_data_pkt_alloc ==
    /\ Filled < geometry.length
    /\ msgout_pkts' = Append(msgout_pkts,
          [offset |-> Filled, data_bytes |-> DataBytes(Filled),
           segs |-> Segs(DataBytes(Filled))])
    /\ UNCHANGED <<geometry, sent, arrived_segs, resent>>

Interleaved(p) == p.segs > 1 /\ ~geometry.hijack

GsoSize(p) ==
    IF p.segs <= 1 THEN 0
    ELSE IF Interleaved(p) THEN geometry.max_seg_data + 1
    ELSE geometry.max_seg_data

Byte(n) == [kind |-> "byte", at |-> n]
SegHdr(n) == [kind |-> "seg", at |-> n]

(* Every segment after its own segment header; the first of these headers  *)
(* is the end of the packet's homa_data_hdr.                               *)
homa_fill_data_interleaved(p) ==
    LET S == geometry.max_seg_data IN
    [i \in 1..(p.data_bytes + p.segs) |->
        LET at == p.offset + ((i - 1) \div (S + 1)) * S
            in == (i - 1) % (S + 1)
        IN  IF in = 0 THEN SegHdr(at) ELSE Byte(at + in - 1)]

Payload(p) ==
    IF Interleaved(p) THEN homa_fill_data_interleaved(p)
    ELSE [i \in 1..p.data_bytes |-> Byte(p.offset + i - 1)]

(***************************************************************************)
(* The NIC (external) and the receiver.                                    *)
(***************************************************************************)
Slice(s, from, n) == SubSeq(s, from, MinOf(from + n - 1, Len(s)))

(* Piece k of a packet; with several pieces the NIC adds what it has sent  *)
(* of the payload to the sequence number.                                  *)
Piece(p, k) ==
    IF p.segs <= 1 THEN [sequence |-> p.offset, payload |-> Payload(p)]
    ELSE [sequence |-> p.offset + k * GsoSize(p),
          payload |-> Slice(Payload(p), k * GsoSize(p) + 1, GsoSize(p))]

(* homa_gro_receive: a segment offset of -1 means that the sequence number *)
(* has it.  Where there is a segment header it comes first.                *)
Arrive(p, w) ==
    IF Interleaved(p)
    THEN [offset |-> Head(w.payload).at, data |-> Tail(w.payload)]
    ELSE [offset |-> w.sequence, data |-> w.payload]

Pieces(p) == IF p.segs <= 1 THEN {0} ELSE 0..(p.segs - 1)

homa_xmit_data ==
    /\ sent < Len(msgout_pkts)
    /\ sent' = sent + 1
    /\ LET p == msgout_pkts[sent + 1] IN
       arrived_segs' = arrived_segs \cup
                         {Arrive(p, Piece(p, k)) : k \in Pieces(p)}
    /\ UNCHANGED <<geometry, msgout_pkts, resent>>

(***************************************************************************)
(* Retransmission of [start, end): every segment that overlaps it is       *)
(* copied out of the packet it is in.                                      *)
(***************************************************************************)
SegLength(p, k) ==
    IF p.segs <= 1 THEN p.data_bytes
    ELSE MinOf(geometry.max_seg_data,
               p.data_bytes - k * geometry.max_seg_data)

SegOffset(p, k) == p.offset + k * geometry.max_seg_data

(* Where segment k's data starts in the payload.                           *)
SegStart(p, k) == (IF Interleaved(p) THEN 2 ELSE 1) + k * GsoSize(p)

(* Mutant: the segment that ends where the range starts is sent as well,   *)
(* the last one is not.                                                    *)
OverlapsShifted(p, k, start, end) ==
    /\ SegOffset(p, k) + SegLength(p, k) < end
    /\ SegOffset(p, k) + SegLength(p, k) >= start

Overlaps(p, k, start, end) ==
    /\ SegOffset(p, k) < end
    /\ SegOffset(p, k) + SegLength(p, k) > start

ResentSegs(p, start, end) ==
    {[offset |-> SegOffset(p, k),
      data |-> Slice(Payload(p), SegStart(p, k), SegLength(p, k))] :
        k \in {j \in Pieces(p) : Overlaps(p, j, start, end)}}

homa_resend_data(start, end) ==
    /\ start < end
    /\ resent = NoResend
    /\ sent > 0
    /\ end <= msgout_pkts[sent].offset + msgout_pkts[sent].data_bytes
    /\ resent' = [start |-> start, end |-> end,
                  segs |-> UNION {ResentSegs(msgout_pkts[i], start, end) :
                                     i \in DOMAIN msgout_pkts}]
    /\ UNCHANGED <<geometry, msgout_pkts, sent, arrived_segs>>

Next ==
    \/ homa_tx_data_pkt_alloc
    \/ homa_xmit_data
    \/ \E start \in 0..geometry.length, end \in 1..geometry.length :
          homa_resend_data(start, end)

Spec == Init /\ [][Next]_segVars

(***************************************************************************)
(* Properties.                                                             *)
(***************************************************************************)
Covered(w) == {w.data[i].at : i \in DOMAIN w.data}

InPlace(w) ==
    \A i \in DOMAIN w.data : w.data[i] = Byte(w.offset + i - 1)

(* The receiver puts every byte where it belongs, whether the offset comes *)
(* from an interleaved segment header or from the sequence number that the *)
(* NIC adjusted, and a packet that arrives is no longer than the MTU       *)
(* allows.                                                                 *)
BytesInPlace ==
    \A w \in arrived_segs \cup resent.segs :
        InPlace(w) /\ Len(w.data) \in 1..geometry.max_seg_data

(* What has been transmitted covers exactly the part of the message that   *)
(* the packets sent describe, every byte once and none beyond the end.     *)
SentExactly ==
    LET end == IF sent = 0 THEN 0
               ELSE msgout_pkts[sent].offset + msgout_pkts[sent].data_bytes
    IN  /\ end <= geometry.length
        /\ UNION {Covered(w) : w \in arrived_segs} = 0..(end - 1)
        /\ \A v, w \in arrived_segs :
              v # w => Covered(v) \cap Covered(w) = {}

(* A retransmission covers the whole range asked for and every segment of  *)
(* it overlaps the range: neither a byte missing nor a segment for nothing.*)
ResendExact ==
    /\ resent.start..(resent.end - 1) \subseteq
          UNION {Covered(w) : w \in resent.segs}
    /\ \A w \in resent.segs :
          Covered(w) \cap (resent.start..(resent.end - 1)) # {}

(* No packet has data on both sides of the unscheduled limit: what is sent *)
(* without a grant is at most unsched_bytes.                               *)
LimitKept ==
    \A i \in DOMAIN msgout_pkts :
        LET p == msgout_pkts[i] IN
        ~ (/\ p.offset < geometry.unscheduled
           /\ p.offset + p.data_bytes > geometry.unscheduled)

(* The division of a message into packets and segments is exact: offsets,  *)
(* sizes, retransmissions and the unscheduled limit, for TSO and software  *)
(* segmentation alike.                                                     *)
SegmentsExact == BytesInPlace /\ SentExactly /\ ResendExact /\ LimitKept
=============================================================================
