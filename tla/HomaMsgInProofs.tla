--------------------------- MODULE HomaMsgInProofs ---------------------------
(***************************************************************************)
(* Proofs about HomaMsgIn, for every message length, every set of packets  *)
(* and every batch size.                                                   *)
(***************************************************************************)
EXTENDS HomaMsgIn, FiniteSetTheorems, SequenceTheorems, TLAPS

\* The steps are first-order and go to Zenon; the others are marked SMT.
USE ZenonT(60)

\* A message record whose gap list is well formed.
GapsOK(m) ==
    /\ m.recv_end <= m.length
    /\ \A g \in m.gaps : g.end < m.recv_end
    /\ \A g, h \in m.gaps : g # h => g.end < h.start \/ h.end < g.start

CountOK(m) == m.bytes_remaining = m.length - Cardinality(Received(m))

\* Packet p was kept: it is queued, its bytes are new and are now received.
KeptBy(m, m2, p) ==
    /\ m2.packets = Append(m.packets, p)
    /\ m2.bytes_remaining = m.bytes_remaining - (p.end - p.start)
    /\ Bytes(p) \cap Received(m) = {}
    /\ Received(m2) = Received(m) \cup Bytes(p)

\* The received bytes of a message form a finite set of message offsets.
LEMMA ReceivedFinite ==
  ASSUME NEW m \in MessageIn
  PROVE  /\ IsFiniteSet(Received(m))
         /\ Cardinality(Received(m)) \in Nat
         /\ Received(m) \subseteq 0 .. (m.recv_end - 1)
<1>1. m.recv_end \in Nat
  BY DEF MessageIn
<1>2. Received(m) \in SUBSET (0 .. (m.recv_end - 1))
  BY DEF Received
<1>3. IsFiniteSet(0 .. (m.recv_end - 1))
  BY <1>1, FS_Interval, SMTT(60)
<1>4. IsFiniteSet(Received(m))
  BY <1>2, <1>3, FS_Subset
<1> QED BY <1>2, <1>4, FS_CardinalityType

\* A packet of n bytes covers n offsets.
LEMMA IntervalSize ==
  ASSUME NEW a \in Nat, NEW b \in Nat, a < b
  PROVE  IsFiniteSet(a .. (b - 1)) /\ Cardinality(a .. (b - 1)) = b - a
<1> DEFINE c == b - 1
<1>1. c \in Int /\ a \in Int /\ ~(a > c) /\ c - a + 1 = b - a
  BY SMTT(60)
<1> HIDE DEF c
<1>2. IsFiniteSet(a .. c) /\ Cardinality(a .. c) = c - a + 1
  BY <1>1, FS_Interval
<1> QED BY <1>1, <1>2 DEF c

\* Queueing a packet yields a message record.
LEMMA KeepType ==
  ASSUME NEW m \in MessageIn, NEW p \in ByteRange
  PROVE  Keep(m, p) \in MessageIn
<1>1. Append(m.packets, p) \in Seq(ByteRange)
  BY SMTT(60) DEF MessageIn
<1>2. m.bytes_remaining - (p.end - p.start) \in Int
  BY SMTT(60) DEF MessageIn, ByteRange
<1> HIDE DEF ByteRange
<1> QED BY <1>1, <1>2 DEF MessageIn, Keep

\* Adding n new bytes to the received ones lowers the count of missing bytes
\* by n.
LEMMA KeepCounts ==
  ASSUME NEW m \in MessageIn, NEW m2 \in MessageIn, NEW p \in ByteRange,
         m2.length = m.length, CountOK(m), KeptBy(m, m2, p)
  PROVE  CountOK(m2)
<1>1. p.start \in Nat /\ p.end \in Nat /\ p.start < p.end
  BY DEF ByteRange
<1>2. IsFiniteSet(Bytes(p)) /\ Cardinality(Bytes(p)) = p.end - p.start
  BY <1>1, IntervalSize DEF Bytes
<1>3. IsFiniteSet(Received(m)) /\ Cardinality(Received(m)) \in Nat
  BY ReceivedFinite
<1>4. Cardinality(Received(m2)) = Cardinality(Received(m)) + (p.end - p.start)
  <2>1. Received(m) \cap Bytes(p) = {}
    BY DEF KeptBy
  <2>2. Cardinality(Received(m) \cap Bytes(p)) = 0
    BY <2>1, FS_EmptySet
  <2>3. Cardinality(Received(m) \cup Bytes(p))
           = Cardinality(Received(m)) + Cardinality(Bytes(p)) - 0
    BY <1>2, <1>3, <2>2, FS_Union
  <2> QED BY <2>3, <1>1, <1>2, <1>3, SMTT(60) DEF KeptBy
<1>5. m.length \in Int /\ m.bytes_remaining \in Int
  BY LengthAssumption, SMTT(60) DEF MessageIn
<1> QED BY <1>1, <1>3, <1>4, <1>5, SMTT(60) DEF CountOK, KeptBy

\* homa_add_packet, packet right after the highest byte received.
LEMMA AddAtEnd ==
  ASSUME NEW m \in MessageIn, GapsOK(m), NEW p \in ByteRange,
         p.end <= m.length, p.start = m.recv_end,
         NEW m2, m2 = Keep([m EXCEPT !.recv_end = p.end], p)
  PROVE  m2 \in MessageIn /\ GapsOK(m2) /\ KeptBy(m, m2, p)
<1>1. p.start \in Nat /\ p.end \in Nat /\ p.start < p.end
  BY DEF ByteRange
<1>2. m2 \in MessageIn
  <2>1. [m EXCEPT !.recv_end = p.end] \in MessageIn
    BY <1>1 DEF MessageIn
  <2> QED BY <2>1, KeepType
<1>3. m2.packets = Append(m.packets, p) /\ m2.gaps = m.gaps
      /\ m2.recv_end = p.end /\ m2.length = m.length
      /\ m2.bytes_remaining = m.bytes_remaining - (p.end - p.start)
  BY DEF MessageIn, Keep
<1>4. \A g \in m.gaps : g.start \in Nat /\ g.end \in Nat /\ g.end < m.recv_end
  BY DEF MessageIn, GapsOK, ByteRange
<1>5. m.recv_end \in Nat
  BY DEF MessageIn
<1>6. Received(m2) = Received(m) \cup Bytes(p)
  <2>1. ASSUME NEW b PROVE b \in Received(m2) <=> b \in Received(m) \cup Bytes(p)
    <3>1. CASE b \in 0 .. (p.end - 1)
      <4>1. b \in Bytes(p) <=> ~(b < m.recv_end)
        BY <3>1, <1>1, <1>5, SMTT(60) DEF Bytes
      <4>2. ~(b < m.recv_end) => \A g \in m.gaps : b \notin Bytes(g)
        BY <3>1, <1>4, <1>5, SMTT(60) DEF Bytes
      <4>3. b \in Received(m2) <=> \A g \in m.gaps : b \notin Bytes(g)
        BY <3>1, <1>3 DEF Received
      <4>4. b \in Received(m) <=> b < m.recv_end /\ \A g \in m.gaps : b \notin Bytes(g)
        BY <3>1, <1>5, SMTT(60) DEF Received
      <4> QED BY <4>1, <4>2, <4>3, <4>4
    <3>2. CASE b \notin 0 .. (p.end - 1)
      BY <3>2, <1>1, <1>3, <1>5, SMTT(60) DEF Received, Bytes
    <3> QED BY <3>1, <3>2
  <2> QED BY <2>1
<1>7. Bytes(p) \cap Received(m) = {}
  BY <1>1, <1>5, SMTT(60) DEF Received, Bytes
<1>8. GapsOK(m2)
  BY <1>1, <1>3, <1>4, <1>5, SMTT(60) DEF GapsOK
<1> QED BY <1>2, <1>3, <1>6, <1>7, <1>8 DEF KeptBy

\* homa_add_packet, packet beyond recv_end: a new gap is recorded.
LEMMA AddBeyondEnd ==
  ASSUME NEW m \in MessageIn, GapsOK(m), NEW p \in ByteRange,
         p.end <= m.length, p.start > m.recv_end,
         NEW m2,
         m2 = Keep([m EXCEPT !.gaps = @ \cup {[start |-> m.recv_end, end |-> p.start]},
                             !.recv_end = p.end], p)
  PROVE  m2 \in MessageIn /\ GapsOK(m2) /\ KeptBy(m, m2, p)
<1> DEFINE new == [start |-> m.recv_end, end |-> p.start]
<1>1. p.start \in Nat /\ p.end \in Nat /\ p.start < p.end /\ m.recv_end \in Nat
  BY DEF ByteRange, MessageIn
<1>2. new \in ByteRange /\ new.start = m.recv_end /\ new.end = p.start
  BY <1>1 DEF ByteRange
<1>3. m2.packets = Append(m.packets, p) /\ m2.gaps = m.gaps \cup {new}
      /\ m2.recv_end = p.end /\ m2.length = m.length
      /\ m2.bytes_remaining = m.bytes_remaining - (p.end - p.start)
  BY DEF MessageIn, Keep
<1>4. \A g \in m.gaps : g.start \in Nat /\ g.end \in Nat /\ g.end < m.recv_end
  BY DEF MessageIn, GapsOK, ByteRange
<1>5. m2 \in MessageIn
  <2>1. [m EXCEPT !.gaps = @ \cup {new}, !.recv_end = p.end] \in MessageIn
    BY <1>1, <1>2 DEF MessageIn
  <2> QED BY <2>1, KeepType
<1>6. GapsOK(m2)
  BY <1>1, <1>2, <1>3, <1>4, SMTT(60) DEF GapsOK
<1> HIDE DEF new
<1>7. Received(m2) = Received(m) \cup Bytes(p)
  <2>1. ASSUME NEW b PROVE b \in Received(m2) <=> b \in Received(m) \cup Bytes(p)
    <3>1. CASE b \in 0 .. (p.end - 1)
      <4>1. b \in Bytes(p) <=> ~(b < p.start)
        BY <3>1, <1>1, SMTT(60) DEF Bytes
      <4>2. b \in Bytes(new) <=> ~(b < m.recv_end) /\ b < p.start
        BY <3>1, <1>1, <1>2, SMTT(60) DEF Bytes
      <4>3. ~(b < m.recv_end) => \A g \in m.gaps : b \notin Bytes(g)
        BY <3>1, <1>1, <1>4, SMTT(60) DEF Bytes
      <4>4. b \in Received(m2) <=> (\A g \in m.gaps : b \notin Bytes(g)) /\ b \notin Bytes(new)
        BY <3>1, <1>3 DEF Received
      <4>5. b \in Received(m) <=> b < m.recv_end /\ \A g \in m.gaps : b \notin Bytes(g)
        BY <3>1, <1>1, SMTT(60) DEF Received
      <4>6. ~(b < p.start) => ~(b < m.recv_end)
        BY <3>1, <1>1, SMTT(60)
      <4> QED BY <4>1, <4>2, <4>3, <4>4, <4>5, <4>6
    <3>2. CASE b \notin 0 .. (p.end - 1)
      BY <3>2, <1>1, <1>3, SMTT(60) DEF Received, Bytes
    <3> QED BY <3>1, <3>2
  <2> QED BY <2>1
<1>8. Bytes(p) \cap Received(m) = {}
  BY <1>1, SMTT(60) DEF Received, Bytes
<1> QED BY <1>3, <1>5, <1>6, <1>7, <1>8 DEF KeptBy

\* homa_add_packet, packet inside a gap: the gap shrinks, disappears or splits.
LEMMA AddInGap ==
  ASSUME NEW m \in MessageIn, GapsOK(m), NEW p \in ByteRange,
         NEW g \in m.gaps, g.start <= p.start, p.end <= g.end,
         NEW m2, m2 = Keep([m EXCEPT !.gaps = (@ \ {g}) \cup RestOfGap(g, p)], p)
  PROVE  m2 \in MessageIn /\ GapsOK(m2) /\ KeptBy(m, m2, p)
<1> DEFINE lo == [start |-> g.start, end |-> p.start]
           hi == [start |-> p.end, end |-> g.end]
<1>1. p.start \in Nat /\ p.end \in Nat /\ p.start < p.end /\ m.recv_end \in Nat
  BY DEF ByteRange, MessageIn
<1>2. \A h \in m.gaps : h \in ByteRange /\ h.start \in Nat /\ h.end \in Nat
                        /\ h.start < h.end /\ h.end < m.recv_end
  BY DEF MessageIn, GapsOK, ByteRange
<1>3. /\ lo.start = g.start /\ lo.end = p.start
      /\ hi.start = p.end /\ hi.end = g.end
      /\ \A r \in RestOfGap(g, p) : r = lo \/ r = hi
      /\ \A r \in RestOfGap(g, p) : r.start < r.end /\ r \in ByteRange
      /\ g.start < p.start => lo \in RestOfGap(g, p)
      /\ p.end < g.end => hi \in RestOfGap(g, p)
  BY <1>1, <1>2, SMTT(60) DEF RestOfGap, ByteRange
<1> HIDE DEF lo, hi
<1>4. m2.packets = Append(m.packets, p) /\ m2.gaps = (m.gaps \ {g}) \cup RestOfGap(g, p)
      /\ m2.recv_end = m.recv_end /\ m2.length = m.length
      /\ m2.bytes_remaining = m.bytes_remaining - (p.end - p.start)
  BY DEF MessageIn, Keep
<1>5. m2 \in MessageIn
  <2>1. (m.gaps \ {g}) \cup RestOfGap(g, p) \in SUBSET ByteRange
    BY <1>2, <1>3
  <2>2. [m EXCEPT !.gaps = (@ \ {g}) \cup RestOfGap(g, p)] \in MessageIn
    BY <2>1 DEF MessageIn
  <2> QED BY <2>2, KeepType
<1>6. GapsOK(m2)
  <2>1. \A h \in m2.gaps : h.end < m2.recv_end
    <3>1. \A h \in RestOfGap(g, p) : h.end < m.recv_end
      BY <1>1, <1>2, <1>3, SMTT(60)
    <3> QED BY <3>1, <1>2, <1>4
  <2>2. ASSUME NEW h \in m2.gaps, NEW k \in m2.gaps, h # k
        PROVE  h.end < k.start \/ k.end < h.start
    <3>1. CASE h \in m.gaps \ {g} /\ k \in m.gaps \ {g}
      BY <2>2, <3>1 DEF GapsOK
    <3>2. CASE h \in m.gaps \ {g} /\ k \in RestOfGap(g, p)
      <4>1. h.end < g.start \/ g.end < h.start
        BY <3>2 DEF GapsOK
      <4> QED BY <4>1, <3>2, <1>1, <1>2, <1>3, SMTT(60)
    <3>3. CASE h \in RestOfGap(g, p) /\ k \in m.gaps \ {g}
      <4>1. k.end < g.start \/ g.end < k.start
        BY <3>3 DEF GapsOK
      <4> QED BY <4>1, <3>3, <1>1, <1>2, <1>3, SMTT(60)
    <3>4. CASE h \in RestOfGap(g, p) /\ k \in RestOfGap(g, p)
      BY <2>2, <3>4, <1>1, <1>2, <1>3
    <3> QED BY <3>1, <3>2, <3>3, <3>4, <1>4
  <2> QED BY <2>1, <2>2, <1>4 DEF GapsOK
<1>7. Bytes(p) \cap Received(m) = {}
  BY <1>1, <1>2, SMTT(60) DEF Received, Bytes
<1>8. Received(m2) = Received(m) \cup Bytes(p)
  <2>1. ASSUME NEW b \in Received(m2) PROVE b \in Received(m) \cup Bytes(p)
    <3>1. b \in 0 .. (m.recv_end - 1) /\ \A h \in m2.gaps : b \notin Bytes(h)
      BY <1>4 DEF Received
    <3>2. b \in Nat
      BY <3>1, <1>1, SMTT(60)
    <3>3. CASE b \in Bytes(g)
      <4>1. g.start <= b /\ b < g.end
        BY <3>3, <1>2, SMTT(60) DEF Bytes
      <4>2. b \notin Bytes(lo) \/ ~(g.start < p.start)
        BY <3>1, <1>3, <1>4
      <4>3. b \notin Bytes(hi) \/ ~(p.end < g.end)
        BY <3>1, <1>3, <1>4
      <4>4. ~(b < p.start)
        BY <4>1, <4>2, <3>2, <1>1, <1>2, <1>3, SMTT(60) DEF Bytes
      <4>5. ~(b >= p.end)
        BY <4>1, <4>3, <3>2, <1>1, <1>2, <1>3, SMTT(60) DEF Bytes
      <4> QED BY <4>4, <4>5, <3>2, <1>1, SMTT(60) DEF Bytes
    <3>4. CASE b \notin Bytes(g)
      BY <3>1, <3>4, <1>4 DEF Received
    <3> QED BY <3>3, <3>4
  <2>2. ASSUME NEW b \in Received(m) PROVE b \in Received(m2)
    <3>1. b \in 0 .. (m.recv_end - 1) /\ b \notin Bytes(g) /\ \A h \in m.gaps : b \notin Bytes(h)
      BY DEF Received
    <3>2. \A r \in RestOfGap(g, p) : b \notin Bytes(r)
      BY <3>1, <1>1, <1>2, <1>3, SMTT(60) DEF Bytes
    <3> QED BY <3>1, <3>2, <1>4 DEF Received
  <2>3. ASSUME NEW b \in Bytes(p) PROVE b \in Received(m2)
    <3>1. b \in Nat /\ p.start <= b /\ b < p.end /\ b \in Bytes(g)
      BY <1>1, <1>2, SMTT(60) DEF Bytes
    <3>2. b \in 0 .. (m.recv_end - 1)
      BY <3>1, <1>1, <1>2, SMTT(60)
    <3>3. \A h \in m.gaps \ {g} : b \notin Bytes(h)
      <4> TAKE h \in m.gaps \ {g}
      <4>1. h.end < g.start \/ g.end < h.start
        BY DEF GapsOK
      <4> QED BY <4>1, <3>1, <1>1, <1>2, SMTT(60) DEF Bytes
    <3>4. \A r \in RestOfGap(g, p) : b \notin Bytes(r)
      BY <3>1, <1>1, <1>2, <1>3, SMTT(60) DEF Bytes
    <3> QED BY <3>2, <3>3, <3>4, <1>4 DEF Received
  <2> QED BY <2>1, <2>2, <2>3
<1> QED BY <1>4, <1>5, <1>6, <1>7, <1>8 DEF KeptBy

\* homa_add_packet either leaves the message alone or keeps the packet; in both
\* cases the gap list stays well formed.
LEMMA AddPacket ==
  ASSUME NEW m \in MessageIn, GapsOK(m), CountOK(m),
         NEW p \in ByteRange, NEW mem \in BOOLEAN,
         NEW m2, m2 = homa_add_packet(m, p, mem)
  PROVE  /\ m2 \in MessageIn /\ GapsOK(m2) /\ CountOK(m2)
         /\ m2.length = m.length /\ m2.granted = m.granted
         /\ m2.num_bpages = m.num_bpages
         /\ m2 = m \/ KeptBy(m, m2, p)
<1>1. CASE m2 = m
  BY <1>1
<1>2. CASE p.end <= m.length /\ p.start = m.recv_end
           /\ m2 = Keep([m EXCEPT !.recv_end = p.end], p)
  <2>1. m2.length = m.length /\ m2.granted = m.granted /\ m2.num_bpages = m.num_bpages
    BY <1>2 DEF Keep, MessageIn
  <2> QED BY <1>2, <2>1, AddAtEnd, KeepCounts
<1>3. CASE p.end <= m.length /\ p.start > m.recv_end
           /\ m2 = Keep([m EXCEPT !.gaps = @ \cup {[start |-> m.recv_end, end |-> p.start]},
                                  !.recv_end = p.end], p)
  <2>1. m2.length = m.length /\ m2.granted = m.granted /\ m2.num_bpages = m.num_bpages
    BY <1>3 DEF Keep, MessageIn
  <2> QED BY <1>3, <2>1, AddBeyondEnd, KeepCounts
<1>4. CASE \E g \in m.gaps : g.start <= p.start /\ p.end <= g.end
           /\ m2 = Keep([m EXCEPT !.gaps = (@ \ {g}) \cup RestOfGap(g, p)], p)
  <2>1. PICK g \in m.gaps : g.start <= p.start /\ p.end <= g.end
           /\ m2 = Keep([m EXCEPT !.gaps = (@ \ {g}) \cup RestOfGap(g, p)], p)
    BY <1>4
  <2>2. m2.length = m.length /\ m2.granted = m.granted /\ m2.num_bpages = m.num_bpages
    BY <2>1 DEF Keep, MessageIn
  <2> QED BY <2>1, <2>2, AddInGap, KeepCounts
<1> QED
  <2>1. p.end \in Int /\ p.start \in Int /\ m.length \in Int /\ m.recv_end \in Int
    BY LengthAssumption, SMTT(60) DEF ByteRange, MessageIn
  <2> DEFINE G == CHOOSE g \in m.gaps : FillsGap(m, p, g, mem)
  <2>2. ASSUME \E g \in m.gaps : FillsGap(m, p, g, mem)
        PROVE  G \in m.gaps /\ G.start <= p.start /\ p.end <= G.end
    BY <2>2 DEF FillsGap
  <2> HIDE DEF G
  <2>3. \/ m2 = m
        \/ p.end <= m.length /\ p.start = m.recv_end
           /\ m2 = Keep([m EXCEPT !.recv_end = p.end], p)
        \/ p.end <= m.length /\ p.start > m.recv_end
           /\ m2 = Keep([m EXCEPT !.gaps = @ \cup {[start |-> m.recv_end, end |-> p.start]},
                                  !.recv_end = p.end], p)
        \/ (\E g \in m.gaps : FillsGap(m, p, g, mem))
           /\ m2 = Keep([m EXCEPT !.gaps = (@ \ {G}) \cup RestOfGap(G, p)], p)
    BY <2>1, SMTT(60) DEF homa_add_packet, G
  <2> QED BY <2>2, <2>3, <1>1, <1>2, <1>3, <1>4

-----------------------------------------------------------------------------
(* The inductive invariant *)

\* Nothing has been queued, handed off or copied yet.
Untouched ==
    /\ ~pkts_ready /\ ~handed_off /\ receiver = "waiting"
    /\ skbs = <<>> /\ copied = {} /\ msgin.packets = <<>>

\* How the parts of the state move together through the life of the RPC.
Phases ==
    /\ state = "RPC_OUTGOING" => msgin = NoMessage /\ Untouched
    /\ state = "RPC_INCOMING" /\ msgin.length = -1 => msgin.num_bpages = 0 /\ Untouched
    /\ state # "RPC_DEAD" => result = "none"
    /\ receiver = "waiting" => skbs = <<>>
    /\ result = "ok" => receiver = "waiting"

IndInv ==
    TypeOK /\ GapsMaximal /\ RemainingExact /\ KeptOnce
    /\ DeliveredWhole /\ PacketsAttended /\ Phases

\* Where the received bytes of message m are (KeptOnce, for any message,
\* batch and buffer).
Placed(m, s, c) ==
    /\ Received(m) = BytesOf(m.packets) \cup BytesOf(s) \cup c
    /\ BytesOf(m.packets) \cap (BytesOf(s) \cup c) = {}
    /\ BytesOf(s) \cap c = {}
    /\ \A i, j \in DOMAIN m.packets :
          i # j => Bytes(m.packets[i]) \cap Bytes(m.packets[j]) = {}

\* An empty queue holds no bytes.
LEMMA BytesEmpty == BytesOf(<<>>) = {}
BY SMTT(60) DEF BytesOf

\* Appending a packet adds its bytes.
LEMMA BytesAppend ==
  ASSUME NEW q \in Seq(ByteRange), NEW p \in ByteRange
  PROVE  /\ BytesOf(Append(q, p)) = BytesOf(q) \cup Bytes(p)
         /\ DOMAIN Append(q, p) = 1 .. (Len(q) + 1)
         /\ \A i \in 1 .. Len(q) : Append(q, p)[i] = q[i]
         /\ Append(q, p)[Len(q) + 1] = p
<1> HIDE DEF ByteRange
<1>1. Len(q) \in Nat /\ DOMAIN q = 1 .. Len(q)
  BY LenProperties
<1>2. /\ DOMAIN Append(q, p) = 1 .. (Len(q) + 1)
      /\ \A i \in 1 .. Len(q) : Append(q, p)[i] = q[i]
      /\ Append(q, p)[Len(q) + 1] = p
  BY <1>1, SMTT(60)
<1>3. ASSUME NEW b PROVE b \in BytesOf(Append(q, p)) <=> b \in BytesOf(q) \cup Bytes(p)
  <2>1. b \in BytesOf(Append(q, p)) => b \in BytesOf(q) \cup Bytes(p)
    BY <1>1, <1>2, SMTT(60) DEF BytesOf
  <2>2. b \in BytesOf(q) => b \in BytesOf(Append(q, p))
    BY <1>1, <1>2, SMTT(60) DEF BytesOf
  <2>3. b \in Bytes(p) => b \in BytesOf(Append(q, p))
    BY <1>1, <1>2, SMTT(60) DEF BytesOf
  <2> QED BY <2>1, <2>2, <2>3
<1> QED BY <1>2, <1>3

\* What remains of a queue once its first n elements are dequeued.
LEMMA SuffixLemma ==
  ASSUME NEW S, NEW q \in Seq(S), NEW n \in 1 .. Len(q)
  PROVE  /\ SubSeq(q, n + 1, Len(q)) \in Seq(S)
         /\ Len(SubSeq(q, n + 1, Len(q))) = Len(q) - n
         /\ \A i \in 1 .. (Len(q) - n) : SubSeq(q, n + 1, Len(q))[i] = q[n + i]
<1> DEFINE l == Len(q)
           v == SubSeq(q, n + 1, l)
<1>1. l \in Nat /\ \A i \in 1 .. l : q[i] \in S
  BY LenProperties, ElementOfSeq
<1> HIDE DEF l
<1>2. n \in Nat /\ n <= l /\ 1 <= n
  BY <1>1, SMTT(60) DEF l
<1>3. n + 1 \in Int /\ l \in Int /\ \A i \in (n + 1) .. l : q[i] \in S
  BY <1>1, <1>2, SMTT(60)
<1>4. /\ v \in Seq(S)
      /\ Len(v) = IF n + 1 <= l THEN l - (n + 1) + 1 ELSE 0
      /\ \A i \in 1 .. (l - (n + 1) + 1) : v[i] = q[(n + 1) + i - 1]
  BY <1>3, SubSeqProperties, SMTT(60)
<1> HIDE DEF v
<1>5. (IF n + 1 <= l THEN l - (n + 1) + 1 ELSE 0) = l - n
  BY <1>1, <1>2, SMTT(60)
<1>6. \A i \in 1 .. (l - n) : i \in 1 .. (l - (n + 1) + 1) /\ (n + 1) + i - 1 = n + i
  BY <1>1, <1>2, SMTT(60)
<1>7. v \in Seq(S) /\ Len(v) = l - n /\ \A i \in 1 .. (l - n) : v[i] = q[n + i]
  BY <1>4, <1>5, <1>6
<1> QED BY <1>7 DEF v, l

\* No two packets of the queue share a byte.
PairwiseDisjoint(q) ==
    \A i, j \in DOMAIN q : i # j => Bytes(q[i]) \cap Bytes(q[j]) = {}

\* Dequeueing splits the bytes of a queue of disjoint packets in two.
LEMMA BytesSplit ==
  ASSUME NEW q \in Seq(ByteRange), NEW n \in 1 .. Len(q), PairwiseDisjoint(q)
  PROVE  /\ SubSeq(q, 1, n) \in Seq(ByteRange) /\ SubSeq(q, n + 1, Len(q)) \in Seq(ByteRange)
         /\ BytesOf(q) = BytesOf(SubSeq(q, 1, n)) \cup BytesOf(SubSeq(q, n + 1, Len(q)))
         /\ BytesOf(SubSeq(q, 1, n)) \cap BytesOf(SubSeq(q, n + 1, Len(q))) = {}
         /\ PairwiseDisjoint(SubSeq(q, n + 1, Len(q)))
<1> DEFINE u == SubSeq(q, 1, n)
           v == SubSeq(q, n + 1, Len(q))
<1> HIDE DEF ByteRange
<1>1. Len(q) \in Nat /\ DOMAIN q = 1 .. Len(q) /\ \A i \in 1 .. Len(q) : q[i] \in ByteRange
  BY LenProperties, ElementOfSeq
<1>2. n \in Nat /\ 1 <= n /\ n <= Len(q)
  BY <1>1, SMTT(60)
<1>3. u \in Seq(ByteRange) /\ Len(u) = n /\ \A i \in 1 .. n : u[i] = q[i]
  BY <1>1, <1>2, SubSeqProperties, SMTT(60)
<1>4. v \in Seq(ByteRange) /\ Len(v) = Len(q) - n
      /\ \A i \in 1 .. (Len(q) - n) : v[i] = q[n + i]
  BY SuffixLemma
<1> HIDE DEF u, v
<1>5. DOMAIN u = 1 .. n /\ DOMAIN v = 1 .. (Len(q) - n)
  BY <1>3, <1>4, LenProperties
<1>7. \A i \in 1 .. Len(q) : i <= n \/ (i - n \in 1 .. (Len(q) - n) /\ n + (i - n) = i)
  BY <1>1, <1>2, SMTT(60)
<1>8. BytesOf(q) = BytesOf(u) \cup BytesOf(v)
  <2>1. ASSUME NEW b \in BytesOf(q) PROVE b \in BytesOf(u) \cup BytesOf(v)
    <3>1. PICK i \in 1 .. Len(q) : b \in Bytes(q[i])
      BY <1>1 DEF BytesOf
    <3>2. CASE i <= n
      BY <3>1, <3>2, <1>1, <1>2, <1>3, <1>5, SMTT(60) DEF BytesOf
    <3>3. CASE i - n \in 1 .. (Len(q) - n) /\ n + (i - n) = i
      <4>1. PICK k \in 1 .. (Len(q) - n) : n + k = i
        BY <3>3
      <4>2. b \in Bytes(v[k]) /\ k \in DOMAIN v
        BY <4>1, <3>1, <1>4, <1>5
      <4> QED BY <4>2 DEF BytesOf
    <3> QED BY <3>2, <3>3, <1>7
  <2>2. BytesOf(u) \subseteq BytesOf(q)
    BY <1>1, <1>2, <1>3, <1>5, SMTT(60) DEF BytesOf
  <2>3. BytesOf(v) \subseteq BytesOf(q)
    <3>1. \A i \in 1 .. (Len(q) - n) : n + i \in 1 .. Len(q)
      BY <1>1, <1>2, SMTT(60)
    <3> QED BY <3>1, <1>1, <1>4, <1>5 DEF BytesOf
  <2> QED BY <2>1, <2>2, <2>3
<1>9. BytesOf(u) \cap BytesOf(v) = {}
  <2>1. \A i \in 1 .. n, j \in 1 .. (Len(q) - n) :
           i \in DOMAIN q /\ n + j \in DOMAIN q /\ i # n + j
    BY <1>1, <1>2, SMTT(60)
  <2>2. \A i \in 1 .. n, j \in 1 .. (Len(q) - n) : Bytes(u[i]) \cap Bytes(v[j]) = {}
    BY <2>1, <1>3, <1>4, SMTT(60) DEF PairwiseDisjoint
  <2>3. ASSUME NEW b \in BytesOf(u), b \in BytesOf(v) PROVE FALSE
    <3>1. PICK i \in 1 .. n : b \in Bytes(u[i])
      BY <1>5 DEF BytesOf
    <3>2. PICK j \in 1 .. (Len(q) - n) : b \in Bytes(v[j])
      BY <2>3, <1>5 DEF BytesOf
    <3> QED BY <3>1, <3>2, <2>2
  <2> QED BY <2>3
<1>10. PairwiseDisjoint(v)
  <2>1. \A i, j \in 1 .. (Len(q) - n) :
           i # j => n + i \in DOMAIN q /\ n + j \in DOMAIN q /\ n + i # n + j
    BY <1>1, <1>2, SMTT(60)
  <2>2. \A i \in 1 .. (Len(q) - n) : v[i] = q[n + i]
    BY <1>4
  <2>3. ASSUME NEW i \in 1 .. (Len(q) - n), NEW j \in 1 .. (Len(q) - n), i # j
        PROVE  Bytes(v[i]) \cap Bytes(v[j]) = {}
    <3>1. v[i] = q[n + i] /\ v[j] = q[n + j]
      BY <2>2
    <3>2. Bytes(q[n + i]) \cap Bytes(q[n + j]) = {}
      BY <2>1, <2>3 DEF PairwiseDisjoint
    <3> QED BY <3>1, <3>2
  <2> QED BY <2>3, <1>5 DEF PairwiseDisjoint
<1> QED BY <1>3, <1>4, <1>8, <1>9, <1>10 DEF u, v

\* A packet that homa_add_packet keeps is placed in the queue and nowhere else.
LEMMA PlacedKept ==
  ASSUME NEW m \in MessageIn, NEW m2 \in MessageIn, NEW p \in ByteRange,
         NEW s, NEW c, Placed(m, s, c), KeptBy(m, m2, p)
  PROVE  Placed(m2, s, c)
<1>1. m.packets \in Seq(ByteRange) /\ m2.packets = Append(m.packets, p)
  BY DEF MessageIn, KeptBy
<1>2. BytesOf(m2.packets) = BytesOf(m.packets) \cup Bytes(p)
  BY <1>1, BytesAppend
<1>3. Bytes(p) \cap (BytesOf(m.packets) \cup BytesOf(s) \cup c) = {}
  BY DEF KeptBy, Placed
<1>4. ASSUME NEW i \in DOMAIN m2.packets, NEW j \in DOMAIN m2.packets, i # j
      PROVE  Bytes(m2.packets[i]) \cap Bytes(m2.packets[j]) = {}
  <2>1. /\ DOMAIN m2.packets = 1 .. (Len(m.packets) + 1)
        /\ \A k \in 1 .. Len(m.packets) : m2.packets[k] = m.packets[k]
        /\ m2.packets[Len(m.packets) + 1] = p
    BY <1>1, BytesAppend, SMTT(60)
  <2>2. Len(m.packets) \in Nat /\ DOMAIN m.packets = 1 .. Len(m.packets)
    BY <1>1, LenProperties
  <2>3. \A k \in DOMAIN m.packets : Bytes(m.packets[k]) \cap Bytes(p) = {}
    BY <1>3 DEF BytesOf
  <2>4. i \in DOMAIN m.packets \/ i = Len(m.packets) + 1
    BY <2>1, <2>2, SMTT(60)
  <2>5. j \in DOMAIN m.packets \/ j = Len(m.packets) + 1
    BY <2>1, <2>2, SMTT(60)
  <2> QED BY <1>4, <2>1, <2>2, <2>3, <2>4, <2>5 DEF Placed
<1> QED BY <1>2, <1>3, <1>4 DEF Placed, KeptBy

-----------------------------------------------------------------------------
(* Preservation, one lemma per group of actions *)

\* A message record that is consistent by itself.
MsgOK(m) == m \in MessageIn /\ m.length = Length /\ GapsOK(m) /\ CountOK(m)

\* IndInv, restated in terms of MsgOK and Placed.
LEMMA Restate ==
  ASSUME TypeOK
  PROVE  /\ (GapsMaximal /\ RemainingExact /\ KeptOnce) <=>
              (Live => MsgOK(msgin) /\ Placed(msgin, skbs, copied))
         /\ Live <=> state = "RPC_INCOMING" /\ msgin.length = Length
<1>1. msgin \in MessageIn /\ (msgin.length = -1 \/ msgin.length = Length)
  BY DEF TypeOK, MessageIn
<1>2. Live <=> state = "RPC_INCOMING" /\ msgin.length = Length
  BY <1>1, LengthAssumption, SMTT(60) DEF Live
<1> QED BY <1>1, <1>2 DEF GapsMaximal, RemainingExact, KeptOnce, MsgOK, GapsOK, CountOK, Placed

\* A freshly initialised message is consistent and empty.
LEMMA InitMessage ==
  ASSUME NEW alloc \in {"ok", "wait"}, NEW m, m = homa_message_in_init(alloc)
  PROVE  /\ MsgOK(m) /\ Placed(m, <<>>, {}) /\ m.packets = <<>>
<1>1. /\ m.length = Length /\ m.bytes_remaining = Length /\ m.recv_end = 0
      /\ m.gaps = {} /\ m.packets = <<>>
      /\ m.num_bpages \in {0, 1}
      /\ m.granted = IF Unsched >= Length THEN Length ELSE Unsched
      /\ m = [length |-> m.length, bytes_remaining |-> m.bytes_remaining,
              recv_end |-> m.recv_end, gaps |-> m.gaps, granted |-> m.granted,
              num_bpages |-> m.num_bpages, packets |-> m.packets]
  BY DEF homa_message_in_init, NoMessage
<1>2. m.granted \in 0 .. Length
  BY <1>1, UnschedAssumption, LengthAssumption, SMTT(60)
<1>3. m \in MessageIn
  <2>1. m.packets \in Seq(ByteRange) /\ m.gaps \in SUBSET ByteRange
    BY <1>1, SMTT(60)
  <2>2. m.bytes_remaining \in Int /\ m.recv_end \in Nat /\ m.length \in {-1, Length}
    BY <1>1, LengthAssumption, SMTT(60)
  <2> QED BY <1>1, <1>2, <2>1, <2>2 DEF MessageIn
<1>4. Received(m) = {}
  BY <1>1, SMTT(60) DEF Received
<1>5. CountOK(m)
  BY <1>1, <1>4, FS_EmptySet, LengthAssumption, SMTT(60) DEF CountOK
<1>6. GapsOK(m)
  BY <1>1, LengthAssumption, SMTT(60) DEF GapsOK
<1>7. Placed(m, <<>>, {})
  BY <1>1, <1>4, BytesEmpty, SMTT(60) DEF Placed
<1> QED BY <1>1, <1>3, <1>5, <1>6, <1>7 DEF MsgOK

\* What homa_message_in_init leaves behind when the socket has no buffer region.
LEMMA ErrMessage ==
  ASSUME NEW m, m = homa_message_in_init("err")
  PROVE  m \in MessageIn /\ m.length = -1 /\ m.num_bpages = 0 /\ m.packets = <<>>
<1>1. /\ m.length = -1 /\ m.bytes_remaining = Length /\ m.recv_end = 0
      /\ m.gaps = {} /\ m.packets = <<>> /\ m.num_bpages = 0 /\ m.granted = 0
      /\ m = [length |-> m.length, bytes_remaining |-> m.bytes_remaining,
              recv_end |-> m.recv_end, gaps |-> m.gaps, granted |-> m.granted,
              num_bpages |-> m.num_bpages, packets |-> m.packets]
  BY DEF homa_message_in_init, NoMessage
<1>2. m.packets \in Seq(ByteRange) /\ m.gaps \in SUBSET ByteRange
  <2>1. m.packets = <<>> /\ m.gaps = {}
    BY <1>1
  <2> QED BY <2>1, EmptySeq
<1>3. m.bytes_remaining \in Int /\ m.recv_end \in Nat /\ m.length \in {-1, Length}
      /\ m.granted \in 0 .. Length
  BY <1>1, LengthAssumption, SMTT(60)
<1>4. m \in MessageIn
  BY <1>1, <1>2, <1>3 DEF MessageIn
<1> QED BY <1>1, <1>4

\* The common tail of homa_data_pkt keeps a consistent message consistent, and
\* every queued packet attended.
LEMMA AcceptKeeps ==
  ASSUME NEW m, MsgOK(m), NEW s, NEW c, Placed(m, s, c),
         NEW p \in ByteRange, NEW mem \in BOOLEAN, AcceptData(m, p, mem),
         pkts_ready \in BOOLEAN, handed_off \in BOOLEAN,
         m.packets # <<>> => pkts_ready
  PROVE  /\ MsgOK(msgin') /\ Placed(msgin', s, c)
         /\ pkts_ready' \in BOOLEAN /\ handed_off' \in BOOLEAN
         /\ msgin'.packets # <<>> => pkts_ready'
         /\ pkts_ready' => pkts_ready \/ handed_off'
         /\ handed_off => handed_off'
         /\ Received(m) \subseteq Received(msgin')
         /\ msgin'.bytes_remaining <= m.bytes_remaining
<1>1. m \in MessageIn /\ p.start \in Nat /\ p.end \in Nat /\ p.start < p.end
      /\ m.bytes_remaining \in Int
  BY DEF MsgOK, ByteRange, MessageIn
<1>2. msgin' = m \/ (m.num_bpages # 0 /\ msgin' = homa_add_packet(m, p, mem))
  BY DEF AcceptData
<1>3. MsgOK(msgin') /\ (msgin' = m \/ KeptBy(m, msgin', p))
  BY <1>2, AddPacket, SMTT(60) DEF MsgOK
<1>4. Placed(msgin', s, c)
  BY <1>1, <1>3, PlacedKept DEF MsgOK
<1>5. /\ pkts_ready' \in BOOLEAN /\ handed_off' \in BOOLEAN
      /\ pkts_ready' => pkts_ready \/ handed_off'
      /\ handed_off => handed_off'
  BY DEF AcceptData
<1>6. msgin'.packets # <<>> => pkts_ready'
  BY DEF AcceptData
<1>7. Received(m) \subseteq Received(msgin')
  BY <1>3 DEF KeptBy
<1>8. msgin'.bytes_remaining <= m.bytes_remaining
  BY <1>1, <1>3, SMTT(60) DEF KeptBy
<1> QED BY <1>3, <1>4, <1>5, <1>6, <1>7, <1>8

\* The invariant holds initially.
LEMMA InitInv == Init => IndInv
<1> SUFFICES ASSUME Init PROVE IndInv
  OBVIOUS
<1>1. msgin \in MessageIn
  <2>1. <<>> \in Seq(ByteRange) /\ {} \in SUBSET ByteRange
    BY SMTT(60)
  <2>2. 0 \in 0 .. Length
    BY LengthAssumption, SMTT(60)
  <2> QED BY <2>1, <2>2, SMTT(60) DEF Init, NoMessage, MessageIn
<1>2. TypeOK
  <2>1. region \in BOOLEAN /\ pkts_ready \in BOOLEAN /\ handed_off \in BOOLEAN
    BY RegionFirstAssumption DEF Init
  <2>2. skbs \in Seq(ByteRange) /\ copied \in SUBSET Nat
    BY SMTT(60) DEF Init
  <2> QED BY <1>1, <2>1, <2>2 DEF Init, TypeOK
<1>3. ~Live
  BY DEF Init, Live
<1>4. Phases
  BY DEF Init, Phases, Untouched, NoMessage
<1> QED BY <1>2, <1>3, <1>4 DEF IndInv, GapsMaximal, RemainingExact, KeptOnce,
                              DeliveredWhole, PacketsAttended, Init

\* A DATA packet preserves the invariant.
LEMMA DataPktInv ==
  ASSUME IndInv, NEW p \in Packets, NEW mem \in BOOLEAN, homa_data_pkt(p, mem)
  PROVE  IndInv'
<1>1. p \in ByteRange
  BY PacketsAssumption
<1>2. UNCHANGED <<region, receiver, skbs, copied, result>> /\ state' = "RPC_INCOMING"
      /\ state # "RPC_DEAD"
  BY DEF homa_data_pkt
<1>3. TypeOK /\ result = "none" /\ receiver \in {"waiting", "copy_loop"}
      /\ (receiver = "waiting" => skbs = <<>>)
  BY <1>2 DEF IndInv, Phases, TypeOK
<1>4. ASSUME NEW m, MsgOK(m), Placed(m, skbs, copied), AcceptData(m, p, mem),
             m.packets # <<>> => pkts_ready,
             pkts_ready => handed_off \/ receiver = "copy_loop"
      PROVE  IndInv'
  <2>1. /\ MsgOK(msgin') /\ Placed(msgin', skbs, copied)
        /\ pkts_ready' \in BOOLEAN /\ handed_off' \in BOOLEAN
        /\ msgin'.packets # <<>> => pkts_ready'
        /\ pkts_ready' => pkts_ready \/ handed_off'
        /\ handed_off => handed_off'
    BY <1>1, <1>3, <1>4, AcceptKeeps DEF TypeOK
  <2>2. TypeOK'
    BY <1>2, <1>3, <2>1 DEF TypeOK, MsgOK
  <2>3. Live' /\ msgin'.length = Length
    BY <1>2, <2>1, LengthAssumption, SMTT(60) DEF Live, MsgOK
  <2>4. (GapsMaximal /\ RemainingExact /\ KeptOnce)'
    BY <1>2, <2>1 DEF GapsMaximal, RemainingExact, KeptOnce, MsgOK, GapsOK, CountOK, Placed
  <2>5. PacketsAttended'
    BY <1>2, <1>4, <2>1 DEF PacketsAttended
  <2>6. DeliveredWhole' /\ Phases'
    BY <1>2, <1>3, <2>3, LengthAssumption, SMTT(60) DEF DeliveredWhole, Phases
  <2> QED BY <2>2, <2>4, <2>5, <2>6 DEF IndInv
<1>5. CASE state = "RPC_OUTGOING"
  <2>1. msgin = NoMessage /\ Untouched
    BY <1>5 DEF IndInv, Phases
  <2>2. PICK alloc \in {"ok", "wait", "err"} : AcceptData(homa_message_in_init(alloc), p, mem)
    BY <1>5 DEF homa_data_pkt, homa_pool_alloc_msg
  <2>3. CASE alloc # "err"
    <3>1. alloc \in {"ok", "wait"}
      BY <2>3
    <3> QED BY <3>1, <2>1, <2>2, <1>4, InitMessage DEF Untouched
  <2>4. CASE alloc = "err"
    <3> DEFINE m == homa_message_in_init("err")
    <3>1. m \in MessageIn /\ m.length = -1 /\ m.num_bpages = 0 /\ m.packets = <<>>
      BY ErrMessage
    <3> HIDE DEF m
    <3>2. msgin' = m /\ pkts_ready' = pkts_ready /\ handed_off' = handed_off
      BY <3>1, <2>2, <2>4, <2>1, <1>3 DEF AcceptData, TypeOK, m
    <3>4. TypeOK'
      BY <1>2, <1>3, <3>1, <3>2 DEF TypeOK
    <3>5. msgin'.length = -1 /\ msgin'.num_bpages = 0 /\ msgin'.packets = <<>>
      BY <3>1, <3>2
    <3>6. ~Live'
      BY <3>5, SMTT(60) DEF Live
    <3>7. Phases' /\ DeliveredWhole'
      BY <1>2, <1>3, <2>1, <3>2, <3>5 DEF Phases, Untouched, DeliveredWhole
    <3> QED BY <3>4, <3>6, <3>7 DEF IndInv, GapsMaximal, RemainingExact, KeptOnce, PacketsAttended
  <2> QED BY <2>3, <2>4
<1>6. CASE state = "RPC_INCOMING"
  <2>1. AcceptData(msgin, p, mem)
    BY <1>6 DEF homa_data_pkt
  <2>2. CASE msgin.length = Length
    <3>1. Live /\ MsgOK(msgin) /\ Placed(msgin, skbs, copied)
      BY <1>3, <1>6, <2>2, Restate DEF IndInv
    <3> QED BY <2>1, <3>1, <1>4 DEF IndInv, PacketsAttended
  <2>3. CASE msgin.length = -1
    <3>1. msgin.num_bpages = 0 /\ Untouched
      BY <1>6, <2>3 DEF IndInv, Phases
    <3>2. msgin' = msgin /\ pkts_ready' = pkts_ready /\ handed_off' = handed_off
      BY <2>1, <3>1, <1>3 DEF AcceptData, TypeOK
    <3>3. UNCHANGED vars
      BY <3>2, <1>2, <1>6 DEF vars
    <3> QED BY <3>3, <2>3, <1>3, <1>6 DEF vars, IndInv, TypeOK, GapsMaximal, RemainingExact, KeptOnce,
                    DeliveredWhole, PacketsAttended, Phases, Untouched, Live
  <2> QED BY <2>2, <2>3, <1>3 DEF TypeOK, MessageIn
<1> QED BY <1>2, <1>5, <1>6, <1>3 DEF TypeOK

\* The receiving thread's steps, and the actions that leave msgin alone apart
\* from one field, preserve the invariant.
LEMMA ReceiverInv ==
  ASSUME IndInv, StartReceive \/ FoundDead \/ homa_pool_set_region
  PROVE  IndInv'
<1>1. UNCHANGED <<state, msgin, pkts_ready, skbs, copied, result>>
  BY DEF StartReceive, FoundDead, homa_pool_set_region
<1>2. TypeOK'
  BY <1>1 DEF IndInv, TypeOK, StartReceive, FoundDead, homa_pool_set_region
<1>3. (GapsMaximal /\ RemainingExact /\ KeptOnce /\ DeliveredWhole)'
  BY <1>1 DEF IndInv, GapsMaximal, RemainingExact, KeptOnce, DeliveredWhole, Live
<1>4. PacketsAttended'
  <2>1. CASE StartReceive
    BY <1>1, <2>1, SMTT(60) DEF IndInv, PacketsAttended, Live, StartReceive
  <2>2. CASE FoundDead
    BY <1>1, <2>2 DEF PacketsAttended, Live, FoundDead
  <2>3. CASE homa_pool_set_region
    BY <1>1, <2>3, SMTT(60) DEF IndInv, PacketsAttended, Live, homa_pool_set_region
  <2> QED BY <2>1, <2>2, <2>3
<1>5. Phases'
  <2>1. CASE StartReceive
    BY <1>1, <2>1 DEF IndInv, Phases, Untouched, StartReceive
  <2>2. CASE FoundDead
    BY <1>1, <2>2 DEF IndInv, Phases, Untouched, FoundDead
  <2>3. CASE homa_pool_set_region
    BY <1>1, <2>3, SMTT(60) DEF IndInv, Phases, Untouched, homa_pool_set_region
  <2> QED BY <2>1, <2>2, <2>3
<1> QED BY <1>2, <1>3, <1>4, <1>5 DEF IndInv

\* Grants and buffer allocation touch only granted and num_bpages.
LEMMA GrantInv ==
  ASSUME IndInv, GetBuffers \/ \E offset \in 1 .. Length : Grant(offset)
  PROVE  IndInv'
<1>1. UNCHANGED <<region, state, pkts_ready, handed_off, receiver, skbs, copied, result>>
      /\ state = "RPC_INCOMING"
  BY DEF GetBuffers, Grant
<1>2. msgin \in MessageIn
  BY DEF IndInv, TypeOK
<1>3. msgin' \in MessageIn
  <2>1. CASE GetBuffers
    BY <1>2, <2>1 DEF GetBuffers, MessageIn
  <2>2. CASE \E offset \in 1 .. Length : Grant(offset)
    <3>1. PICK offset \in 1 .. Length : Grant(offset)
      BY <2>2
    <3>2. offset \in 0 .. Length
      BY LengthAssumption, SMTT(60)
    <3> QED BY <1>2, <3>1, <3>2 DEF Grant, MessageIn
  <2> QED BY <2>1, <2>2
<1>4. /\ msgin'.length = msgin.length /\ msgin'.gaps = msgin.gaps
      /\ msgin'.recv_end = msgin.recv_end /\ msgin'.packets = msgin.packets
      /\ msgin'.bytes_remaining = msgin.bytes_remaining
  BY <1>2 DEF GetBuffers, Grant, MessageIn
<1>5. Received(msgin)' = Received(msgin) /\ (Live' <=> Live)
  BY <1>1, <1>4 DEF Received, Live
<1>6. TypeOK'
  BY <1>1, <1>3 DEF IndInv, TypeOK
<1>7. (GapsMaximal /\ RemainingExact /\ KeptOnce)'
  <2>1. GapsMaximal'
    BY <1>4, <1>5 DEF IndInv, GapsMaximal
  <2>2. RemainingExact'
    BY <1>4, <1>5 DEF IndInv, RemainingExact
  <2>3. KeptOnce'
    BY <1>1, <1>4, <1>5 DEF IndInv, KeptOnce
  <2> QED BY <2>1, <2>2, <2>3
<1>8. DeliveredWhole' /\ PacketsAttended'
  BY <1>1, <1>4, <1>5 DEF IndInv, DeliveredWhole, PacketsAttended
<1>9. msgin.length >= 0
  BY <1>1, <1>2, LengthAssumption, SMTT(60) DEF GetBuffers, Grant, MessageIn, IndInv, Phases
<1>10. Phases'
  BY <1>1, <1>4, <1>9, SMTT(60) DEF IndInv, Phases
<1> QED BY <1>6, <1>7, <1>8, <1>10 DEF IndInv

\* Moving a batch from the queue to skbs preserves the invariant.
LEMMA DequeueInv ==
  ASSUME IndInv, Dequeue
  PROVE  IndInv'
<1> DEFINE q == msgin.packets
           n == IF Len(q) < MaxSkbs THEN Len(q) ELSE MaxSkbs
<1>1. /\ receiver = "copy_loop" /\ state # "RPC_DEAD" /\ skbs = <<>> /\ q # <<>>
      /\ skbs' = SubSeq(q, 1, n)
      /\ msgin' = [msgin EXCEPT !.packets = SubSeq(q, n + 1, Len(q))]
      /\ UNCHANGED <<region, state, pkts_ready, handed_off, receiver, copied, result>>
  BY DEF Dequeue
<1>2. msgin \in MessageIn /\ q \in Seq(ByteRange)
  BY DEF IndInv, TypeOK, MessageIn
<1>3. Live /\ state = "RPC_INCOMING" /\ msgin.length = Length
  <2>1. state = "RPC_INCOMING" /\ msgin.length # -1
    BY <1>1 DEF IndInv, Phases, Untouched, TypeOK
  <2> QED BY <2>1, <1>2, LengthAssumption, SMTT(60) DEF MessageIn, Live
<1>4. MsgOK(msgin) /\ Placed(msgin, skbs, copied)
  BY <1>3, Restate DEF IndInv
<1>5. n \in 1 .. Len(q)
  <2>1. Len(q) \in Nat \ {0}
    BY <1>1, <1>2, EmptySeq
  <2> QED BY <2>1, MaxSkbsAssumption, SMTT(60)
<1> HIDE DEF n
<1>6. /\ skbs' \in Seq(ByteRange) /\ SubSeq(q, n + 1, Len(q)) \in Seq(ByteRange)
      /\ BytesOf(q) = BytesOf(skbs') \cup BytesOf(SubSeq(q, n + 1, Len(q)))
      /\ BytesOf(skbs') \cap BytesOf(SubSeq(q, n + 1, Len(q))) = {}
      /\ PairwiseDisjoint(SubSeq(q, n + 1, Len(q)))
  <2>1. PairwiseDisjoint(q)
    BY <1>4 DEF Placed, PairwiseDisjoint
  <2> HIDE DEF q
  <2> QED BY <1>1, <1>2, <1>5, <2>1, BytesSplit
<1>7. msgin' \in MessageIn /\ msgin'.packets = SubSeq(q, n + 1, Len(q))
      /\ msgin'.length = msgin.length /\ msgin'.gaps = msgin.gaps
      /\ msgin'.recv_end = msgin.recv_end
      /\ msgin'.bytes_remaining = msgin.bytes_remaining
  BY <1>1, <1>2, <1>6 DEF MessageIn
<1>8. Received(msgin)' = Received(msgin)
  BY <1>7 DEF Received
<1>9. MsgOK(msgin') /\ Placed(msgin', skbs', copied)
  <2>1. MsgOK(msgin')
    BY <1>4, <1>7, <1>8 DEF MsgOK, GapsOK, CountOK
  <2>2. Received(msgin) = BytesOf(q) \cup copied /\ BytesOf(q) \cap copied = {}
    BY <1>1, <1>4, BytesEmpty DEF Placed
  <2> QED BY <2>1, <2>2, <1>6, <1>7, <1>8 DEF Placed, PairwiseDisjoint
<1>10. TypeOK'
  BY <1>1, <1>6, <1>7 DEF IndInv, TypeOK
<1>11. (GapsMaximal /\ RemainingExact /\ KeptOnce)'
  BY <1>1, <1>9 DEF GapsMaximal, RemainingExact, KeptOnce, MsgOK, GapsOK, CountOK, Placed
<1>12. PacketsAttended'
  <2>1. pkts_ready
    BY <1>1, <1>3 DEF IndInv, PacketsAttended
  <2> QED BY <2>1, <1>1 DEF PacketsAttended
<1>13. Phases' /\ DeliveredWhole'
  BY <1>1, <1>3, <1>7, LengthAssumption, SMTT(60) DEF IndInv, Phases, DeliveredWhole
<1> QED BY <1>10, <1>11, <1>12, <1>13 DEF IndInv

\* Storing a batch in the buffers preserves the invariant.
LEMMA CopyBatchInv ==
  ASSUME IndInv, CopyBatch
  PROVE  IndInv'
<1>1. /\ receiver = "copy_loop" /\ skbs # <<>>
      /\ copied' = copied \cup BytesOf(skbs) /\ skbs' = <<>>
      /\ UNCHANGED <<region, state, msgin, pkts_ready, handed_off, receiver, result>>
  BY DEF CopyBatch
<1>2. BytesOf(skbs) \subseteq Nat /\ BytesOf(skbs') = {}
  <2>1. skbs \in Seq(ByteRange)
    BY DEF IndInv, TypeOK
  <2>2. \A i \in DOMAIN skbs : skbs[i] \in ByteRange
    BY <2>1, SMTT(60)
  <2>3. \A r \in ByteRange : Bytes(r) \subseteq Nat
    BY SMTT(60) DEF ByteRange, Bytes
  <2> QED BY <1>1, <2>2, <2>3, BytesEmpty DEF BytesOf
<1>3. TypeOK'
  <2>1. copied' \in SUBSET Nat
    BY <1>1, <1>2 DEF IndInv, TypeOK
  <2>2. skbs' \in Seq(ByteRange)
    BY <1>1, EmptySeq
  <2> QED BY <2>1, <2>2, <1>1 DEF IndInv, TypeOK
<1>4. Live' <=> Live
  BY <1>1 DEF Live
<1>5. GapsMaximal' /\ RemainingExact'
  BY <1>1, <1>4 DEF IndInv, GapsMaximal, RemainingExact
<1>6. KeptOnce'
  BY <1>1, <1>2, <1>4 DEF IndInv, KeptOnce
<1>7. PacketsAttended'
  BY <1>1, <1>4 DEF IndInv, PacketsAttended
<1>8. result # "ok"
  BY <1>1 DEF IndInv, Phases
<1>9. DeliveredWhole' /\ Phases'
  BY <1>1, <1>8 DEF IndInv, DeliveredWhole, Phases, Untouched
<1> QED BY <1>3, <1>5, <1>6, <1>7, <1>9 DEF IndInv

\* Steps after which the RPC is dead.
LEMMA DeathInv ==
  ASSUME IndInv, CopyFails \/ homa_rpc_end
  PROVE  IndInv'
<1>1. state' = "RPC_DEAD" /\ msgin \in MessageIn
  BY DEF CopyFails, homa_rpc_end, IndInv, TypeOK
<1>2. msgin' \in MessageIn
  BY <1>1 DEF CopyFails, homa_rpc_end, MessageIn
<1>3. TypeOK'
  <2>1. skbs' \in Seq(ByteRange)
    BY EmptySeq DEF CopyFails, homa_rpc_end, IndInv, TypeOK
  <2>2. handed_off' \in BOOLEAN
    BY DEF CopyFails, homa_rpc_end, IndInv, TypeOK
  <2>3. UNCHANGED <<region, pkts_ready, copied>>
        /\ receiver' \in {"waiting", "copy_loop"} /\ result' \in {"none", "ok", "error"}
    BY DEF CopyFails, homa_rpc_end, IndInv, TypeOK
  <2> QED BY <1>1, <1>2, <2>1, <2>2, <2>3 DEF IndInv, TypeOK
<1>4. ~Live'
  BY <1>1 DEF Live
<1>5. Phases' /\ DeliveredWhole'
  <2>1. CASE CopyFails
    <3>1. receiver' = "waiting" /\ skbs' = <<>> /\ copied' = copied /\ result # "ok"
      BY <2>1 DEF CopyFails, IndInv, Phases
    <3>2. result' # "ok"
      BY <2>1, <3>1 DEF CopyFails
    <3> QED BY <1>1, <3>1, <3>2 DEF Phases, DeliveredWhole
  <2>2. CASE homa_rpc_end
    <3>1. result = "none" /\ UNCHANGED <<receiver, skbs, copied, result>>
      BY <2>2 DEF homa_rpc_end, IndInv, Phases
    <3> QED BY <1>1, <3>1 DEF IndInv, Phases, DeliveredWhole
  <2> QED BY <2>1, <2>2
<1> QED BY <1>3, <1>4, <1>5 DEF IndInv, GapsMaximal, RemainingExact, KeptOnce, PacketsAttended

\* When bytes_remaining reaches 0 every byte of the message has been received.
LEMMA CompleteMessage ==
  ASSUME NEW m, MsgOK(m), m.bytes_remaining = 0
  PROVE  Received(m) = 0 .. (Length - 1)
<1>1. m \in MessageIn /\ m.recv_end \in Nat /\ m.recv_end <= Length
  BY DEF MsgOK, GapsOK, MessageIn
<1>2. Received(m) \subseteq 0 .. (Length - 1)
  BY <1>1, ReceivedFinite, LengthAssumption, SMTT(60)
<1>3. IsFiniteSet(0 .. (Length - 1)) /\ Cardinality(0 .. (Length - 1)) = Length
  <2>1. 0 \in Nat /\ Length \in Nat /\ 0 < Length /\ Length - 0 = Length
    BY LengthAssumption, SMTT(60)
  <2> QED BY <2>1, IntervalSize
<1>4. Cardinality(Received(m)) = Length
  BY <1>1, ReceivedFinite, LengthAssumption, SMTT(60) DEF MsgOK, CountOK
<1> QED BY <1>2, <1>3, <1>4, FS_Subset

\* Clearing RPC_PKTS_READY and returning a complete message preserve the invariant.
LEMMA EndOfQueueInv ==
  ASSUME IndInv, EndOfQueue
  PROVE  IndInv'
<1>1. /\ receiver = "copy_loop" /\ state # "RPC_DEAD" /\ skbs = <<>> /\ msgin.packets = <<>>
      /\ pkts_ready' = FALSE /\ receiver' = "waiting"
      /\ UNCHANGED <<region, msgin, handed_off, skbs, copied>>
  BY DEF EndOfQueue
<1>2. Live /\ msgin.length = Length /\ state = "RPC_INCOMING" /\ msgin \in MessageIn
  <2>1. state = "RPC_INCOMING" /\ msgin.length # -1 /\ msgin \in MessageIn
    BY <1>1 DEF IndInv, Phases, Untouched, TypeOK
  <2> QED BY <2>1, LengthAssumption, SMTT(60) DEF MessageIn, Live
<1>3. MsgOK(msgin) /\ Placed(msgin, skbs, copied)
  BY <1>2, Restate DEF IndInv
<1>4. CASE msgin.bytes_remaining = 0
  <2>1. result' = "ok" /\ state' = "RPC_DEAD"
    BY <1>4 DEF EndOfQueue
  <2>2. copied = 0 .. (Length - 1)
    BY <1>1, <1>3, <1>4, CompleteMessage, BytesEmpty DEF Placed
  <2>3. TypeOK'
    BY <1>1, <2>1 DEF IndInv, TypeOK
  <2>4. ~Live'
    BY <2>1 DEF Live
  <2>5. Phases' /\ DeliveredWhole'
    BY <1>1, <2>1, <2>2 DEF Phases, DeliveredWhole
  <2> QED BY <2>3, <2>4, <2>5 DEF IndInv, GapsMaximal, RemainingExact, KeptOnce, PacketsAttended
<1>5. CASE msgin.bytes_remaining # 0
  <2>1. UNCHANGED <<result, state>>
    BY <1>5 DEF EndOfQueue
  <2>2. TypeOK'
    BY <1>1, <2>1 DEF IndInv, TypeOK
  <2>3. (GapsMaximal /\ RemainingExact /\ KeptOnce /\ DeliveredWhole)'
    BY <1>1, <2>1 DEF IndInv, GapsMaximal, RemainingExact, KeptOnce, DeliveredWhole, Live
  <2>4. PacketsAttended'
    BY <1>1 DEF PacketsAttended
  <2>5. Phases'
    BY <1>1, <1>2, <2>1, LengthAssumption, SMTT(60) DEF IndInv, Phases
  <2> QED BY <2>2, <2>3, <2>4, <2>5 DEF IndInv
<1> QED BY <1>4, <1>5

\* Every step preserves the invariant.
LEMMA StepInv == IndInv /\ [Next]_vars => IndInv'
<1> SUFFICES ASSUME IndInv, [Next]_vars PROVE IndInv'
  OBVIOUS
<1>1. ASSUME NEW p \in Packets, NEW mem \in BOOLEAN, homa_data_pkt(p, mem) PROVE IndInv'
  BY <1>1, DataPktInv
<1>2. CASE UNCHANGED vars
  BY <1>2 DEF vars, IndInv, TypeOK, GapsMaximal, RemainingExact, KeptOnce,
              DeliveredWhole, PacketsAttended, Phases, Untouched, Live
<1> QED BY <1>1, <1>2, ReceiverInv, GrantInv, DequeueInv, CopyBatchInv, DeathInv,
           EndOfQueueInv DEF Next, Receive

-----------------------------------------------------------------------------
(* Theorems *)

\* The inductive invariant holds in every reachable state.
THEOREM Invariance == Spec => []IndInv
BY InitInv, StepInv, PTL DEF Spec

\* Type correctness of the model of homa_message_in and its receiver.
THEOREM TypeCorrect == Spec => []TypeOK
<1>1. IndInv => TypeOK
  BY DEF IndInv
<1> QED BY Invariance, <1>1, PTL

\* homa_add_packet keeps the gap list and bytes_remaining exact, for every
\* sequence of lost, duplicated, reordered and overlapping packets.
THEOREM ReassemblyExact == Spec => []ArrivalsExact
<1>1. IndInv => ArrivalsExact
  BY DEF IndInv, ArrivalsExact
<1> QED BY Invariance, <1>1, PTL

\* Each received byte is in exactly one of: the packet queue, the batch being
\* copied without the RPC lock, the application's buffers.
THEOREM KeptOnceHolds == Spec => []KeptOnce
<1>1. IndInv => KeptOnce
  BY DEF IndInv
<1> QED BY Invariance, <1>1, PTL

\* recvmsg returns a message only when all of its bytes are in the buffers.
THEOREM Delivery == Spec => []DeliveredWhole
<1>1. IndInv => DeliveredWhole
  BY DEF IndInv
<1> QED BY Invariance, <1>1, PTL

\* Queued packets always have a thread that will copy them.
THEOREM NoLostPackets == Spec => []PacketsAttended
<1>1. IndInv => PacketsAttended
  BY DEF IndInv
<1> QED BY Invariance, <1>1, PTL

\* The RESENDs of homa_request_retrans name exactly the missing bytes.
THEOREM RetransCorrect == Spec => []RetransExact
<1>1. IndInv => RetransExact
  <2> SUFFICES ASSUME IndInv, Live
               PROVE  UNION {Bytes(r) : r \in homa_request_retrans(msgin)}
                        = {b \in 0 .. (Length - 1) :
                              b < msgin.recv_end \/ b < msgin.granted} \ Received(msgin)
    BY DEF RetransExact
  <2> DEFINE m == msgin
             R == homa_request_retrans(m)
             tail == [start |-> m.recv_end, end |-> m.granted]
  <2>1. MsgOK(m)
    BY Restate DEF IndInv
  <2>2. m.recv_end \in Nat /\ m.granted \in Nat /\ m.recv_end <= Length
        /\ m.granted <= Length /\ m.length >= 0
    BY <2>1, LengthAssumption, SMTT(60) DEF MsgOK, GapsOK, MessageIn
  <2>3. \A g \in m.gaps : g.start \in Nat /\ g.end \in Nat /\ g.end < m.recv_end
    BY <2>1 DEF MsgOK, GapsOK, MessageIn, ByteRange
  <2>4. \A r : r \in R <=> r \in m.gaps \/ (m.granted > m.recv_end /\ r = tail)
    BY <2>2 DEF homa_request_retrans
  <2>5. \A b : b \in Bytes(tail) <=> b \in m.recv_end .. (m.granted - 1)
    BY DEF Bytes
  <2> HIDE DEF m, R, tail
  <2>6. ASSUME NEW b
        PROVE  (\E r \in R : b \in Bytes(r)) <=>
               (/\ b \in 0 .. (Length - 1)
                /\ b < m.recv_end \/ b < m.granted
                /\ b \notin Received(m))
    <3>1. (\E r \in R : b \in Bytes(r)) <=>
            \/ \E g \in m.gaps : b \in Bytes(g)
            \/ m.granted > m.recv_end /\ b \in m.recv_end .. (m.granted - 1)
      BY <2>4, <2>5
    <3>2. ASSUME NEW g \in m.gaps, b \in Bytes(g)
          PROVE  b \in 0 .. (Length - 1) /\ b < m.recv_end /\ b \notin Received(m)
      <4>1. b \in Nat /\ b < g.end
        BY <3>2, <2>3, SMTT(60) DEF Bytes
      <4> QED BY <4>1, <3>2, <2>2, <2>3, LengthAssumption, SMTT(60) DEF Received
    <3>3. ASSUME m.granted > m.recv_end, b \in m.recv_end .. (m.granted - 1)
          PROVE  b \in 0 .. (Length - 1) /\ b < m.granted /\ b \notin Received(m)
      BY <3>3, <2>2, LengthAssumption, SMTT(60) DEF Received
    <3>4. ASSUME b \in 0 .. (Length - 1), b < m.recv_end, b \notin Received(m)
          PROVE  \E g \in m.gaps : b \in Bytes(g)
      BY <3>4, <2>2, LengthAssumption, SMTT(60) DEF Received
    <3>5. ASSUME b \in 0 .. (Length - 1), ~(b < m.recv_end), b < m.granted
          PROVE  m.granted > m.recv_end /\ b \in m.recv_end .. (m.granted - 1)
      BY <3>5, <2>2, LengthAssumption, SMTT(60)
    <3> QED BY <3>1, <3>2, <3>3, <3>4, <3>5
  <2>7. UNION {Bytes(r) : r \in R}
          = {b \in 0 .. (Length - 1) : b < m.recv_end \/ b < m.granted} \ Received(m)
    BY <2>6
  <2> QED BY <2>7 DEF m, R
<1> QED BY Invariance, <1>1, PTL

\* While the RPC lives no received byte is forgotten, by any step.
THEOREM Monotone == Spec => NothingForgotten
<1> DEFINE Grows == Live /\ Live' => /\ Received(msgin) \subseteq Received(msgin)'
                                    /\ copied \subseteq copied'
                                    /\ msgin'.bytes_remaining <= msgin.bytes_remaining
<1>1. ASSUME IndInv, [Next]_vars PROVE Grows
  <2> SUFFICES ASSUME Live, Live' PROVE Grows
    OBVIOUS
  <2>1. MsgOK(msgin) /\ Placed(msgin, skbs, copied) /\ TypeOK /\ msgin.bytes_remaining \in Int
    BY <1>1, Restate DEF IndInv, TypeOK, MessageIn
  <2>2. ASSUME NEW p \in Packets, NEW mem \in BOOLEAN, homa_data_pkt(p, mem) PROVE Grows
    <3>1. AcceptData(msgin, p, mem) /\ copied' = copied
      BY <2>2 DEF homa_data_pkt, Live
    <3>2. p \in ByteRange /\ pkts_ready \in BOOLEAN /\ handed_off \in BOOLEAN
          /\ (msgin.packets # <<>> => pkts_ready)
      BY PacketsAssumption, <1>1, <2>1 DEF TypeOK, IndInv, PacketsAttended
    <3>3. Received(msgin) \subseteq Received(msgin') /\ msgin'.bytes_remaining <= msgin.bytes_remaining
      BY <3>1, <3>2, <2>1, AcceptKeeps
    <3> QED BY <3>1, <3>3
  <2>3. ASSUME msgin'.recv_end = msgin.recv_end, msgin'.gaps = msgin.gaps,
               msgin'.bytes_remaining = msgin.bytes_remaining, copied \subseteq copied'
        PROVE  Grows
    BY <2>1, <2>3, SMTT(60) DEF Received
  <2>4. CASE GetBuffers \/ Dequeue \/ \E offset \in 1 .. Length : Grant(offset)
    BY <2>1, <2>3, <2>4 DEF GetBuffers, Dequeue, Grant, MsgOK, MessageIn
  <2>5. CASE StartReceive \/ CopyBatch \/ EndOfQueue \/ FoundDead
             \/ homa_pool_set_region \/ UNCHANGED vars
    BY <2>3, <2>5 DEF StartReceive, CopyBatch, EndOfQueue, FoundDead, homa_pool_set_region, vars
  <2>6. CASE CopyFails \/ homa_rpc_end
    BY <2>6 DEF CopyFails, homa_rpc_end, Live
  <2> QED BY <1>1, <2>2, <2>4, <2>5, <2>6 DEF Next, Receive
<1>2. IndInv /\ [Next]_vars => [Grows]_vars
  BY <1>1
<1> QED BY Invariance, <1>2, PTL DEF Spec, NothingForgotten

-----------------------------------------------------------------------------
(* Refinement of MessageAssembly *)

\* While the RPC lives the abstract message is open, and what it has got is
\* what msgin records as received.
OpenMessage ==
    /\ Outcome = "open" /\ Stored = copied
    /\ Accepted = BytesOf(msgin.packets) \cup BytesOf(skbs) \cup copied
    /\ Live => Accepted = Received(msgin)
    /\ ~Live => Accepted = {}
    /\ Accepted \subseteq 0 .. (Length - 1)

\* A live RPC maps to an open message.
LEMMA OpenMapping == IndInv /\ state # "RPC_DEAD" => OpenMessage
<1> SUFFICES ASSUME IndInv, state # "RPC_DEAD" PROVE OpenMessage
  OBVIOUS
<1>1. /\ Outcome = "open" /\ Stored = copied
      /\ Accepted = BytesOf(msgin.packets) \cup BytesOf(skbs) \cup copied
  BY DEF IndInv, Phases, Outcome, Stored, Accepted, Abandoned
<1>2. Live => Accepted = Received(msgin)
  BY <1>1 DEF IndInv, KeptOnce
<1>3. ~Live => Accepted = {}
  <2>1. ~Live => msgin.packets = <<>> /\ skbs = <<>> /\ copied = {}
    BY LengthAssumption, SMTT(60) DEF Live, IndInv, Phases, Untouched, TypeOK, MessageIn
  <2> QED BY <2>1, <1>1, BytesEmpty
<1>4. Live => Received(msgin) \subseteq 0 .. (Length - 1)
  <2>1. Live => MsgOK(msgin)
    BY Restate DEF IndInv
  <2>2. MsgOK(msgin) => msgin \in MessageIn /\ msgin.recv_end \in Nat /\ msgin.recv_end <= Length
    BY DEF MsgOK, GapsOK, MessageIn
  <2> QED BY <2>1, <2>2, LengthAssumption, SMTT(60) DEF Received
<1> QED BY <1>1, <1>2, <1>3, <1>4 DEF OpenMessage

\* The same in the next state.
LEMMA OpenMappingNext == IndInv' /\ state' # "RPC_DEAD" => OpenMessage'
<1>1. (IndInv /\ state # "RPC_DEAD" => OpenMessage)'
  BY OpenMapping, PTL
<1> QED BY <1>1

\* Accepting a packet: an Accept step.
LEMMA DataPktMapped ==
  ASSUME IndInv, IndInv', NEW p \in Packets, NEW mem \in BOOLEAN, homa_data_pkt(p, mem)
  PROVE  Assembly!Accept
<1>1. state # "RPC_DEAD" /\ state' # "RPC_DEAD" /\ copied' = copied
  BY DEF homa_data_pkt
<1>2. /\ Outcome = "open" /\ Stored = copied
      /\ (Live => Accepted = Received(msgin)) /\ (~Live => Accepted = {})
  BY <1>1, OpenMapping DEF OpenMessage
<1>3. /\ Outcome' = "open" /\ Stored' = copied'
      /\ (Live' => Accepted' = Received(msgin'))
      /\ Accepted' \subseteq 0 .. (Length - 1)
  BY <1>1, OpenMappingNext DEF OpenMessage, Received
<1>4. Accepted \subseteq Accepted'
  <2>1. CASE ~Live
    BY <2>1, <1>2
  <2>2. CASE Live
    <3>1. AcceptData(msgin, p, mem) /\ state' = "RPC_INCOMING"
      BY <2>2 DEF homa_data_pkt, Live
    <3>2. MsgOK(msgin) /\ Placed(msgin, skbs, copied)
      BY <2>2, Restate DEF IndInv
    <3>3. p \in ByteRange /\ pkts_ready \in BOOLEAN /\ handed_off \in BOOLEAN
          /\ (msgin.packets # <<>> => pkts_ready)
      BY <2>2, PacketsAssumption DEF TypeOK, IndInv, PacketsAttended
    <3>4. Received(msgin) \subseteq Received(msgin') /\ MsgOK(msgin')
      BY <3>1, <3>2, <3>3, AcceptKeeps
    <3>5. Live'
      BY <3>1, <3>4, LengthAssumption, SMTT(60) DEF Live, MsgOK
    <3> QED BY <1>2, <1>3, <2>2, <3>4, <3>5
  <2> QED BY <2>1, <2>2
<1> QED BY <1>1, <1>2, <1>3, <1>4 DEF Assembly!Accept, Assembly!All

\* Moving a batch from the queue to the copying thread: a stutter.
LEMMA DequeueMapped ==
  ASSUME IndInv, IndInv', Dequeue
  PROVE  UNCHANGED <<Accepted, Stored, Outcome>>
<1>1. state # "RPC_DEAD" /\ UNCHANGED <<state, copied>>
      /\ msgin'.recv_end = msgin.recv_end /\ msgin'.gaps = msgin.gaps
      /\ msgin'.length = msgin.length
  <2>1. msgin \in MessageIn
    BY DEF IndInv, TypeOK
  <2> QED BY <2>1 DEF Dequeue, MessageIn
<1>2. OpenMessage /\ OpenMessage'
  BY <1>1, OpenMapping, OpenMappingNext
<1>3. Live' <=> Live
  BY <1>1 DEF Live
<1>4. Received(msgin)' = Received(msgin)
  BY <1>1 DEF Received
<1> QED BY <1>1, <1>2, <1>3, <1>4 DEF OpenMessage

\* Storing a batch: a Store step, or a stutter if the RPC has died.
LEMMA CopyBatchMapped ==
  ASSUME IndInv, IndInv', CopyBatch
  PROVE  Assembly!Store \/ UNCHANGED <<Accepted, Stored, Outcome>>
<1>1. /\ receiver = "copy_loop" /\ UNCHANGED <<state, msgin, result>>
      /\ copied' = copied \cup BytesOf(skbs) /\ skbs' = <<>>
  BY DEF CopyBatch
<1>2. CASE state = "RPC_DEAD"
  <2>1. Abandoned /\ Abandoned'
    BY <1>1, <1>2 DEF Abandoned, IndInv, Phases
  <2> QED BY <2>1 DEF Accepted, Stored, Outcome
<1>3. CASE state # "RPC_DEAD"
  <2>1. OpenMessage /\ OpenMessage'
    BY <1>1, <1>3, OpenMapping, OpenMappingNext
  <2>2. /\ Outcome = "open" /\ Outcome' = "open" /\ Stored = copied /\ Stored' = copied'
        /\ Accepted = BytesOf(msgin.packets) \cup BytesOf(skbs) \cup copied
        /\ Accepted' = BytesOf(msgin.packets)' \cup BytesOf(skbs)' \cup copied'
    BY <2>1 DEF OpenMessage
  <2>3. BytesOf(msgin.packets)' = BytesOf(msgin.packets) /\ BytesOf(skbs)' = {}
    BY <1>1, BytesEmpty DEF BytesOf
  <2>4. Accepted' = Accepted /\ Stored \subseteq Stored' /\ Stored' \subseteq Accepted
    BY <1>1, <2>2, <2>3
  <2> QED BY <2>2, <2>4 DEF Assembly!Store
<1> QED BY <1>2, <1>3

\* Finding the queue empty: delivery of a complete message, or a stutter.
LEMMA EndOfQueueMapped ==
  ASSUME IndInv, IndInv', EndOfQueue
  PROVE  Assembly!Deliver \/ UNCHANGED <<Accepted, Stored, Outcome>>
<1>1. state # "RPC_DEAD" /\ UNCHANGED <<msgin, skbs, copied>>
  BY DEF EndOfQueue
<1>2. /\ Outcome = "open" /\ Stored = copied
      /\ Accepted = BytesOf(msgin.packets) \cup BytesOf(skbs) \cup copied
  BY <1>1, OpenMapping DEF OpenMessage
<1>3. CASE msgin.bytes_remaining = 0
  <2>1. result' = "ok" /\ state' = "RPC_DEAD"
    BY <1>3 DEF EndOfQueue
  <2>2. copied = 0 .. (Length - 1)
    BY <1>1, <2>1 DEF IndInv, DeliveredWhole
  <2>3. ~Abandoned'
    BY <2>1 DEF Abandoned
  <2>4. Outcome' = "delivered" /\ UNCHANGED <<Accepted, Stored>>
    BY <1>1, <1>2, <2>1, <2>3 DEF Outcome, Accepted, Stored, BytesOf
  <2> QED BY <1>2, <2>2, <2>4 DEF Assembly!Deliver, Assembly!All
<1>4. CASE msgin.bytes_remaining # 0
  BY <1>1, <1>4 DEF EndOfQueue, Outcome, Accepted, Stored, Abandoned, BytesOf
<1> QED BY <1>3, <1>4

\* A failed copy or the end of the RPC: the message is abandoned.
LEMMA DeathMapped ==
  ASSUME IndInv, IndInv', CopyFails \/ homa_rpc_end
  PROVE  Assembly!Abandon \/ UNCHANGED <<Accepted, Stored, Outcome>>
<1>1. state' = "RPC_DEAD" /\ result' # "ok" /\ result # "ok"
  BY DEF CopyFails, homa_rpc_end, IndInv, Phases
<1>2. Outcome' = "abandoned" /\ Accepted' = {} /\ Stored' = {}
  BY <1>1 DEF Outcome, Accepted, Stored, Abandoned
<1>3. CASE state = "RPC_DEAD"
  BY <1>1, <1>2, <1>3 DEF Outcome, Accepted, Stored, Abandoned
<1>4. CASE state # "RPC_DEAD"
  BY <1>2, <1>4, OpenMapping DEF OpenMessage, Assembly!Abandon
<1> QED BY <1>3, <1>4

\* Packet arrival, retransmission, buffer stalls, the unlocked copy and death
\* of the RPC together implement MessageAssembly.
THEOREM Refinement == Spec => ImplementsAssembly
<1>1. Init => Assembly!AInit
  BY BytesEmpty, SMTT(60) DEF Init, NoMessage, Assembly!AInit, Accepted, Stored, Outcome, Abandoned
<1>2. ASSUME IndInv, IndInv', [Next]_vars
      PROVE  [Assembly!ANext]_(Assembly!avars)
  <2> SUFFICES ASSUME TRUE
               PROVE  Assembly!ANext \/ UNCHANGED <<Accepted, Stored, Outcome>>
    BY DEF Assembly!avars
  <2>1. ASSUME NEW p \in Packets, NEW mem \in BOOLEAN, homa_data_pkt(p, mem)
        PROVE  Assembly!ANext
    BY <1>2, <2>1, DataPktMapped DEF Assembly!ANext
  <2>2. CASE GetBuffers \/ \E offset \in 1 .. Length : Grant(offset)
    <3>1. msgin'.packets = msgin.packets /\ UNCHANGED <<state, skbs, copied, result>>
      <4>1. msgin \in MessageIn
        BY <1>2 DEF IndInv, TypeOK
      <4> QED BY <2>2, <4>1 DEF GetBuffers, Grant, MessageIn
    <3> QED BY <3>1 DEF Accepted, Stored, Outcome, Abandoned, BytesOf
  <2>3. CASE StartReceive \/ FoundDead \/ homa_pool_set_region \/ UNCHANGED vars
    <3>1. UNCHANGED <<state, msgin, skbs, copied, result>>
      BY <2>3 DEF StartReceive, FoundDead, homa_pool_set_region, vars
    <3> QED BY <3>1, SMTT(60) DEF Accepted, Stored, Outcome, Abandoned, BytesOf
  <2> QED BY <1>2, <2>1, <2>2, <2>3, DequeueMapped, CopyBatchMapped, EndOfQueueMapped,
             DeathMapped DEF Next, Receive, Assembly!ANext
<1>3. IndInv /\ IndInv' /\ [Next]_vars => [Assembly!ANext]_(Assembly!avars)
  BY <1>2
<1> QED BY <1>1, <1>3, Invariance, PTL DEF Spec, ImplementsAssembly, Assembly!ASpec
=============================================================================
