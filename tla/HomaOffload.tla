---------------------------- MODULE HomaOffload -----------------------------
(***************************************************************************)
(* Receive offload (homa_offload.c) and the packet loop of homa_softirq    *)
(* (homa_plumbing.c): how packets are merged on their way up the stack,    *)
(* which core is chosen to process them, and how a batch is split again    *)
(* into calls of homa_dispatch_pkts.                                       *)
(*                                                                         *)
(* Packets arrive at the NAPI core that the setting gives them and are put *)
(* into packet buffers, which are reused as soon as they are free.  The    *)
(* kernel's GRO lists and its flushing of them are external: the kernel    *)
(* calls homa_gro_complete only for a held packet into which another one   *)
(* was merged.  The clock is abstracted: whether a core was busy recently  *)
(* is any Boolean.                                                         *)
(***************************************************************************)
EXTENDS Integers, Sequences, FiniteSetsExt, SequencesExt

CONSTANTS NumCores,     \* nr_cpu_ids
          Buckets,      \* GRO_HASH_BUCKETS, as a set of hash values
          Bufs,         \* packet buffers, as numbers
          CoresToCheck, \* CORES_TO_CHECK
          MaxGroSkbs,   \* homa->max_gro_skbs
          GroConfigs    \* records: policy (gro_policy), packets (a sequence of records: core,
                        \* hash, kind, rpc), hooks (calls of homa_gro_hook_tcp and its reverse)

VARIABLES gconf,        \* the setting
          arrived,      \* packets that have arrived
          gro_list,     \* gro_list[core][bucket]: held packets, each with its merged ones
          gro_count,    \* napi->gro_hash[].count
          gro_bitmask,  \* napi->gro_bitmask
          offload_core, \* struct homa_offload_core
          softirq,      \* batches queued for SoftIRQ processing on each core
          dispatched,   \* calls of homa_dispatch_pkts, each a sequence of packets
          discarded,    \* packets freed without being dispatched
          inet_offloads, tcp_net_offload,   \* who handles TCP's GRO, and whom the hook calls
          hooks         \* calls of homa_gro_hook_tcp and homa_gro_unhook_tcp so far

groVars == <<gconf, arrived, gro_list, gro_count, gro_bitmask, offload_core, softirq, dispatched,
             discarded, inet_offloads, tcp_net_offload, hooks>>

Cores == 0 .. NumCores - 1
NoSkb == 0
Pkt(i) == gconf.packets[i]

(* A held or queued packet: its buffer, its number, whether its protocol   *)
(* field says Homa, and the packets merged into it.                        *)
Entry(b, i, homa) == [buf |-> b, pkt |-> i, homa |-> homa, frags |-> <<>>]
Merged(e) == <<[buf |-> e.buf, pkt |-> e.pkt]>> \o e.frags

InUse(e) == {Merged(e)[k].buf : k \in DOMAIN Merged(e)}
UsedBufs == (UNION {UNION {InUse(gro_list[c][h][k]) : k \in DOMAIN gro_list[c][h]} :
                    c \in Cores, h \in Buckets})
            \cup (UNION {UNION {InUse(softirq[c][k]) : k \in DOMAIN softirq[c]} : c \in Cores})

(* homa_offload_init                                                       *)
Init == /\ gconf \in GroConfigs
        /\ arrived = 0
        /\ gro_list = [c \in Cores |-> [h \in Buckets |-> <<>>]]
        /\ gro_count = [c \in Cores |-> [h \in Buckets |-> 0]]
        /\ gro_bitmask = [c \in Cores |-> {}]
        /\ offload_core = [c \in Cores |-> [held_skb |-> NoSkb, held_bucket |-> 0,
                                            softirq_offset |-> 0, softirq_backlog |-> 0]]
        /\ softirq = [c \in Cores |-> <<>>]
        /\ dispatched = <<>>
        /\ discarded = {}
        /\ inet_offloads = "tcp"
        /\ tcp_net_offload = "null"
        /\ hooks = 0

(***************************************************************************)
(* homa_softirq on a batch: short messages and control packets are         *)
(* dispatched one by one on a first pass, then the others RPC by RPC.      *)
(***************************************************************************)
Malformed(i) == Pkt(i).kind \in {"bad", "freeze"}

Shortcut(i) == Pkt(i).kind \in {"grant", "short"}

SameRpc(i, j) == Pkt(i).rpc = Pkt(j).rpc

ByRpc(pkts) ==
    LET first == {k \in DOMAIN pkts : \A j \in 1 .. k - 1 : ~SameRpc(pkts[j], pkts[k])}
        order == SetToSortSeq(first, <)
    IN [n \in DOMAIN order |-> SelectSeq(pkts, LAMBDA i : SameRpc(pkts[order[n]], i))]

DispatchCalls(pkts) ==
    LET short == SelectSeq(pkts, Shortcut)
    IN [k \in DOMAIN short |-> <<short[k]>>]
       \o ByRpc(SelectSeq(pkts, LAMBDA i : ~Shortcut(i) /\ ~Malformed(i)))

Processed(pkts) == /\ dispatched' = dispatched \o DispatchCalls(pkts)
                   /\ discarded' = discarded \cup {i \in ToSet(pkts) : Malformed(i)}

(* The decrement at the end of homa_softirq, whoever called it.            *)
BacklogDec(cores, c) == [cores EXCEPT ![c].softirq_backlog = @ - 1]

homa_softirq(c) ==
    LET e == Head(softirq[c])
    IN /\ softirq[c] # <<>>
       /\ Processed([k \in DOMAIN Merged(e) |-> Merged(e)[k].pkt])
       /\ softirq' = [softirq EXCEPT ![c] = Tail(@)]
       /\ offload_core' = BacklogDec(offload_core, c)
       /\ UNCHANGED <<gconf, arrived, gro_list, gro_count, gro_bitmask, inet_offloads,
                      tcp_net_offload, hooks>>

(***************************************************************************)
(* homa_gro_gen2, homa_gro_gen3 and the other policies of                  *)
(* homa_gro_complete.  Each gives the set of possible pairs of the chosen  *)
(* core and the new per-core state, which has forgotten held_skb.          *)
(***************************************************************************)
After(c, k) == (c + k) % NumCores

homa_gro_gen2(c, cores) ==
    LET idle == {k \in 1 .. CoresToCheck : cores[After(c, k)].softirq_backlog <= 0}
        offset == IF cores[c].softirq_offset + 1 > CoresToCheck THEN 1
                  ELSE cores[c].softirq_offset + 1
        inc(t, new) == <<t, [new EXCEPT ![t].softirq_backlog = @ + 1]>>
    IN {inc(After(c, k), cores) : k \in idle}
       \cup {inc(After(c, offset), [cores EXCEPT ![c].softirq_offset = offset])}

(* The candidates are set through the gen3_softirq_cores sysctl.           *)
homa_gro_gen3(cores) == {<<t, cores>> : t \in Cores}

homa_gro_complete(c) ==
    LET cores == [offload_core EXCEPT ![c].held_skb = NoSkb]
    IN IF "GEN3" \in gconf.policy THEN homa_gro_gen3(cores)
       ELSE IF "GEN2" \in gconf.policy THEN homa_gro_gen2(c, cores)
       ELSE IF "IDLE" \in gconf.policy THEN {<<After(c, k), cores>> : k \in 1 .. CoresToCheck}
       ELSE IF "NEXT" \in gconf.policy THEN {<<After(c, 1), cores>>}
       ELSE {<<t, cores>> : t \in Cores}

(***************************************************************************)
(* The kernel passes a held packet up the stack, at the end of a poll.     *)
(***************************************************************************)
Uncounted(c, h) ==
    /\ gro_count' = [gro_count EXCEPT ![c][h] = @ - 1]
    /\ gro_bitmask' = IF gro_count[c][h] = 1 THEN [gro_bitmask EXCEPT ![c] = @ \ {h}]
                      ELSE gro_bitmask

Removed(c, h, k) == gro_list' = [gro_list EXCEPT ![c][h] = RemoveAt(@, k)]

Queue(t, e) == softirq' = [softirq EXCEPT ![t] = Append(@, e)]

Flush(c, h, k) ==
    LET e == gro_list[c][h][k]
    IN /\ k \in DOMAIN gro_list[c][h]
       /\ Removed(c, h, k)
       /\ Uncounted(c, h)
       /\ \/ /\ ~e.homa
             /\ UNCHANGED <<softirq, offload_core>>
          \/ /\ e.homa /\ e.frags = <<>>
             /\ \E t \in Cores : /\ "SAME_CORE" \in gconf.policy => t = c
                                 /\ Queue(t, e)
             /\ UNCHANGED offload_core
          \/ /\ e.homa /\ e.frags # <<>>
             /\ \E r \in homa_gro_complete(c) : Queue(r[1], e) /\ offload_core' = r[2]
       /\ UNCHANGED <<gconf, arrived, dispatched, discarded, inet_offloads, tcp_net_offload,
                      hooks>>
(***************************************************************************)
(* homa_gro_receive.  The packet is merged into held_skb if that is still  *)
(* on its list and still holds a Homa packet; else it becomes held_skb     *)
(* itself, and the kernel adds it to the list of its hash.                 *)
(***************************************************************************)
(* Mutant: the protocol of the held packet is not checked.                 *)
HeldAtAny(c) == LET h == offload_core[c].held_bucket
                IN {k \in DOMAIN gro_list[c][h] :
                       gro_list[c][h][k].buf = offload_core[c].held_skb}

HeldAt(c) == LET h == offload_core[c].held_bucket
             IN {k \in DOMAIN gro_list[c][h] : /\ gro_list[c][h][k].buf = offload_core[c].held_skb
                                               /\ gro_list[c][h][k].homa}

FreeBuf == Min(Bufs \ UsedBufs)

MayBypass(i) == \/ Pkt(i).kind = "short" /\ "SHORT_BYPASS" \in gconf.policy
                \/ Pkt(i).kind = "grant" /\ "FAST_GRANTS" \in gconf.policy

Bypass(c, i) ==
    /\ MayBypass(i)
    /\ Processed(<<i>>)
    /\ offload_core' = BacklogDec(offload_core, c)
    /\ UNCHANGED <<gro_list, gro_count, gro_bitmask, softirq>>

GroFull(e) == Len(e.frags) + 1 >= MaxGroSkbs

Aggregate(c, i) ==
    LET h == offload_core[c].held_bucket
        k == CHOOSE x \in HeldAt(c) : TRUE
        e == [gro_list[c][h][k] EXCEPT !.frags = Append(@, [buf |-> FreeBuf, pkt |-> i])]
    IN /\ offload_core[c].held_skb # NoSkb
       /\ HeldAt(c) # {}
       /\ \/ /\ ~GroFull(e)
             /\ gro_list' = [gro_list EXCEPT ![c][h][k] = e]
             /\ UNCHANGED <<gro_count, gro_bitmask, softirq, offload_core>>
          \/ /\ GroFull(e)
             /\ Removed(c, h, k)
             /\ Uncounted(c, h)
             /\ \E r \in homa_gro_complete(c) : Queue(r[1], e) /\ offload_core' = r[2]
       /\ UNCHANGED <<dispatched, discarded>>

Listed(c, h, e) == /\ gro_list' = [gro_list EXCEPT ![c][h] = Append(@, e)]
                   /\ gro_count' = [gro_count EXCEPT ![c][h] = @ + 1]
                   /\ gro_bitmask' = [gro_bitmask EXCEPT ![c] = @ \cup {h}]

Hold(c, i) ==
    /\ offload_core[c].held_skb = NoSkb \/ HeldAt(c) = {}
    /\ offload_core' = [offload_core EXCEPT ![c].held_skb = FreeBuf,
                                            ![c].held_bucket = Pkt(i).hash]
    /\ Listed(c, Pkt(i).hash, Entry(FreeBuf, i, TRUE))
    /\ UNCHANGED <<softirq, dispatched, discarded>>

homa_gro_receive(c, i) == Bypass(c, i) \/ Aggregate(c, i) \/ Hold(c, i)

(* A packet of TCP's own: the kernel holds it too.                         *)
tcp_gro_receive(c, i) ==
    /\ Listed(c, Pkt(i).hash, Entry(FreeBuf, i, FALSE))
    /\ UNCHANGED <<offload_core, softirq, dispatched, discarded>>

(* homa_tcp_gro_receive, when it is installed.                             *)
homa_tcp_gro_receive(c, i) == IF Pkt(i).kind = "hijack" THEN homa_gro_receive(c, i)
                              ELSE tcp_gro_receive(c, i)

Arrival ==
    LET i == arrived + 1
        c == Pkt(i).core
    IN /\ arrived < Len(gconf.packets)
       /\ Bufs \ UsedBufs # {}
       /\ arrived' = i
       /\ \/ Pkt(i).kind \notin {"tcp", "hijack"} /\ homa_gro_receive(c, i)
          \/ /\ Pkt(i).kind \in {"tcp", "hijack"}
             /\ IF inet_offloads = "hook" THEN homa_tcp_gro_receive(c, i)
                ELSE tcp_gro_receive(c, i)
       /\ UNCHANGED <<gconf, inet_offloads, tcp_net_offload, hooks>>

(***************************************************************************)
(* homa_gro_hook_tcp and homa_gro_unhook_tcp.                              *)
(***************************************************************************)
NotHooked == tcp_net_offload = "null"

homa_gro_hook_tcp ==
    /\ hooks < gconf.hooks
    /\ hooks' = hooks + 1
    /\ IF NotHooked THEN tcp_net_offload' = inet_offloads /\ inet_offloads' = "hook"
       ELSE UNCHANGED <<tcp_net_offload, inet_offloads>>
    /\ UNCHANGED <<gconf, arrived, gro_list, gro_count, gro_bitmask, offload_core, softirq,
                   dispatched, discarded>>

homa_gro_unhook_tcp ==
    /\ hooks < gconf.hooks
    /\ hooks' = hooks + 1
    /\ IF ~NotHooked THEN inet_offloads' = tcp_net_offload /\ tcp_net_offload' = "null"
       ELSE UNCHANGED <<tcp_net_offload, inet_offloads>>
    /\ UNCHANGED <<gconf, arrived, gro_list, gro_count, gro_bitmask, offload_core, softirq,
                   dispatched, discarded>>

FlushSome == \E c \in Cores, h \in Buckets : \E k \in DOMAIN gro_list[c][h] : Flush(c, h, k)
SoftirqSome == \E c \in Cores : homa_softirq(c)

Next == Arrival \/ FlushSome \/ SoftirqSome \/ homa_gro_hook_tcp \/ homa_gro_unhook_tcp

Spec == Init /\ [][Next]_groVars

(***************************************************************************)
(* Properties                                                              *)
(***************************************************************************)
Numbers(e) == [k \in DOMAIN Merged(e) |-> Merged(e)[k].pkt]

(* How many times packet i is somewhere: held, queued, dispatched or       *)
(* discarded.                                                              *)
Times(i, seq) == Cardinality({k \in DOMAIN seq : seq[k] = i})
Places(i) ==
    MapThenSumSet(LAMBDA c : MapThenSumSet(LAMBDA h :
        MapThenSumSet(LAMBDA k : Times(i, Numbers(gro_list[c][h][k])), DOMAIN gro_list[c][h]),
                  Buckets), Cores)
    + MapThenSumSet(LAMBDA c : MapThenSumSet(LAMBDA k : Times(i, Numbers(softirq[c][k])),
                                             DOMAIN softirq[c]), Cores)
    + MapThenSumSet(LAMBDA k : Times(i, dispatched[k]), DOMAIN dispatched)
    + (IF i \in discarded THEN 1 ELSE 0)

(* No packet is lost or handled twice on its way from homa_gro_receive to  *)
(* homa_dispatch_pkts, though held_skb may dangle and its buffer be reused.*)
PacketsOnce == \A i \in 1 .. arrived : /\ Places(i) <= 1
                                       /\ Pkt(i).kind \notin {"tcp", "hijack"} => Places(i) = 1

(* homa_dispatch_pkts gets packets "all related to the same RPC", in the   *)
(* order in which they arrived.                                            *)
DispatchSameRpc ==
    \A d \in ToSet(dispatched) : \A k \in 1 .. Len(d) - 1 : /\ Pkt(d[k]).rpc = Pkt(d[k + 1]).rpc
                                                          /\ d[k] < d[k + 1]

(* Nothing is merged into a packet that is not Homa's, and no batch is     *)
(* larger than max_gro_skbs.                                               *)
MergedIntoHoma ==
    \A c \in Cores, h \in Buckets : \A k \in DOMAIN gro_list[c][h] :
        LET e == gro_list[c][h][k]
        IN /\ e.frags # <<>> => e.homa
           /\ Len(e.frags) < MaxGroSkbs - 1 \/ Len(e.frags) = 0

(* Homa removes a full batch from the kernel's list itself: the counts and *)
(* the bitmask must stay those of the lists.                               *)
GroCounts ==
    \A c \in Cores, h \in Buckets : /\ gro_count[c][h] = Len(gro_list[c][h])
                                    /\ (h \in gro_bitmask[c]) <=> (gro_list[c][h] # <<>>)

(* The handler that homa_tcp_gro_receive passes TCP's packets to is TCP's. *)
HookSound == /\ inet_offloads = "hook" => tcp_net_offload = "tcp"
             /\ tcp_net_offload # "hook"

(* Packets pass the receive offload once, in order and with their own kind,*)
(* although Homa edits the kernel's lists and its table of handlers.       *)
GroConsistent ==
    PacketsOnce /\ DispatchSameRpc /\ MergedIntoHoma /\ GroCounts /\ HookSound
=============================================================================
