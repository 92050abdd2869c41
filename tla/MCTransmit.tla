---------------------------- MODULE MCTransmit ------------------------------
(***************************************************************************)
(* The transmitting host for TLC: sendmsg (HomaSend), the division into    *)
(* packets (HomaSegment), packet memory (HomaSkb), the pacer (HomaXmit)    *)
(* and the queueing discipline (HomaQdisc, HomaQdev). Init chooses the one *)
(* that is explored. HomaXmit and HomaQdev, about which there are proofs,  *)
(* are extended: their constants are given in the cfg.                     *)
(***************************************************************************)
EXTENDS HomaXmit, HomaQdev, TLC

VARIABLES focus,      \* the part that is explored
          wconf, out_rpc, out_thread, hsk, poller, reaper, geometry,
          msgout_pkts, sent, arrived_segs, resent, kconf, page_refs, mem,
          skb_core, page_pool, skb, freeing, releases, load, qdisc,
          tcp_qdiscs, cur_tcp_qdisc, qrpc, deferred_rpcs, last_defer,
          homa_credit, qixs, queue, pacer

sendVars == <<wconf, out_rpc, out_thread, hsk, poller, reaper>>
segmentVars == <<geometry, msgout_pkts, sent, arrived_segs, resent>>
skbVars == <<kconf, page_refs, mem, skb_core, page_pool, skb, freeing,
             releases>>
qdiscVars == <<load, qdisc, tcp_qdiscs, cur_tcp_qdisc, qrpc, deferred_rpcs,
               last_defer, homa_credit, qixs, queue, pacer>>

allVars == <<focus, sendVars, segmentVars, skbVars, xmitVars, qdiscVars,
             qdevVars>>

Setting(block, x, y, shutdown, connect, poll, signals, toUser) ==
    [block |-> block, sends |-> [a |-> x, b |-> y], shutdown |-> shutdown,
     connect |-> connect, poll |-> poll, signals |-> signals, user |-> toUser,
     receiver |-> TRUE]

\* Two senders that wait for memory; a nonblocking one with poll, connect,
\* signals and shutdown; and one whose destination is taken from connect.
SendConfigs == {
    Setting({"a", "b"}, 2, 2, FALSE, FALSE, FALSE, FALSE, TRUE),
    Setting({"a"}, 1, 1, TRUE, TRUE, TRUE, TRUE, FALSE),
    Setting({"a"}, 1, 1, FALSE, TRUE, FALSE, FALSE, TRUE)}

\* Pages that are stashed, packets sent without copying, and packets of two
\* cores that are copied and retransmitted.
SkbConfigs == {
    [cores |-> {1}, packets |-> {1, 2, 3}, does |-> {"stash"}],
    [cores |-> {1}, packets |-> {1, 2}, does |-> {"zerocopy", "copy", "transmit"}],
    [cores |-> {1, 2}, packets |-> {1, 2}, does |-> {"copy", "transmit"}]}

Load(length, tcp, resends, short, reap, destroy, max, share) ==
    [length |-> length, tcp |-> tcp, resends |-> resends, short |-> short,
     reap |-> reap, destroy |-> destroy, max |-> max, share |-> share]

\* TCP and Homa packets; a retransmission while the RPC is reaped; qdiscs that
\* are removed; short packets that bypass the queue.
Workloads == {
    Load(<<1, 1>>, 2, 0, 0, FALSE, "never", 0, 50),
    Load(<<2, 2>>, 0, 1, 0, TRUE, "never", 0, 50),
    Load(<<1, 2>>, 1, 0, 0, FALSE, "idle", 1, 25),
    Load(<<1, 1>>, 1, 0, 1, FALSE, "idle", 0, 25)}

\* Two threads in sendmsg on a socket whose memory fits one message.
Out == INSTANCE HomaSend WITH
       Senders <- {"a", "b"}, Clients <- {1, 2}, Servers <- {3},
       Packets <- 2, Sndbuf <- 2, SendConfigs <- SendConfigs

\* Messages, limits, segments and GSO packets of all small sizes.
Seg == INSTANCE HomaSegment WITH
       Lengths <- {1, 4, 5}, UnschedBytes <- {0, 2, 3}, SegData <- {1, 2, 3},
       GsoSizes <- {0, 3, 5}

\* A caller has a compound page of two, 5 and 6, and next to it another one, 7.
Piece(p, first, last) == [page |-> p, first |-> first, last |-> last]
Iters == {
    <<Piece(5, FALSE, TRUE), Piece(6, TRUE, TRUE), Piece(7, TRUE, FALSE)>>,
    <<Piece(5, TRUE, FALSE), Piece(6, TRUE, TRUE)>>,
    <<Piece(6, TRUE, TRUE), Piece(7, FALSE, TRUE)>>,
    <<Piece(7, TRUE, TRUE), Piece(5, TRUE, TRUE), Piece(7, TRUE, TRUE)>>}

\* Two cores of one NUMA node that fill packets from shared pages of two
\* sizes.
Skb == INSTANCE HomaSkb WITH
       Cores <- {1, 2}, Nodes <- {0}, CoreNode <- <<0, 0>>,
       BigPages <- {1, 2}, SmallPages <- {3}, ForeignPages <- {5, 6, 7},
       CompoundHead <- 5 :> 5 @@ 6 :> 5 @@ 7 :> 7, Iters <- Iters,
       PageNode <- <<0, 0, 0>>, MaxFrags <- 2, BigSize <- 2, SmallSize <- 1,
       Skbs <- {1, 2, 3}, MaxData <- 2, PoolLimit <- 1, CacheBatch <- 1,
       MinPages <- 0, ReleaseMax <- 1, MaxReleases <- 1,
       SkbConfigs <- SkbConfigs

\* For HomaXmit, a message with a packet that needs a grant and a short one, on
\* a NIC queue that holds a packet beyond the one being sent.
TwoAndOne == <<2, 1>>

\* Two queues of a device with a Homa qdisc each.
Qdisc == INSTANCE HomaQdisc WITH
       Qdiscs <- {1, 2}, Rpcs <- {1, 2}, MaxMessage <- 4, LoopMax <- 2,
       CreditIncrement <- 1, Workloads <- Workloads

-----------------------------------------------------------------------------
\* The theorems about the two components hold of these instances.
ASSUME TransmitAssumptions == XmitAssumptions /\ QdevAssumptions

\* A part that is not explored has no state, or stays in its initial one.
NoOut ==
    /\ wconf = 0 /\ out_rpc = 0 /\ out_thread = 0 /\ hsk = 0 /\ poller = 0
    /\ reaper = 0
NoSeg ==
    /\ geometry = 0 /\ msgout_pkts = 0 /\ sent = 0 /\ arrived_segs = 0
    /\ resent = 0
NoSkb ==
    /\ kconf = 0 /\ page_refs = 0 /\ mem = 0 /\ skb_core = 0 /\ page_pool = 0
    /\ skb = 0 /\ freeing = 0 /\ releases = 0
NoQdisc ==
    /\ load = 0 /\ qdisc = 0 /\ tcp_qdiscs = 0 /\ cur_tcp_qdisc = 0
    /\ qrpc = 0 /\ deferred_rpcs = 0 /\ last_defer = 0 /\ homa_credit = 0
    /\ qixs = 0 /\ queue = 0 /\ pacer = 0

TransmitInit ==
    /\ focus \in {"send", "segment", "skb", "xmit", "qdisc", "qdev"}
    /\ IF focus = "send" THEN Out!Init ELSE NoOut
    /\ IF focus = "segment" THEN Seg!Init ELSE NoSeg
    /\ IF focus = "skb" THEN Skb!Init ELSE NoSkb
    /\ Init
    /\ IF focus = "qdisc" THEN Qdisc!Init ELSE NoQdisc
    /\ QdevInit

\* The parts other than f keep their state.
Others(f) ==
    /\ UNCHANGED focus
    /\ IF f = "send" THEN TRUE ELSE UNCHANGED sendVars
    /\ IF f = "segment" THEN TRUE ELSE UNCHANGED segmentVars
    /\ IF f = "skb" THEN TRUE ELSE UNCHANGED skbVars
    /\ IF f = "xmit" THEN TRUE ELSE UNCHANGED xmitVars
    /\ IF f = "qdisc" THEN TRUE ELSE UNCHANGED qdiscVars
    /\ IF f = "qdev" THEN TRUE ELSE UNCHANGED qdevVars

TransmitNext ==
    \/ focus = "send" /\ Out!Next /\ Others("send")
    \/ focus = "segment" /\ Seg!Next /\ Others("segment")
    \/ focus = "skb" /\ Skb!Next /\ Others("skb")
    \/ focus = "xmit" /\ Next /\ Others("xmit")
    \/ focus = "qdisc" /\ Qdisc!Next /\ Others("qdisc")
    \/ focus = "qdev" /\ QdevNext /\ Others("qdev")

TransmitSpec == TransmitInit /\ [][TransmitNext]_allVars

-----------------------------------------------------------------------------
(* The properties of the parts; those of HomaXmit and HomaQdev are checked *)
(* as they stand.                                                          *)

\* Memory, packet buffers and references of outgoing messages are accounted
\* for.
SendConsistent == focus = "send" => Out!SendConsistent

\* The division of a message into packets and segments is exact.
SegmentsExact == focus = "segment" => Seg!SegmentsExact

\* A page is reused only when nobody refers to it, and none is lost.
PagesConsistent == focus = "skb" => Skb!PagesConsistent

\* The lists of deferred packets and what the pacer keeps about them agree.
DeferralConsistent == focus = "qdisc" => Qdisc!DeferralConsistent
=============================================================================
