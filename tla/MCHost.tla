---------------------------- MODULE MCHost ----------------------------------
(***************************************************************************)
(* The rest of a host for TLC: grants (HomaGrant), the peer table and      *)
(* routes (HomaPeer, HomaRoute), the socket table (HomaSock), receive      *)
(* offload (HomaOffload), time traces and metrics (HomaTimetrace,          *)
(* HomaMetrics) and the module itself (HomaLoad). Init chooses the one     *)
(* that is explored. HomaRoute, about which there are proofs, is extended: *)
(* its constants are given in the cfg.                                     *)
(***************************************************************************)
EXTENDS HomaRoute, Sequences, TLC

CONSTANTS c1, c2, none

VARIABLES focus,      \* the part that is explored
          conf, state, msgin, silent, refs, lock, grant, total_incoming,
          stalled_rank, core, pconf, peer, ht, num_peers, net_peers,
          gc_stop_count, jiffies, user, exit, lost, sconf, sock, head,
          prev_default_port, write_lock, finder, scan,
          gconf, arrived, gro_list, gro_count, gro_bitmask, offload_core,
          softirq, dispatched, discarded, inet_offloads, tcp_net_offload,
          hooks, tconf, clock, events, next_index, recorder, tt_freeze_count,
          tt_frozen, init, freezer, pf, dump, calls, recorded, disturbed,
          raced, fails, held, load_init, loader, net, users, timer_kthread,
          timer_thread_exit, timer_thread_done, hrtimer, pacer_kthread,
          may_fail, metrics, homa_mout, mout_mutex, file

grantVars == <<conf, state, msgin, silent, refs, lock, grant, total_incoming,
               stalled_rank, core>>
peerVars == <<pconf, peer, ht, num_peers, net_peers, gc_stop_count, jiffies,
              user, exit, lost>>
sockVars == <<sconf, sock, head, prev_default_port, write_lock, finder, scan>>
groVars == <<gconf, arrived, gro_list, gro_count, gro_bitmask, offload_core,
             softirq, dispatched, discarded, inet_offloads, tcp_net_offload,
             hooks>>
traceVars == <<tconf, clock, events, next_index, recorder, tt_freeze_count,
               tt_frozen, init, freezer, pf, dump, calls, recorded,
               disturbed, raced>>
loadVars == <<fails, held, load_init, loader, net, users, timer_kthread,
              timer_thread_exit, timer_thread_done, hrtimer, pacer_kthread>>
metricsVars == <<may_fail, metrics, homa_mout, mout_mutex, file>>

allVars == <<focus, grantVars, peerVars, routeVars, sockVars, groVars,
             traceVars, loadVars, metricsVars>>

Slots(overcommit, perPeer, window, incoming, fifo, messages, does) ==
    [max_overcommit |-> overcommit, max_rpcs_per_peer |-> perPeer,
     window_param |-> window, max_incoming |-> incoming,
     fifo_grant_increment |-> fifo, messages |-> messages, events |-> does]

\* A slot for each peer and room for every window; both slots open to one
\* peer, dynamic windows and FIFO grants; windows that exceed the headroom;
\* RPCs that end, fall silent or wait for buffer space.
GrantConfigs == {
    Slots(2, 1, 1, 6, 0, 4, {"recalc"}),
    Slots(2, 2, 0, 3, 1, 3, {"recalc", "fifo"}),
    Slots(2, 1, 1, 1, 0, 3, {}),
    Slots(2, 1, 1, 6, 0, 3, {"end"}),
    Slots(1, 1, 1, 2, 1, 2, {"end", "fifo", "silent", "dup", "nobuf"})}

\* A collector that has to choose among the peers of two namespaces; and two
\* threads that find and insert the same keys while it runs.
PeerConfigs == {
    [users |-> {"u"}, keys |-> {"a", "b", "c"}, threshold |-> 2, time |-> 2],
    [users |-> {"u", "v"}, keys |-> {"a", "b"}, threshold |-> 1, time |-> 1]}

Sockets(net3, closes, binds, scans) ==
    [net |-> <<1, 1, net3>>, closes |-> closes, binds |-> binds,
     finders |-> {"f"}, scan |-> scans]

\* Sockets that are closed under a scan; sockets that are bound; and sockets of
\* two namespaces.
SockConfigs == {
    Sockets(1, {1, 2}, {}, TRUE),
    Sockets(1, {}, {1, 2}, TRUE),
    Sockets(2, {1}, {1, 2}, FALSE)}

Pkt(on, hash, kind, rpc) ==
    [core |-> on, hash |-> hash, kind |-> kind, rpc |-> rpc]
Arrive(policy, n, packets) ==
    [policy |-> policy, hooks |-> n, packets |-> packets]

\* Packets that are merged, that bypass merging, that take TCP's place, and
\* that arrive while the hook is removed, under each load balancer.
GroConfigs == {
    Arrive({"SAME_CORE", "GEN2", "SHORT_BYPASS", "FAST_GRANTS"}, 0,
           <<Pkt(0, 0, "long", 1), Pkt(0, 1, "tcp", 0), Pkt(0, 1, "long", 2),
             Pkt(0, 0, "grant", 1), Pkt(0, 0, "long", 1)>>),
    Arrive({"GEN3"}, 0,
           <<Pkt(0, 0, "long", 1), Pkt(0, 0, "long", 2),
             Pkt(1, 1, "short", 3), Pkt(1, 0, "bad", 2)>>),
    Arrive({"IDLE", "SAME_CORE"}, 3,
           <<Pkt(0, 0, "hijack", 1), Pkt(0, 0, "tcp", 2),
             Pkt(0, 0, "hijack", 3)>>),
    Arrive({"NEXT"}, 0,
           <<Pkt(0, 0, "long", 1), Pkt(0, 0, "freeze", 2),
             Pkt(0, 1, "long", 1)>>),
    Arrive({}, 0,
           <<Pkt(0, 0, "long", 1), Pkt(0, 0, "long", 1),
             Pkt(0, 1, "long", 2)>>)}

Trc(readers, dumps, freezes, reloads, late, openfails) ==
    [readers |-> readers, dumps |-> dumps, freezes |-> freezes,
     reloads |-> reloads, late |-> late, openfails |-> openfails]

\* A reader and both dumps; two readers and a freeze; a reload with a delayed
\* recording; and a dump whose file cannot be opened.
TraceConfigs == {
    Trc({"r"}, {"printk", "file"}, 0, 0, FALSE, FALSE),
    Trc({"r", "s"}, {}, 1, 0, FALSE, FALSE),
    Trc({}, {"file"}, 0, 1, TRUE, FALSE),
    Trc({"r"}, {"file"}, 0, 0, FALSE, TRUE)}

\* A load in which nothing fails, and loads in which steps may fail.
LoadConfigs == {
    {}, {"pacer"}, {"peertab", "skb"},
    {"proto", "protosw6", "offload", "net_ops", "timer", "qdisc", "metrics"}}

\* Two cores that grant to four messages of two senders; the first is the
\* longest, so that later ones overtake it.
Grant == INSTANCE HomaGrant WITH
       Cores <- {c1, c2}, Rpcs <- 1 .. 4, Peers <- {"p1", "p2"},
       Sender <- <<"p1", "p2", "p1", "p1">>, Length <- <<3, 2, 2, 2>>,
       Unsched <- 1, Configs <- GrantConfigs, MaxCand <- 2, NoRpc <- none

\* Three addresses in two namespaces, and room for three peers.
Peer == INSTANCE HomaPeer WITH
       Keys <- {"a", "b", "c"}, Net <- [a |-> "n1", b |-> "n1", c |-> "n2"],
       Peers <- {1, 2, 3}, NetMax <- 1, IdleMin <- 1, IdleMax <- 2,
       Batch <- 2, PeerConfigs <- PeerConfigs, conf <- pconf

\* Three sockets in a table of two chains.
Socktab == INSTANCE HomaSock WITH
       Socks <- {1, 2, 3}, Finders <- {"f"}, MaxPort <- 3, MinDefault <- 2,
       Bucket <- [port \in 0 .. 3 |-> IF port = 1 THEN 1 ELSE 0],
       SockConfigs <- SockConfigs

\* Three cores with two GRO lists each.
Gro == INSTANCE HomaOffload WITH
       NumCores <- 3, Buckets <- {0, 1}, Bufs <- {1, 2, 3, 4},
       CoresToCheck <- 2, MaxGroSkbs <- 3, GroConfigs <- GroConfigs

\* Two cores with buffers of two events.
Trace == INSTANCE HomaTimetrace WITH
       TraceCores <- {1, 2}, Size <- 2, Storage <- 2, Readers <- {"r", "s"},
       MaxEvents <- 5, TraceConfigs <- TraceConfigs

\* The module with two network namespaces.
Module == INSTANCE HomaLoad WITH
       Nets <- {"n1", "n2"}, LoadConfigs <- LoadConfigs, init <- load_init

\* Two files open on the metrics of three cores; the buffer has to grow twice.
Metrics == INSTANCE HomaMetrics WITH
       MetricCores <- {1, 2, 3}, Files <- {"f", "g"}, FirstCapacity <- 1,
       Reserve <- 1, MaxCount <- 1, MaxPrints <- 2,
       MetricConfigs <- {{"first"}, {"grow"}}

ASSUME HostAssumptions == Grant!GrantAssumptions /\ RouteAssumptions

-----------------------------------------------------------------------------
\* A part that is not explored has no state, or stays in its initial one.
NoGrant ==
    /\ conf = 0 /\ state = 0 /\ msgin = 0 /\ silent = 0 /\ refs = 0
    /\ lock = 0 /\ grant = 0 /\ total_incoming = 0 /\ stalled_rank = 0
    /\ core = 0
NoPeer ==
    /\ pconf = 0 /\ peer = 0 /\ ht = 0 /\ num_peers = 0 /\ net_peers = 0
    /\ gc_stop_count = 0 /\ jiffies = 0 /\ user = 0 /\ exit = 0 /\ lost = 0
NoSocktab ==
    /\ sconf = 0 /\ sock = 0 /\ head = 0 /\ prev_default_port = 0
    /\ write_lock = 0 /\ finder = 0 /\ scan = 0
NoGro ==
    /\ gconf = 0 /\ arrived = 0 /\ gro_list = 0 /\ gro_count = 0
    /\ gro_bitmask = 0 /\ offload_core = 0 /\ softirq = 0 /\ dispatched = 0
    /\ discarded = 0 /\ inet_offloads = 0 /\ tcp_net_offload = 0 /\ hooks = 0
NoTrace ==
    /\ tconf = 0 /\ clock = 0 /\ events = 0 /\ next_index = 0 /\ recorder = 0
    /\ tt_freeze_count = 0 /\ tt_frozen = 0 /\ init = 0 /\ freezer = 0
    /\ pf = 0 /\ dump = 0 /\ calls = 0 /\ recorded = 0 /\ disturbed = 0
    /\ raced = 0
NoModule ==
    /\ fails = 0 /\ held = 0 /\ load_init = 0 /\ loader = 0 /\ net = 0
    /\ users = 0 /\ timer_kthread = 0 /\ timer_thread_exit = 0
    /\ timer_thread_done = 0 /\ hrtimer = 0 /\ pacer_kthread = 0
NoMetrics ==
    /\ may_fail = 0 /\ metrics = 0 /\ homa_mout = 0 /\ mout_mutex = 0
    /\ file = 0

HostInit ==
    /\ focus \in {"grant", "peer", "route", "sock", "gro", "trace", "load",
                  "metrics"}
    /\ IF focus = "grant" THEN Grant!Init ELSE NoGrant
    /\ IF focus = "peer" THEN Peer!Init ELSE NoPeer
    /\ Init
    /\ IF focus = "sock" THEN Socktab!Init ELSE NoSocktab
    /\ IF focus = "gro" THEN Gro!Init ELSE NoGro
    /\ IF focus = "trace" THEN Trace!Init ELSE NoTrace
    /\ IF focus = "load" THEN Module!Init ELSE NoModule
    /\ IF focus = "metrics" THEN Metrics!Init ELSE NoMetrics

\* The parts other than f keep their state.
Others(f) ==
    /\ UNCHANGED focus
    /\ IF f = "grant" THEN TRUE ELSE UNCHANGED grantVars
    /\ IF f = "peer" THEN TRUE ELSE UNCHANGED peerVars
    /\ IF f = "route" THEN TRUE ELSE UNCHANGED routeVars
    /\ IF f = "sock" THEN TRUE ELSE UNCHANGED sockVars
    /\ IF f = "gro" THEN TRUE ELSE UNCHANGED groVars
    /\ IF f = "trace" THEN TRUE ELSE UNCHANGED traceVars
    /\ IF f = "load" THEN TRUE ELSE UNCHANGED loadVars
    /\ IF f = "metrics" THEN TRUE ELSE UNCHANGED metricsVars

HostNext ==
    \/ focus = "grant" /\ Grant!Next /\ Others("grant")
    \/ focus = "peer" /\ Peer!Next /\ Others("peer")
    \/ focus = "route" /\ Next /\ Others("route")
    \/ focus = "sock" /\ Socktab!Next /\ Others("sock")
    \/ focus = "gro" /\ Gro!Next /\ Others("gro")
    \/ focus = "trace" /\ Trace!Next /\ Others("trace")
    \/ focus = "load" /\ Module!Next /\ Others("load")
    \/ focus = "metrics" /\ Metrics!Next /\ Others("metrics")

HostSpec == HostInit /\ [][HostNext]_allVars

-----------------------------------------------------------------------------
(* The properties of the parts; that of HomaRoute is checked as it stands. *)

\* The priority structures, counters, window and references of the grant code
\* agree.
GrantStateExact == focus = "grant" => Grant!GrantStateExact

\* total_incoming is exact and stays within its bound.
IncomingBound == focus = "grant" => Grant!IncomingBound

\* With ample headroom no message is left without grants.
NoneForgotten == focus = "grant" => Grant!NoneForgotten

\* Grants never go back, whichever core writes last.
GrantsAdvance == [][focus = "grant" => Grant!GrantsGrow]_allVars

\* The peer table, its counters and the references agree.
PeersConsistent == focus = "peer" => Peer!PeersConsistent

\* Lookups, scans and references see one consistent table.
SocktabConsistent == focus = "sock" => Socktab!SocktabConsistent

\* Packets pass the receive offload once, in order and with their own kind.
GroConsistent == focus = "gro" => Gro!GroConsistent

\* A read of the time trace is one consistent picture.
TraceConsistent == focus = "trace" => Trace!TraceConsistent

\* Threads and namespaces live inside what they use, and nothing that would
\* run is left behind.
LoadConsistent == focus = "load" => Module!LoadConsistent

\* A file reads one snapshot, which lies inside its buffer.
MetricsConsistent == focus = "metrics" => Metrics!MetricsConsistent
=============================================================================
