------------------------------ MODULE HomaPeer ------------------------------
(***************************************************************************)
(* The peer table (homa_peer.c): one homa_peer for each host that a        *)
(* network namespace communicates with.  homa_peer_get looks for a peer    *)
(* under RCU and creates it if need be; homa_peer_gc evicts peers that     *)
(* have been idle; homa_peer_free_net drops those of a namespace.          *)
(***************************************************************************)
EXTENDS Integers, Sequences, FiniteSets, SequencesExt

CONSTANTS
    Keys,           \* struct homa_peer_key
    Net,            \* Net[k]: the namespace of k
    Peers,          \* addresses of homa_peers that can be allocated: 1, 2, ...
    NetMax, IdleMin, IdleMax, Batch,
    PeerConfigs     \* settings, one of which is chosen at the start

(***************************************************************************)
(* A setting is a record of                                                *)
(*   users     threads that call homa_peer_get and homa_peer_release       *)
(*   keys      the keys that they ask for                                  *)
(*   threshold gc_threshold                                                *)
(*   time      bound on the time, in jiffies                               *)
(***************************************************************************)
VARIABLES
    conf,           \* the setting
    peer,           \* peer[p]: struct homa_peer
    ht,             \* ht[k]: the peer in the hash table, or None
    num_peers,      \* peertab->num_peers
    net_peers,      \* net_peers[n]: hnet->num_peers
    gc_stop_count,
    jiffies,
    user,           \* user[t]: where t is in homa_peer_get, for whom; late
                    \* if it took its reference when there was none left
    exit,           \* progress of homa_peer_free_net: pc, net, value read
    lost            \* insertions missing from num_peers (history)

peerVars == <<conf, peer, ht, num_peers, net_peers, gc_stop_count, jiffies, user, exit, lost>>

None == 0
Nets == {Net[k] : k \in Keys}
NoKey == "none"
Free == [state |-> "free", key |-> NoKey, refs |-> 0, access |-> 0, readers |-> {}]

Init ==
    /\ conf \in PeerConfigs
    /\ peer = [p \in Peers |-> Free]
    /\ ht = [k \in Keys |-> None]
    /\ num_peers = 0
    /\ net_peers = [n \in Nets |-> 0]
    /\ gc_stop_count = 0
    /\ jiffies = 0
    /\ user = [t \in conf.users |-> [pc |-> "out", key |-> NoKey, peer |-> None,
                                    late |-> FALSE]]
    /\ exit = [pc |-> "out", net |-> "none", read |-> 0]
    /\ lost = 0

InTable == {ht[k] : k \in Keys} \ {None}
Go(t, pc, k, p) ==
    user' = [user EXCEPT ![t] = [pc |-> pc, key |-> k, peer |-> p, late |-> FALSE]]

\* Threads in the RCU section of homa_peer_get.
Reading == {t \in conf.users : user[t].pc \in {"hold", "insert"}}
LeaveRcu(m, t) == [p \in Peers |-> [m[p] EXCEPT !.readers = @ \ {t}]]

\* homa_peer_release: with the last reference, homa_peer_free is called after
\* a grace period.
homa_peer_release(m, p) ==
    IF m[p].refs = 1
    THEN [m EXCEPT ![p].refs = 0, ![p].state = "dying", ![p].readers = Reading]
    ELSE [m EXCEPT ![p].refs = @ - 1]

\* homa_peer_hold with the access time its callers set.  A reference count of
\* zero is not revived: refcount_inc saturates it and the peer is freed all
\* the same.
homa_peer_hold(m, p) ==
    [m EXCEPT ![p].refs = IF @ = 0 THEN 0 ELSE @ + 1, ![p].access = jiffies]

homa_peer_free(p) ==
    /\ peer[p].state = "dying" /\ peer[p].readers = {}
    /\ peer' = [peer EXCEPT ![p] = Free]
    /\ UNCHANGED <<ht, num_peers, net_peers, gc_stop_count, jiffies, user, exit, lost>>

-----------------------------------------------------------------------------
(* homa_peer_get                                                           *)

\* Memory of a freed peer that a late thread still uses is not given out
\* again: what follows then is undefined and left out.
Allocable(p) == peer[p].state = "free" /\ \A t \in conf.users : user[t].peer # p

\* The lookup finds a peer, or a new one is allocated, which fails without
\* memory or a route.  No caller uses a namespace that is being torn down.
homa_peer_get(t, k) ==
    /\ user[t].pc = "out" /\ exit.net # Net[k]
    /\ \/ /\ ht[k] # None
          /\ Go(t, "hold", k, ht[k]) /\ UNCHANGED peer
       \/ /\ ht[k] = None
          /\ \/ UNCHANGED <<user, peer>>
             \/ \E p \in Peers : /\ Allocable(p)
                                 /\ \A x \in Peers : Allocable(x) => p <= x
                                 /\ peer' = [peer EXCEPT ![p] = [Free EXCEPT
                                      !.state = "live", !.key = k, !.refs = 1,
                                      !.access = jiffies]]
                                 /\ Go(t, "insert", k, p)
    /\ UNCHANGED <<ht, num_peers, net_peers, gc_stop_count, jiffies, exit, lost>>

\* The peer that was found is held, with the table lock not held: the
\* collector may have released its last reference since.
HoldFound(t) ==
    LET p == user[t].peer
    IN  /\ user[t].pc = "hold"
        /\ peer' = LeaveRcu(homa_peer_hold(peer, p), t)
        /\ user' = [user EXCEPT ![t].pc = "in", ![t].late = peer[p].refs = 0]
        /\ UNCHANGED <<ht, num_peers, net_peers, gc_stop_count, jiffies, exit, lost>>

\* rhashtable_lookup_get_insert_fast finds the peer of another thread.
LookupInsert(k) == ht[k]

\* With the table lock: use another thread's peer, or insert this one, which
\* fails if the hash table cannot grow.
Insert(t) ==
    LET k == user[t].key
        p == user[t].peer
        other == LookupInsert(k)
    IN  /\ user[t].pc = "insert"
        /\ \/ /\ other # None
              /\ peer' = LeaveRcu(homa_peer_hold(homa_peer_release(peer, p), other), t)
              /\ Go(t, "in", k, other)
              /\ UNCHANGED <<ht, num_peers, net_peers>>
           \/ /\ other = None
              /\ peer' = LeaveRcu(homa_peer_release(peer, p), t)
              /\ Go(t, "out", NoKey, None)
              /\ UNCHANGED <<ht, num_peers, net_peers>>
           \/ /\ other = None
              /\ peer' = LeaveRcu([peer EXCEPT ![p].refs = 2], t)
              /\ ht' = [ht EXCEPT ![k] = p]
              /\ num_peers' = num_peers + 1
              /\ net_peers' = [net_peers EXCEPT ![Net[k]] = @ + 1]
              /\ Go(t, "in", k, p)
        /\ UNCHANGED <<gc_stop_count, jiffies, exit, lost>>

Release(t) ==
    /\ user[t].pc = "in"
    /\ peer' = IF user[t].late THEN peer ELSE homa_peer_release(peer, user[t].peer)
    /\ Go(t, "out", NoKey, None)
    /\ UNCHANGED <<ht, num_peers, net_peers, gc_stop_count, jiffies, exit, lost>>

-----------------------------------------------------------------------------
(* homa_peer_gc                                                            *)

Idle(p) == jiffies - peer[p].access
Over(p) == net_peers[Net[peer[p].key]] > NetMax

homa_peer_prefer_evict(p1, p2) ==
    IF Over(p1) = Over(p2) THEN peer[p1].access < peer[p2].access ELSE Over(p1)

Evictable(p) == Idle(p) >= IdleMin /\ (Idle(p) >= IdleMax \/ Over(p))

\* Mutant: a displaced victim is dropped, not moved on.
DisplaceDrops(a, i) ==
    IF a.p # None /\ a.p # a.v[i] /\ homa_peer_prefer_evict(a.p, a.v[i])
    THEN [v |-> [a.v EXCEPT ![i] = a.p], p |-> None] ELSE a

\* One comparison of a candidate with a victim: a victim that is less
\* preferred becomes the candidate.
Displace(a, i) ==
    IF a.p = None THEN a
    ELSE IF a.p = a.v[i] THEN [a EXCEPT !.p = None]
    ELSE IF homa_peer_prefer_evict(a.p, a.v[i])
         THEN [v |-> [a.v EXCEPT ![i] = a.p], p |-> a.v[i]] ELSE a

\* The candidate is sorted into the victims.
Consider(v, p) ==
    LET r == FoldLeft(Displace, [v |-> v, p |-> p], [i \in 1 .. Len(v) |-> i])
    IN  IF ~Evictable(p) THEN v
        ELSE IF r.p # None /\ Len(v) < Batch THEN Append(r.v, r.p) ELSE r.v

homa_peer_pick_victims(scan) == FoldLeft(Consider, <<>>, scan)

\* What the iterator can return: twice as many peers as there may be victims,
\* from anywhere in the table and around its end.
Scans ==
    LET order == SetToSortSeq(InTable, <)
        n == Len(order)
    IN  {[i \in 1 .. 2 * Batch |-> order[((s + i) % n) + 1]] : s \in 0 .. n - 1}

\* The table and the counts without the peers in the set.
DropPeers(gone) ==
    LET dropped(n) == Cardinality({p \in gone : Net[peer[p].key] = n})
    IN  /\ ht' = [k \in Keys |-> IF ht[k] \in gone THEN None ELSE ht[k]]
        /\ peer' = FoldLeft(homa_peer_release, peer, SetToSortSeq(gone, <))
        /\ num_peers' = num_peers - Cardinality(gone)
        /\ net_peers' = [n \in Nets |-> net_peers[n] - dropped(n)]

homa_peer_gc ==
    /\ gc_stop_count = 0
    /\ num_peers >= conf.threshold /\ InTable # {}
    /\ \E scan \in Scans :
         LET gone == Range(homa_peer_pick_victims(scan))
         IN  gone # {} /\ DropPeers(gone)
    /\ UNCHANGED <<gc_stop_count, jiffies, user, exit, lost>>

-----------------------------------------------------------------------------
(* homa_peer_free_net.  The garbage collector is stopped; the counts are   *)
(* changed without the table lock, so a value that was read can be stale   *)
(* when it is written back: an insertion in between is not counted.        *)

StartFree(n) ==
    /\ exit.pc = "out"
    /\ \A t \in conf.users : user[t].pc # "out" => Net[user[t].key] # n
    /\ exit' = [pc |-> "walk", net |-> n, read |-> 0]
    /\ gc_stop_count' = gc_stop_count + 1
    /\ UNCHANGED <<peer, ht, num_peers, net_peers, jiffies, user, lost>>

FreeOne ==
    LET k == CHOOSE k \in Keys : Net[k] = exit.net /\ ht[k] # None
    IN  /\ exit.pc = "walk"
        /\ \E x \in Keys : Net[x] = exit.net /\ ht[x] # None
        /\ ht' = [ht EXCEPT ![k] = None]
        /\ peer' = homa_peer_release(peer, ht[k])
        /\ net_peers' = [net_peers EXCEPT ![exit.net] = @ - 1]
        /\ exit' = [exit EXCEPT !.pc = "count", !.read = num_peers]
        /\ UNCHANGED <<num_peers, gc_stop_count, jiffies, user, lost>>

CountOne ==
    /\ exit.pc = "count"
    /\ num_peers' = exit.read - 1
    /\ lost' = lost + num_peers - exit.read
    /\ exit' = [exit EXCEPT !.pc = "walk", !.read = 0]
    /\ UNCHANGED <<peer, ht, net_peers, gc_stop_count, jiffies, user>>

EndFree ==
    /\ exit.pc = "walk"
    /\ \A k \in Keys : Net[k] = exit.net => ht[k] = None
    /\ gc_stop_count' = gc_stop_count - 1
    /\ exit' = [exit EXCEPT !.pc = "gone"]
    /\ UNCHANGED <<peer, ht, num_peers, net_peers, jiffies, user, lost>>

Tick ==
    /\ jiffies < conf.time
    /\ jiffies' = jiffies + 1
    /\ UNCHANGED <<peer, ht, num_peers, net_peers, gc_stop_count, user, exit, lost>>

Next ==
    /\ \/ \E t \in conf.users : \/ \E k \in conf.keys : homa_peer_get(t, k)
                                \/ HoldFound(t) \/ Insert(t) \/ Release(t)
       \/ \E p \in Peers : homa_peer_free(p)
       \/ homa_peer_gc
       \/ \E n \in Nets : StartFree(n)
       \/ FreeOne \/ CountOne \/ EndFree
       \/ Tick
    /\ UNCHANGED conf

Spec == Init /\ [][Next]_peerVars

-----------------------------------------------------------------------------
(* Properties                                                              *)

\* "Includes one reference for the entry in peertab->ht, plus one for each
\* unmatched call to homa_peer_hold" (homa_peer.h), through evictions, lost
\* races to insert and the end of a namespace; neither a thread nor the table
\* has a freed peer or one of another key.  The exception is the thread whose
\* hold came after the last release: it has no reference, and its peer has
\* left the table for good.
PeerRefsExact ==
    /\ \A p \in Peers : peer[p].state = "live" =>
         peer[p].refs = Cardinality({k \in Keys : ht[k] = p})
                        + Cardinality({t \in conf.users : user[t].peer = p
                                                     /\ user[t].pc # "hold"})
    /\ \A t \in conf.users : user[t].peer # None =>
         LET p == peer[user[t].peer]
         IN  /\ user[t].late => p.state # "live"
             /\ ~user[t].late => p.key = user[t].key
             /\ user[t].pc = "hold" => p.state # "free"
             /\ user[t].pc \in {"in", "insert"} /\ ~user[t].late => p.state = "live"
    /\ \A k \in Keys : ht[k] # None => peer[ht[k]].state = "live" /\ peer[ht[k]].key = k

\* "num_peers: Total number of peers currently in ht" (homa_peer.h), and the
\* same for each namespace: the limits of the collector rest on them.  The
\* total misses exactly the insertions that homa_peer_free_net, which counts
\* without the table lock, has overwritten.
PeerCountsExact ==
    /\ exit.pc # "count" => num_peers = Cardinality(InTable) - lost
    /\ \A n \in Nets : net_peers[n] = Cardinality({k \in Keys : Net[k] = n /\ ht[k] # None})

\* homa_peer_pick_victims "keep[s] the best peers for removal": from every
\* scan it returns distinct peers, as many as it may, and it passes over no
\* peer that would have been preferred.
VictimsBest ==
    InTable # {} => \A scan \in Scans :
        LET v == homa_peer_pick_victims(scan)
            able == {p \in Range(scan) : Evictable(p)}
        IN  /\ Cardinality(Range(v)) = Len(v)
            /\ Range(v) \subseteq able
            /\ Len(v) = IF Cardinality(able) < Batch THEN Cardinality(able) ELSE Batch
            /\ \A p \in able \ Range(v), x \in Range(v) : ~homa_peer_prefer_evict(p, x)

\* The peer table, its counters, the references and the collector's choice
\* agree, through lookups, insertions, collections and namespace exits.
PeersConsistent == PeerRefsExact /\ PeerCountsExact /\ VictimsBest
=============================================================================
