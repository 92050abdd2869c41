------------------------------ MODULE HomaGrant ------------------------------
(***************************************************************************)
(* Receiver-driven scheduling of incoming messages (homa_grant.c).  A host *)
(* keeps a few active RPCs, to which it sends grants in SRPT order, and    *)
(* parks the others in per-peer lists of grantable RPCs.  Several cores run *)
(* homa_grant_check_rpc at once: each RPC has its lock, the priority       *)
(* structures have the grant lock, and total_incoming, stalled_rank and    *)
(* msgin.rank are read with neither.                                       *)
(*                                                                         *)
(* A step is one region under the grant lock, or the code between two      *)
(* points where another core could change what this one has read.  Lengths *)
(* and offsets are counted in packets.  RPCs are numbered in the order in  *)
(* which their messages begin, so an RPC's number is also its msgin.birth. *)
(***************************************************************************)
EXTENDS Integers, Sequences, FiniteSets, FiniteSetsExt, SequencesExt

CONSTANTS
    Cores,      \* CPU cores running homa_dispatch_pkts, homa_rpc_end, ...
    Rpcs,       \* a set 1..n of RPCs with an incoming message
    Peers,      \* senders
    Sender,     \* Sender[r]: rpc->peer
    Length,     \* Length[r]: msgin.length
    Unsched,    \* unscheduled packets of every message
    Configs,    \* sysctl settings the host may have been booted with, each
                \* with the number of messages and the events explored under it
    MaxCand,    \* HOMA_MAX_CAND_RPCS
    NoRpc

VARIABLES
    conf,       \* sysctl-settable fields of struct homa_grant
    state,      \* state[r]: "none", "live", "ending" (in homa_rpc_end),
                \* "dead" (on dead_rpcs), "freed"
    msgin,      \* grant-related fields of each RPC's msgin
    silent,     \* silent[r]: rpc->silent_ticks > 1
    refs,       \* refs[r]: rpc->refs taken by the code modelled here
    lock,       \* lock[r]: core that holds the RPC lock, or NoRpc
    grant,      \* fields of struct homa_grant protected by its lock
    total_incoming,
    stalled_rank,
    core        \* core[c]: where core c is and its local variables

vars == <<conf, state, msgin, silent, refs, lock, grant, total_incoming,
          stalled_rank, core>>

\* What the constants must satisfy.
GrantAssumptions ==
    /\ IsFiniteSet(Rpcs) /\ Rpcs = 1..Cardinality(Rpcs)
    /\ Sender \in [Rpcs -> Peers]
    /\ Length \in [Rpcs -> Nat \ {0}]
    /\ Unsched \in Nat \ {0}
    /\ Configs \subseteq [max_overcommit: Nat \ {0}, max_rpcs_per_peer: Nat \ {0},
                          window_param: Nat, max_incoming: Nat,
                          fifo_grant_increment: Nat, messages: Nat,
                          events: SUBSET {"recalc", "fifo", "end", "silent",
                                          "nobuf", "dup"}]
    /\ MaxCand \in Nat \ {0}
    /\ NoRpc \notin Rpcs \cup Cores

\* INT_MAX, the value of stalled_rank and needy_rank when no RPC is waiting:
\* larger than any index of active_rpcs.
INT_MAX == Cardinality(Rpcs) + 1

-----------------------------------------------------------------------------
(* The priority structures.  g is the record of fields under the grant     *)
(* lock, m the msgin of every RPC.                                         *)

ToGrant(m, r) == Length[r] - m[r].granted

\* Fewest ungranted bytes first; the older message on a tie.
homa_grant_outranks(m, r1, r2) ==
    \/ ToGrant(m, r1) < ToGrant(m, r2)
    \/ ToGrant(m, r1) = ToGrant(m, r2) /\ r1 < r2

homa_grant_window(n) ==
    IF conf.window_param # 0 THEN conf.window_param
    ELSE conf.max_incoming \div (n + 1)

\* msgin.rank of the RPCs in slots lo..hi of s, as the shifting loops set it.
Reindex(rank, s, lo, hi) ==
    [q \in Rpcs |-> IF \E k \in lo..hi : s[k] = q
                    THEN (CHOOSE k \in lo..hi : s[k] = q) - 1
                    ELSE rank[q]]

\* r goes into the slot behind slot after; slot out is given up for it, none
\* if that is 0.
InsertSlot(g, r, after, out) ==
    LET loser == IF out = 0 THEN NoRpc ELSE g.active_rpcs[out]
        last == IF out = 0 THEN Len(g.active_rpcs) ELSE out - 1
        new == InsertAt(IF out = 0 THEN g.active_rpcs ELSE RemoveAt(g.active_rpcs, out),
                        after + 1, r)
    IN  [g |-> [g EXCEPT
                  !.active_rpcs = new,
                  !.rank = [q \in Rpcs |->
                       IF q = loser THEN -1
                       ELSE Reindex(@, new, after + 1, last + 1)[q]],
                  !.peer_active = [q \in Peers |->
                       @[q] + (IF q = Sender[r] THEN 1 ELSE 0)
                         - (IF out # 0 /\ q = Sender[loser] THEN 1 ELSE 0)]],
         bumped |-> loser]

\* after is the last slot that r does not outrank.
InsertAfter(g, r, after) ==
    LET s == g.active_rpcs
        mine == {i \in after + 1 .. Len(s) : Sender[s[i]] = Sender[r]}
    IN  IF g.peer_active[Sender[r]] >= conf.max_rpcs_per_peer
        THEN IF mine = {} THEN [g |-> g, bumped |-> r]
             ELSE InsertSlot(g, r, after, Max(mine))
        ELSE IF after >= conf.max_overcommit THEN [g |-> g, bumped |-> r]
             ELSE InsertSlot(g, r, after,
                             IF Len(s) >= conf.max_overcommit THEN Len(s) ELSE 0)

\* Slots are numbered from 1 here and from 0 in active_rpcs and msgin.rank.
\* The result is the new g and the RPC that did not fit (or NoRpc).
homa_grant_insert_active(g, m, r) ==
    InsertAfter(g, r, SelectLastInSeq(g.active_rpcs,
                                      LAMBDA o : ~homa_grant_outranks(m, r, o)))

\* Put peer p, whose list of grantable RPCs has changed, where it belongs in
\* grantable_peers.
homa_grant_adjust_peer(g, m, p) ==
    LET s == g.grantable_peers
        Ahead(p1, p2) == homa_grant_outranks(m, Head(g.grantable_rpcs[p1]),
                                             Head(g.grantable_rpcs[p2]))
        others == SelectSeq(s, LAMBDA q : q # p)
        OrElse(i, j) == IF i = 0 THEN j ELSE i
        New == OrElse(SelectInSeq(others, LAMBDA q : Ahead(p, q)), Len(s) + 1)
        Down(pos) == OrElse(SelectInSubSeq(s, pos + 1, Len(s), LAMBDA q : ~Ahead(q, p)),
                            Len(s) + 1) - 1
        Up(pos, up) == IF up < pos THEN up ELSE Down(pos)
        Slot(pos) == IF pos = 0 THEN New
                     ELSE Up(pos, SelectLastInSubSeq(s, 1, pos - 1,
                                                     LAMBDA q : ~Ahead(p, q)) + 1)
    IN  [g EXCEPT !.grantable_peers =
            IF g.grantable_rpcs[p] = <<>> THEN others
            ELSE InsertAt(others, Slot(SelectInSeq(s, LAMBDA q : q = p)), p)]

homa_grant_insert_grantable(g, m, r) ==
    LET p == Sender[r]
        list == g.grantable_rpcs[p]
        first == SelectInSeq(list, LAMBDA o : homa_grant_outranks(m, r, o))
        slot == IF first = 0 THEN Len(list) + 1 ELSE first
    IN  homa_grant_adjust_peer(
            [g EXCEPT !.grantable_rpcs[p] = InsertAt(list, slot, r)], m, p)

homa_grant_remove_grantable(g, m, r) ==
    LET p == Sender[r]
        list == g.grantable_rpcs[p]
        g1 == [g EXCEPT !.grantable_rpcs[p] = Remove(list, r)]
    IN  IF Head(list) = r THEN homa_grant_adjust_peer(g1, m, p) ELSE g1

ParkBumped(res, m) ==
    IF res.bumped = NoRpc THEN res.g
    ELSE homa_grant_insert_grantable(res.g, m, res.bumped)

InsertOrPark(g, m, r) == ParkBumped(homa_grant_insert_active(g, m, r), m)

\* n more RPCs are managed.
Recount(g, n) ==
    [g EXCEPT !.num_grantable_rpcs = @ + n,
              !.window = homa_grant_window(Len(g.active_rpcs))]

homa_grant_manage_rpc(g, m, r) == Recount(InsertOrPark(g, m, r), 1)

\* Mutant: off by one in the limit of active RPCs per peer.
HasSlotOffByOne(g, p) == g.peer_active[p] < conf.max_rpcs_per_peer - 1

HasSlot(g, p) == g.peer_active[p] < conf.max_rpcs_per_peer

\* Take r out of active_rpcs.
Deactivate(g, r) ==
    LET s == RemoveAt(g.active_rpcs, g.rank[r] + 1)
    IN  [g EXCEPT !.active_rpcs = s,
                  !.rank = [Reindex(@, s, @[r] + 1, Len(s)) EXCEPT ![r] = -1],
                  !.peer_active[Sender[r]] = @ - 1]

\* Append r, which has just left the list of its peer, to active_rpcs.
Activate(g, r) ==
    [g |-> [g EXCEPT !.active_rpcs = Append(@, r),
                     !.rank[r] = Len(g.active_rpcs),
                     !.peer_active[Sender[r]] = @ + 1],
     promoted |-> <<r>>]

\* Promote the best RPC of the i-th peer; none if i is 0.
PromoteFrom(g, m, i) ==
    LET other == Head(g.grantable_rpcs[g.grantable_peers[i]])
    IN  IF i = 0 THEN [g |-> g, promoted |-> <<>>]
        ELSE Activate(homa_grant_remove_grantable(g, m, other), other)

\* Promote the best grantable RPC whose peer has an active slot left.
PromoteBest(g, m) ==
    PromoteFrom(g, m, SelectInSeq(g.grantable_peers, LAMBDA q : HasSlot(g, q)))

\* The promoted RPC becomes a candidate for a grant.
homa_grant_remove_active(g, m, r) == PromoteBest(Deactivate(g, r), m)

IsGrantable(g, r) == Contains(g.grantable_rpcs[Sender[r]], r)

\* r leaves the list of its peer if it is there; active: it was active.
Unpark(g, m, r, active) ==
    IF IsGrantable(g, r) THEN Recount(homa_grant_remove_grantable(g, m, r), -1)
    ELSE IF active THEN Recount(g, -1) ELSE g

\* old is g before r was taken out of active_rpcs.
Unmanaged(old, res, m, r) ==
    [g |-> [Unpark(res.g, m, r, old.rank[r] >= 0) EXCEPT
               !.oldest_rpc = IF @ = r THEN NoRpc ELSE @],
     promoted |-> res.promoted,
     put |-> IF old.oldest_rpc = r THEN {r} ELSE {}]

\* The result says which RPC lost grant->oldest_rpc's reference, if any.
homa_grant_unmanage_rpc(g, m, r) ==
    Unmanaged(g, IF g.rank[r] >= 0 THEN homa_grant_remove_active(g, m, r)
                 ELSE [g |-> g, promoted |-> <<>>], m, r)

\* active_rpcs sorted by priority, and the best rank that improved.
homa_grant_fix_order(g, m) ==
    LET s == g.active_rpcs
        new == SetToSortSeq(ToSet(s), LAMBDA a, b : homa_grant_outranks(m, a, b))
        moved == {i \in 1..Len(s) : new[i] # s[i]}
    IN  IF moved = {} THEN [g |-> g, improved |-> INT_MAX]
        ELSE [g |-> [g EXCEPT !.active_rpcs = new,
                              !.rank = Reindex(g.rank, new, Min(moved), Len(s))],
              improved |-> Min(moved) - 1]

Unresponsive(g, m, r) ==
    m[r].rec_incoming >= g.window + 2 * conf.fifo_grant_increment

\* The oldest message that responds to its grants; the RPC of rank 0 is left
\* out because it gets grants anyway.
homa_grant_find_oldest(g, m) ==
    LET parked == UNION {ToSet(g.grantable_rpcs[p]) : p \in ToSet(g.grantable_peers)}
        active == {g.active_rpcs[i] : i \in 2..Len(g.active_rpcs)}
        able == {r \in parked \cup active : ~Unresponsive(g, m, r)}
    IN  IF able = {} THEN NoRpc ELSE Min(able)

\* Priority of r increased while it may be parked.  Neither num_grantable_rpcs
\* nor the window is recomputed.
homa_grant_promote_rpc(g, m, r) ==
    LET p == Sender[r]
        s == g.active_rpcs
        list == g.grantable_rpcs[p]
        pos == SelectInSeq(list, LAMBDA o : o = r)
        up == SelectLastInSubSeq(list, 1, pos - 1,
                  LAMBDA o : ~homa_grant_outranks(m, r, o)) + 1
        g1 == [g EXCEPT !.grantable_rpcs[p] = InsertAt(Remove(list, r), up, r)]
    IN  IF g.rank[r] >= 0 THEN g
        ELSE IF \/ Len(s) < conf.max_overcommit
                \/ homa_grant_outranks(m, r, Last(s))
             THEN InsertOrPark(homa_grant_remove_grantable(g, m, r), m, r)
        ELSE IF up = 1 THEN homa_grant_adjust_peer(g1, m, p) ELSE g1

-----------------------------------------------------------------------------
(* One RPC's account of granted but unreceived data.                       *)

Incoming(m, r) == Max({m[r].granted - m[r].received, 0})

\* msgin.rec_incoming and total_incoming after homa_grant_update_incoming.
homa_grant_update_incoming(m, r) ==
    /\ msgin' = [m EXCEPT ![r].rec_incoming = Incoming(m, r)]
    /\ total_incoming' = total_incoming + Incoming(m, r) - msgin[r].rec_incoming

\* Offset that r's window allows.
WindowEnd(r) == Min({msgin[r].received + grant.window, Length[r]})

Headroom == conf.max_incoming - total_incoming

\* Mutant: a grant is sent even if the offset does not advance.
AdvanceAlways(r, off) == off

\* -1 unless the offset advances.
Advance(r, off) == IF off <= msgin[r].granted THEN -1 ELSE off

\* What homa_grant_update_granted computes for r from the shared state it
\* reads without the grant lock: the new grant offset, or -1 if no grant is to
\* be sent, and the new value of stalled_rank.
homa_grant_update_granted(r) ==
    LET rank == grant.rank[r]
        want == WindowEnd(r)
        delta == want - msgin[r].received - msgin[r].rec_incoming
        avail == Headroom
        off == IF avail < delta THEN want - (delta - avail) ELSE want
    IN  IF silent[r] \/ rank < 0 \/ msgin[r].granted >= Length[r]
        THEN [off |-> -1, stalled |-> stalled_rank]
        ELSE [off |-> Advance(r, off),
              stalled |-> IF avail < delta THEN Min({stalled_rank, rank})
                          ELSE stalled_rank]

\* Mutant: a promoted or waiting RPC does not become a candidate.
CandAddNothing(cand, s) == cand

\* Append to a candidate list while it has room.
homa_grant_cand_add(cand, s) ==
    cand \o SubSeq(s, 1, Min({Len(s), MaxCand - Len(cand)}))

-----------------------------------------------------------------------------
(* Steps of a core.                                                        *)

Idle == [pc |-> "idle", rpc |-> NoRpc, cur |-> NoRpc, needy |-> INT_MAX,
         off |-> 0, cand |-> <<>>, after |-> "idle"]

Goto(c, pc) == core' = [core EXCEPT ![c].pc = pc]

At(c, pc) == core[c].pc = pc

Count(s, r) == Cardinality({i \in 1..Len(s) : s[i] = r})

\* refs after taking a reference on each element of the sequence held and
\* dropping those on the set put.
Refs(held, put) ==
    refs' = [r \in Rpcs |-> refs[r] + Count(held, r) - (IF r \in put THEN 1 ELSE 0)]

Init ==
    /\ conf \in Configs
    /\ state = [r \in Rpcs |-> "none"]
    /\ msgin = [r \in Rpcs |-> [granted |-> 0, prev_grant |-> 0, received |-> 0,
                                rec_incoming |-> 0, buf |-> FALSE]]
    /\ silent = [r \in Rpcs |-> FALSE]
    /\ refs = [r \in Rpcs |-> 0]
    /\ lock = [r \in Rpcs |-> NoRpc]
    /\ grant = [active_rpcs |-> <<>>, rank |-> [r \in Rpcs |-> -1],
                peer_active |-> [p \in Peers |-> 0],
                grantable_rpcs |-> [p \in Peers |-> <<>>],
                grantable_peers |-> <<>>, num_grantable_rpcs |-> 0,
                window |-> homa_grant_window(0), oldest_rpc |-> NoRpc]
    /\ total_incoming = 0
    /\ stalled_rank = INT_MAX
    /\ core = [c \in Cores |-> Idle]

\* The first packet of r's message: homa_message_in_init, homa_grant_init_rpc
\* and, when buffer space was found, the first call of homa_grant_check_rpc.
homa_grant_init_rpc(c, r, buf) ==
    LET unsched == Min({Unsched, Length[r]})
        m == [msgin EXCEPT ![r] = [granted |-> unsched, prev_grant |-> unsched,
                                   received |-> IF buf THEN 1 ELSE 0,
                                   rec_incoming |-> 0, buf |-> buf]]
    IN  /\ At(c, "idle")
        /\ state[r] = "none" /\ \A q \in Rpcs : q < r => state[q] # "none"
        /\ r <= conf.messages
        /\ state' = [state EXCEPT ![r] = "live"]
        /\ IF buf
           THEN /\ grant' = IF unsched < Length[r]
                            THEN homa_grant_manage_rpc(grant, m, r) ELSE grant
                /\ homa_grant_update_incoming(m, r)
                /\ lock' = [lock EXCEPT ![r] = c]
                /\ refs' = [refs EXCEPT ![r] = @ + 1]
                /\ core' = [core EXCEPT ![c] = [Idle EXCEPT !.pc = "order", !.rpc = r]]
           ELSE msgin' = m /\ UNCHANGED <<grant, total_incoming, lock, refs, core>>
        /\ UNCHANGED <<conf, silent, stalled_rank>>

\* homa_dispatch_pkts for a DATA packet, new or a duplicate, of a message with
\* buffer space, up to the first half of homa_grant_check_rpc.
DataPacket(c, r, new) ==
    LET m == IF new THEN [msgin EXCEPT ![r].received = @ + 1] ELSE msgin
    IN  /\ At(c, "idle")
        /\ state[r] = "live" /\ msgin[r].buf /\ lock[r] = NoRpc
        /\ new => msgin[r].received < msgin[r].prev_grant
        /\ silent' = [silent EXCEPT ![r] = FALSE]
        /\ homa_grant_update_incoming(m, r)
        /\ lock' = [lock EXCEPT ![r] = c]
        /\ refs' = [refs EXCEPT ![r] = @ + 1]
        /\ core' = [core EXCEPT ![c] = [Idle EXCEPT !.pc = "order", !.rpc = r]]
        /\ UNCHANGED <<conf, state, grant, stalled_rank>>

\* Situation 2 of homa_grant_check_rpc, if it is time, and the choice of the
\* fast path from the ranks read without the grant lock.
CheckOrder(c, recalc) ==
    LET res == IF recalc THEN homa_grant_fix_order(grant, msgin)
               ELSE [g |-> grant, improved |-> INT_MAX]
        needy == Min({res.improved, stalled_rank})
        rank == res.g.rank[core[c].rpc]
        fast == rank >= 0 /\ rank <= needy
    IN  /\ At(c, "order")
        /\ grant' = res.g
        /\ core' = [core EXCEPT ![c].needy = needy,
                                ![c].cur = IF fast THEN core[c].rpc ELSE NoRpc,
                                ![c].pc = IF fast THEN "grant" ELSE "needy"]
        /\ UNCHANGED <<conf, state, msgin, silent, refs, lock, total_incoming,
                       stalled_rank>>

\* Fast path: homa_grant_update_granted up to the new offset.
FastOffset(c) ==
    LET res == homa_grant_update_granted(core[c].cur)
    IN  /\ At(c, "grant")
        /\ stalled_rank' = res.stalled
        /\ core' = [core EXCEPT ![c].off = res.off,
                                ![c].pc = IF res.off < 0 THEN "needy" ELSE "write",
                                ![c].cur = IF res.off < 0 THEN NoRpc ELSE @,
                                ![c].after = "fifo"]
        /\ UNCHANGED <<conf, state, msgin, silent, refs, lock, grant,
                       total_incoming>>

\* What is done with r's new grants (m) and with the grant structures (res).
Granted(c, to, m, res, cand) ==
    /\ homa_grant_update_incoming(m, core[c].cur)
    /\ grant' = res.g
    /\ Refs(SubSeq(cand, Len(core[c].cand) + 1, Len(cand)), res.put)
    /\ lock' = [lock EXCEPT ![core[c].cur] = NoRpc]
    /\ core' = [core EXCEPT ![c].cand = cand, ![c].pc = to]

NewlyGranted(c, to, m, res) ==
    Granted(c, to, m, res, homa_grant_cand_add(core[c].cand, res.promoted))

\* homa_grant_unmanage_rpc is called if go.
UnmanageIf(go, m, r) ==
    IF go THEN homa_grant_unmanage_rpc(grant, m, r)
    ELSE [g |-> grant, promoted |-> <<>>, put |-> {}]

\* Set msgin.granted, account for it, stop managing an RPC that needs no more
\* grants, and release its lock.  The same code is in homa_grant_check_rpc
\* ("write") and in homa_grant_cand_check ("cwrite").
WriteGranted(c, from, to) ==
    LET r == core[c].cur
        m == [msgin EXCEPT ![r].granted = core[c].off]
    IN  /\ At(c, from)
        /\ NewlyGranted(c, to, m, UnmanageIf(core[c].off >= Length[r], m, r))
        /\ UNCHANGED <<conf, state, silent, stalled_rank>>

\* homa_grant_send: the GRANT packet carries msgin.granted as it is now; then
\* the reference of a candidate or of a FIFO grant is dropped.
homa_grant_send(c, from, put) ==
    LET r == core[c].cur
    IN  /\ At(c, from)
        /\ msgin' = [msgin EXCEPT ![r].prev_grant = msgin[r].granted]
        /\ Refs(<<>>, IF put THEN {r} ELSE {})
        /\ core' = [core EXCEPT ![c].pc = "cand", ![c].cur = NoRpc, ![c].off = 0]
        /\ UNCHANGED <<conf, state, silent, lock, grant, total_incoming,
                       stalled_rank>>

\* One iteration of homa_grant_cand_check up to the new offset, or its end.
homa_grant_cand_check(c) ==
    LET r == Head(core[c].cand)
        res == homa_grant_update_granted(r)
        go == state[r] = "live" /\ res.off >= 0
    IN  /\ At(c, "cand")
        /\ IF core[c].cand = <<>>
           THEN Goto(c, core[c].after) /\ UNCHANGED <<lock, refs, stalled_rank>>
           ELSE /\ lock[r] = NoRpc
                /\ stalled_rank' = IF state[r] = "live" THEN res.stalled
                                   ELSE stalled_rank
                /\ lock' = [lock EXCEPT ![r] = IF go THEN c ELSE NoRpc]
                /\ Refs(<<>>, IF go THEN {} ELSE {r})
                /\ core' = [core EXCEPT ![c].cand = Tail(@),
                                        ![c].cur = IF go THEN r ELSE NoRpc,
                                        ![c].off = IF go THEN res.off ELSE 0,
                                        ![c].pc = IF go THEN "cwrite" ELSE "cand"]
        /\ UNCHANGED <<conf, state, msgin, silent, grant, total_incoming>>

\* homa_grant_check_fifo until it has chosen the oldest RPC.  due: the FIFO
\* interval has expired.
ChooseFifo(c, due) ==
    LET old == grant.oldest_rpc
        keep == old # NoRpc /\ ~Unresponsive(grant, msgin, old)
        r == IF keep THEN old ELSE homa_grant_find_oldest(grant, msgin)
    IN  /\ At(c, "fifo")
        /\ IF ~due \/ conf.fifo_grant_increment = 0
           THEN Goto(c, "needy") /\ UNCHANGED <<refs, grant>>
           ELSE /\ grant' = [grant EXCEPT !.oldest_rpc = r]
                /\ Refs((IF keep THEN <<>> ELSE <<r>>) \o <<r>>,
                        IF keep THEN {} ELSE {old})
                /\ core' = [core EXCEPT ![c].cur = r,
                                        ![c].pc = IF r = NoRpc THEN "needy" ELSE "flock"]
        /\ UNCHANGED <<conf, state, msgin, silent, lock, total_incoming,
                       stalled_rank>>

\* The oldest RPC has been granted more (m), with the effect res.
FifoGranted(c, m, res) ==
    /\ grant' = res.g
    /\ homa_grant_update_incoming(m, core[c].cur)
    /\ Refs(res.promoted, res.put)
    /\ core' = [core EXCEPT ![c].pc = "fsend", ![c].cand = res.promoted,
                            ![c].after = "needy"]

\* homa_grant_check_fifo from homa_rpc_lock to homa_rpc_unlock.
GrantFifo(c) ==
    LET r == core[c].cur
        m == [msgin EXCEPT ![r].granted =
                 Min({@ + conf.fifo_grant_increment, Length[r]})]
    IN  /\ At(c, "flock") /\ lock[r] = NoRpc
        /\ IF state[r] = "live"
           THEN FifoGranted(c, m,
                    IF m[r].granted >= Length[r] THEN homa_grant_unmanage_rpc(grant, m, r)
                    ELSE [g |-> homa_grant_promote_rpc(grant, m, r),
                          promoted |-> <<>>, put |-> {}])
           ELSE /\ Refs(<<>>, {r})
                /\ core' = [core EXCEPT ![c].pc = "needy", ![c].cur = NoRpc]
                /\ UNCHANGED <<grant, msgin, total_incoming>>
        /\ UNCHANGED <<conf, state, silent, lock, stalled_rank>>

\* End of homa_grant_check_rpc and of homa_dispatch_pkts.
Done(c) ==
    /\ Refs(<<>>, {core[c].rpc})
    /\ lock' = [lock EXCEPT ![core[c].rpc] = NoRpc]
    /\ core' = [core EXCEPT ![c] = Idle]

\* Reacquire the RPC lock if the fast path released it, then look for waiting
\* RPCs if there is headroom: situations 1 and 2 of homa_grant_check_rpc.
CheckNeedy(c) ==
    LET r == core[c].rpc
    IN  /\ At(c, "needy") /\ lock[r] \in {NoRpc, c}
        /\ IF core[c].needy < INT_MAX /\ total_incoming < conf.max_incoming
           THEN /\ stalled_rank' = INT_MAX
                /\ lock' = [lock EXCEPT ![r] = c]
                /\ core' = [core EXCEPT ![c].needy = Min({@, stalled_rank}),
                                        ![c].pc = "scan"]
                /\ UNCHANGED refs
           ELSE Done(c) /\ UNCHANGED stalled_rank
        /\ UNCHANGED <<conf, state, msgin, silent, grant, total_incoming>>

ScanNeedy(c) ==
    LET s == grant.active_rpcs
        waiting == SelectSeq(SubSeq(s, core[c].needy + 1, Len(s)),
            LAMBDA q : msgin[q].rec_incoming < grant.window /\ state[q] = "live")
        cand == homa_grant_cand_add(<<>>, waiting)
    IN  /\ At(c, "scan")
        /\ IF cand = <<>> THEN Done(c)
           ELSE /\ Refs(cand, {})
                /\ lock' = [lock EXCEPT ![core[c].rpc] = NoRpc]
                /\ core' = [core EXCEPT ![c].pc = "cand", ![c].cand = cand,
                                        ![c].after = "finish"]
        /\ UNCHANGED <<conf, state, msgin, silent, grant, total_incoming,
                       stalled_rank>>

Finish(c) ==
    /\ At(c, "finish") /\ lock[core[c].rpc] = NoRpc
    /\ Done(c)
    /\ UNCHANGED <<conf, state, msgin, silent, grant, total_incoming, stalled_rank>>

\* Mutant: the data a dead RPC still expected stays in total_incoming.
EndedKeepsIncoming(r) ==
    /\ state' = [state EXCEPT ![r] = "dead"]
    /\ msgin' = [msgin EXCEPT ![r].rec_incoming = 0]
    /\ UNCHANGED total_incoming

\* The RPC is on dead_rpcs and no longer counts in total_incoming.
Ended(r) ==
    /\ state' = [state EXCEPT ![r] = "dead"]
    /\ total_incoming' = total_incoming - msgin[r].rec_incoming
    /\ msgin' = [msgin EXCEPT ![r].rec_incoming = 0]

\* r is no longer managed, with the effect res.  Without candidates the lock
\* is not released.
Unmanage(c, r, res) ==
    /\ grant' = res.g
    /\ Refs(res.promoted, res.put)
    /\ IF res.promoted = <<>>
       THEN Ended(r) /\ UNCHANGED core
       ELSE /\ state' = [state EXCEPT ![r] = "ending"]
            /\ core' = [core EXCEPT ![c] = [Idle EXCEPT !.pc = "cand", !.rpc = r,
                           !.cand = res.promoted, !.after = "ended"]]
            /\ UNCHANGED <<msgin, total_incoming>>

\* homa_rpc_end up to the call of homa_grant_cand_check in homa_grant_end_rpc.
homa_grant_end_rpc(c, r) ==
    /\ At(c, "idle") /\ state[r] = "live" /\ lock[r] = NoRpc
    /\ Unmanage(c, r, UnmanageIf(msgin[r].granted < Length[r], msgin, r))
    /\ UNCHANGED <<conf, silent, lock, stalled_rank>>

\* homa_grant_end_rpc after it has reacquired the RPC lock.
FinishEnd(c) ==
    /\ At(c, "ended") /\ lock[core[c].rpc] = NoRpc
    /\ Ended(core[c].rpc)
    /\ core' = [core EXCEPT ![c] = Idle]
    /\ UNCHANGED <<conf, silent, refs, lock, grant, stalled_rank>>

\* homa_pool_check_waiting has found buffer space for r and asks the sender to
\* resend the packets that were dropped.
BuffersFound(r) ==
    LET m == [msgin EXCEPT ![r].buf = TRUE]
    IN  /\ state[r] = "live" /\ ~msgin[r].buf /\ lock[r] = NoRpc
        /\ msgin' = m
        /\ grant' = IF msgin[r].granted < Length[r]
                    THEN homa_grant_manage_rpc(grant, m, r) ELSE grant
        /\ UNCHANGED <<conf, state, silent, refs, lock, total_incoming,
                       stalled_rank, core>>

\* Two timer ticks without a packet for an RPC that expects one.
GoSilent(r) ==
    /\ state[r] = "live" /\ msgin[r].buf /\ lock[r] = NoRpc
    /\ msgin[r].received < msgin[r].granted
    /\ silent' = [silent EXCEPT ![r] = TRUE]
    /\ UNCHANGED <<conf, state, msgin, refs, lock, grant, total_incoming,
                   stalled_rank, core>>

homa_rpc_reap(r) ==
    /\ state[r] = "dead" /\ refs[r] = 0 /\ lock[r] = NoRpc
    /\ state' = [state EXCEPT ![r] = "freed"]
    /\ UNCHANGED <<conf, msgin, silent, refs, lock, grant, total_incoming,
                   stalled_rank, core>>

\* What a core does once it has begun, until it is idle again.
CoreStep(c) ==
    \/ CheckOrder(c, FALSE)
    \/ "recalc" \in conf.events /\ CheckOrder(c, TRUE)
    \/ FastOffset(c)
    \/ WriteGranted(c, "write", "send")
    \/ WriteGranted(c, "cwrite", "csend")
    \/ homa_grant_send(c, "send", FALSE)
    \/ homa_grant_send(c, "csend", TRUE)
    \/ homa_grant_send(c, "fsend", TRUE)
    \/ homa_grant_cand_check(c)
    \/ ChooseFifo(c, FALSE)
    \/ "fifo" \in conf.events /\ ChooseFifo(c, TRUE)
    \/ GrantFifo(c)
    \/ CheckNeedy(c)
    \/ ScanNeedy(c)
    \/ Finish(c)
    \/ FinishEnd(c)

Next ==
    \/ \E c \in Cores : CoreStep(c)
    \/ \E c \in Cores, r \in Rpcs :
          \/ homa_grant_init_rpc(c, r, TRUE)
          \/ "nobuf" \in conf.events /\ homa_grant_init_rpc(c, r, FALSE)
          \/ DataPacket(c, r, TRUE)
          \/ "dup" \in conf.events /\ DataPacket(c, r, FALSE)
          \/ "end" \in conf.events /\ homa_grant_end_rpc(c, r)
    \/ \E r \in Rpcs :
          \/ BuffersFound(r)
          \/ "silent" \in conf.events /\ GoSilent(r)
          \/ homa_rpc_reap(r)

Spec == Init /\ [][Next]_vars

\* A core finishes what it has begun, and data that a sender may send arrives
\* in the end, retransmitted if need be.
FairSpec ==
    /\ Spec
    /\ \A c \in Cores : WF_vars(CoreStep(c))
    /\ \A r \in Rpcs : WF_vars(\E c \in Cores : DataPacket(c, r, TRUE))

-----------------------------------------------------------------------------
(* Properties.                                                             *)

Active == ToSet(grant.active_rpcs)
Parked(p) == ToSet(grant.grantable_rpcs[p])
AllParked == UNION {Parked(p) : p \in Peers}

GrantTypeOK ==
    /\ conf \in Configs
    /\ state \in [Rpcs -> {"none", "live", "ending", "dead", "freed"}]
    /\ msgin \in [Rpcs -> [granted: Nat, prev_grant: Nat, received: Nat,
                           rec_incoming: Nat, buf: BOOLEAN]]
    /\ silent \in [Rpcs -> BOOLEAN]
    /\ refs \in [Rpcs -> Nat]
    /\ lock \in [Rpcs -> Cores \cup {NoRpc}]
    /\ total_incoming \in Int
    /\ stalled_rank \in 0..INT_MAX
    /\ \A r \in Rpcs : msgin[r].granted <= Length[r]

\* homa_grant_insert_active, homa_grant_remove_active, homa_grant_fix_order
\* and the list operations keep one consistent picture: msgin.rank is the
\* RPC's slot in active_rpcs, an RPC is active or parked but never both, a
\* parked RPC is in its own peer's list, grantable_peers holds exactly the
\* peers with parked RPCs, and the three counters count.
ListsExact ==
    LET g == grant
    IN  /\ \A r \in Rpcs : g.rank[r] =
              IF r \in Active THEN SelectInSeq(g.active_rpcs, LAMBDA o : o = r) - 1
              ELSE -1
        /\ Len(g.active_rpcs) = Cardinality(Active)
        /\ Len(g.active_rpcs) <= conf.max_overcommit
        /\ \A p \in Peers :
              /\ g.peer_active[p] = Cardinality({r \in Active : Sender[r] = p})
              /\ g.peer_active[p] <= conf.max_rpcs_per_peer
              /\ Len(g.grantable_rpcs[p]) = Cardinality(Parked(p))
              /\ \A r \in Parked(p) : Sender[r] = p /\ r \notin Active
        /\ ToSet(g.grantable_peers) = {p \in Peers : Parked(p) # {}}
        /\ Len(g.grantable_peers) = Cardinality(ToSet(g.grantable_peers))
        /\ g.num_grantable_rpcs = Cardinality(Active \cup AllParked)

\* An RPC is in the priority structures exactly while it is alive, has buffer
\* space and has bytes left to grant: nothing that needs grants is dropped
\* and no dead or fully granted RPC stays.
ManagedExact ==
    \A r \in Rpcs : (r \in Active \cup AllParked) <=>
        state[r] = "live" /\ msgin[r].buf /\ msgin[r].granted < Length[r]

\* An active slot is left empty only if every peer with parked RPCs already
\* has its share of slots, although homa_grant_remove_active promotes at most
\* one RPC and homa_grant_promote_rpc moves RPCs in and out.
WorkConserving ==
    Len(grant.active_rpcs) < conf.max_overcommit =>
        \A p \in Peers : Parked(p) # {} =>
            grant.peer_active[p] >= conf.max_rpcs_per_peer

\* grant->window always fits the number of active RPCs, although
\* homa_grant_promote_rpc changes active_rpcs without recomputing it.
WindowFresh == grant.window = homa_grant_window(Len(grant.active_rpcs))

\* total_incoming, updated by atomic additions under different RPC locks, is
\* the sum of what the RPCs have recorded in rec_incoming.
IncomingExact ==
    total_incoming = MapThenSumSet(LAMBDA r : msgin[r].rec_incoming, Rpcs)

\* Unscheduled packets of r still to come.
UnschedDue(r) ==
    IF state[r] = "live" THEN Max({0, Min({Unsched, Length[r]}) - msgin[r].received})
    ELSE 0

\* Without FIFO grants, max_incoming is exceeded only by unscheduled packets
\* and by the grants of cores that read total_incoming at the same time: at
\* most one window for each core beyond the first.  The count itself is exact.
IncomingBound ==
    IncomingExact /\ (conf.fifo_grant_increment = 0 =>
        LET window == IF conf.window_param # 0 THEN conf.window_param
                      ELSE conf.max_incoming
        IN  total_incoming <= conf.max_incoming
                + (Cardinality(Cores) - 1) * window
                + MapThenSumSet(UnschedDue, Rpcs))

\* References of r held by code of this module: cores in homa_dispatch_pkts
\* and homa_grant_check_rpc, candidate lists, and grant->oldest_rpc.
Holders(r) ==
    MapThenSumSet(
        LAMBDA c : (IF core[c].rpc = r /\ core[c].after # "ended" THEN 1 ELSE 0)
                   + Count(core[c].cand, r)
                   + (IF core[c].cur = r /\ core[c].pc \in {"cwrite", "csend",
                         "flock", "fsend"} THEN 1 ELSE 0),
        Cores)
    + (IF grant.oldest_rpc = r THEN 1 ELSE 0)

\* Every homa_rpc_hold of the grant code is matched by one homa_rpc_put: the
\* reference count is the number of cores, candidate lists and oldest_rpc
\* that still point to the RPC, so a dead RPC can always be reaped in the end
\* and none is freed while the grant code can reach it.
GrantRefsExact ==
    \A r \in Rpcs :
        /\ refs[r] = Holders(r)
        /\ state[r] = "freed" => /\ r \notin Active \cup AllParked
                                 /\ \A c \in Cores : core[c].rpc # r

\* The picture that the grant code has of the messages is consistent after
\* every step of every core: lists, ranks, counters, slots, window, references.
GrantStateExact ==
    /\ GrantTypeOK /\ ListsExact /\ ManagedExact
    /\ WorkConserving /\ WindowFresh /\ GrantRefsExact

\* msgin.granted and the offset of the last GRANT never go back, whichever
\* core writes or sends last.
GrantsGrow ==
    \A r \in Rpcs : state[r] = "live" =>
        /\ msgin'[r].granted >= msgin[r].granted
        /\ msgin'[r].prev_grant >= msgin[r].prev_grant

GrantsAdvance == [][GrantsGrow]_vars

\* Every window fits into max_incoming at the same time, so no grant is ever
\* held back for lack of headroom.
Ample ==
    /\ conf.window_param * conf.max_overcommit + Cardinality(Rpcs) * Unsched
          <= conf.max_incoming
    /\ conf.window_param # 0 /\ conf.fifo_grant_increment = 0

InFlight(r) == state[r] = "live" /\ msgin[r].received < msgin[r].prev_grant

Quiet == /\ \A c \in Cores : core[c] = Idle
         /\ \A r \in Rpcs : ~InFlight(r)

\* When every window fits into max_incoming, no RPC is forgotten: once the
\* cores are idle and all granted data has arrived, every message with buffer
\* space is fully granted.  Nothing would ever wake an RPC left behind: the
\* timer expects no packet for it.
NoneForgotten == Ample /\ Quiet => Active \cup AllParked = {}

\* A managed RPC is sent grants until its message is fully granted (or it
\* ends), whatever the headroom: "Ensures that the RPC will be sent grants as
\* needed" (homa_grant_manage_rpc).
GrantedInTheEnd ==
    \A r \in Rpcs : r \in Active \cup AllParked ~> r \notin Active \cup AllParked
=============================================================================
