------------------------------ MODULE HomaPrio ------------------------------
(***************************************************************************)
(* Priorities of unscheduled packets.  A receiver chooses cutoffs for its  *)
(* incoming messages (homa_prios_changed) and tells its senders in CUTOFFS *)
(* packets, which can be lost or delayed; every data packet carries the    *)
(* version of the cutoffs that its sender has (homa_data_pkt,              *)
(* homa_cutoffs_pkt, homa_unsched_priority).                               *)
(*                                                                         *)
(* homa_dointvec changes the cutoffs and then the version, homa_data_pkt   *)
(* reads the cutoffs one by one and then the version, and no lock is held  *)
(* by both: each of these accesses is a step.  One administrator writes    *)
(* and one core answers with CUTOFFS packets at a time.                    *)
(***************************************************************************)
EXTENDS Integers, FiniteSets

CONSTANTS
    MaxPriorities,  \* HOMA_MAX_PRIORITIES
    MaxLength,      \* HOMA_MAX_MESSAGE_LENGTH
    IntMax,         \* INT_MAX
    Cutoff,         \* values that an administrator writes to a cutoff
    NumPriorities,  \* values for num_priorities, of the sender
    Modulus,        \* 2^16, the range of cutoff_version in a packet
    MaxData,        \* bound on versions in data packets that are under way
    MaxChanges,     \* bound on changes of the cutoffs
    MaxLosses       \* bound on lost packets

VARIABLES
    rcvr,           \* receiver: unsched_cutoffs, num_priorities, cutoff_version
    admin,          \* homa_dointvec: "idle", "written" (by proc_dointvec) or
                    \* "adjusted" (by homa_prios_changed)
    reader,         \* homa_data_pkt: the CUTOFFS packet it puts together, and
                    \* the version when it began
    peer,           \* the sender's homa_peer, and whether the version changed
                    \* while the CUTOFFS packet it has was made
    cutoffs_pkts,   \* CUTOFFS packets in the network
    data_pkt,       \* versions that data packets in the network carry
    updated,        \* whether last_update_jiffies is the current time
    losses          \* packets that may still be lost

prioVars == <<rcvr, admin, reader, peer, cutoffs_pkts, data_pkt, updated, losses>>

Levels == 0 .. MaxPriorities - 1

\* Levels that are not in use get cutoff 0, and level 0 takes what is left.
Unused(c, n) == [i \in Levels |-> IF i = 0 THEN IntMax ELSE IF i >= n THEN 0 ELSE c[i]]

\* The highest level for scheduled packets.
MaxSchedPrio(c, n) ==
    LET all == {i \in 1 .. n - 1 : c[i] >= MaxLength}
    IN  IF all = {} THEN 0 ELSE (CHOOSE i \in all : \A j \in all : i >= j) - 1

\* homa_prios_changed, without its last line.
Adjusted(c, num, version) ==
    LET n == IF num > MaxPriorities THEN MaxPriorities ELSE num
    IN  [num_priorities |-> n, cutoffs |-> Unused(c, n), cutoff_version |-> version,
         max_sched_prio |-> MaxSchedPrio(Unused(c, n), n)]

\* homa_init, and the cutoffs of a new peer (homa_peer_alloc).
InitialCutoffs ==
    [i \in Levels |-> IF i = MaxPriorities - 1 THEN 1
                      ELSE IF i = MaxPriorities - 2 THEN MaxLength ELSE 0]
NewPeer ==
    [i \in Levels |-> IF i = MaxPriorities - 2 THEN IntMax ELSE 0]

NotReading == [on |-> FALSE, i |-> 0, cutoffs |-> [i \in Levels |-> 0], from |-> 0]

Init ==
    /\ rcvr = [num_priorities |-> MaxPriorities, cutoffs |-> InitialCutoffs,
               cutoff_version |-> 1, max_sched_prio |-> MaxPriorities - 3]
    /\ admin = "idle" /\ reader = NotReading
    /\ peer = [cutoffs |-> NewPeer, version |-> 0, torn |-> FALSE]
    /\ cutoffs_pkts = {} /\ data_pkt = {}
    /\ updated = FALSE
    /\ losses = MaxLosses

\* homa_dointvec: proc_dointvec writes unsched_cutoffs or num_priorities.
WriteCutoff(i, c) ==
    /\ admin = "idle" /\ rcvr.cutoff_version <= MaxChanges
    /\ rcvr' = [rcvr EXCEPT !.cutoffs[i] = c]
    /\ admin' = "written"
    /\ UNCHANGED <<reader, peer, cutoffs_pkts, data_pkt, updated, losses>>

WriteNum(n) ==
    /\ admin = "idle" /\ rcvr.cutoff_version <= MaxChanges
    /\ rcvr' = [rcvr EXCEPT !.num_priorities = n]
    /\ admin' = "written"
    /\ UNCHANGED <<reader, peer, cutoffs_pkts, data_pkt, updated, losses>>

\* homa_dointvec then adjusts the cutoffs, and at last counts the version up.
homa_prios_changed ==
    /\ \/ /\ admin = "written" /\ admin' = "adjusted"
          /\ rcvr' = Adjusted(rcvr.cutoffs, rcvr.num_priorities, rcvr.cutoff_version)
       \/ /\ admin = "adjusted" /\ admin' = "idle"
          /\ rcvr' = [rcvr EXCEPT !.cutoff_version = @ + 1]
    /\ UNCHANGED <<reader, peer, cutoffs_pkts, data_pkt, updated, losses>>

\* __homa_xmit_data: the current version of the peer goes into the packet.
SendData ==
    /\ Cardinality(data_pkt) < MaxData
    /\ data_pkt' = data_pkt \cup {peer.version}
    /\ UNCHANGED <<rcvr, admin, reader, peer, cutoffs_pkts, updated, losses>>

\* Mutant: a CUTOFFS packet is sent once for each version.
StaleOlder(v) == v < rcvr.cutoff_version - 1

\* ntohs(h->cutoff_version) != homa->cutoff_version
Stale(v) == v # rcvr.cutoff_version

\* homa_data_pkt: at most one CUTOFFS packet in a jiffy.
DataPkt(v) ==
    /\ ~reader.on
    /\ v \in data_pkt
    /\ data_pkt' = data_pkt \ {v}
    /\ reader' = IF Stale(v) /\ ~updated
                 THEN [NotReading EXCEPT !.on = TRUE, !.from = rcvr.cutoff_version]
                 ELSE reader
    /\ UNCHANGED <<rcvr, admin, peer, cutoffs_pkts, updated, losses>>

ReadCutoff ==
    /\ reader.on /\ reader.i < MaxPriorities
    /\ reader' = [reader EXCEPT !.cutoffs[reader.i] = rcvr.cutoffs[reader.i], !.i = @ + 1]
    /\ UNCHANGED <<rcvr, admin, peer, cutoffs_pkts, data_pkt, updated, losses>>

SendCutoffs ==
    /\ reader.on /\ reader.i = MaxPriorities
    /\ cutoffs_pkts' = cutoffs_pkts \cup
         {[cutoffs |-> reader.cutoffs, version |-> rcvr.cutoff_version % Modulus,
           torn |-> rcvr.cutoff_version # reader.from]}
    /\ updated' = TRUE
    /\ reader' = NotReading
    /\ UNCHANGED <<rcvr, admin, peer, data_pkt, losses>>

\* The cutoffs that are stored.
Received(c) == [c EXCEPT ![0] = IntMax]

homa_cutoffs_pkt(p) ==
    /\ p \in cutoffs_pkts
    /\ cutoffs_pkts' = cutoffs_pkts \ {p}
    /\ peer' = [peer EXCEPT !.cutoffs = Received(p.cutoffs), !.version = p.version,
                           !.torn = p.torn]
    /\ UNCHANGED <<rcvr, admin, reader, data_pkt, updated, losses>>

LosePkt ==
    /\ losses > 0
    /\ losses' = losses - 1
    /\ \/ \E p \in cutoffs_pkts : cutoffs_pkts' = cutoffs_pkts \ {p} /\ UNCHANGED data_pkt
       \/ \E v \in data_pkt : data_pkt' = data_pkt \ {v} /\ UNCHANGED cutoffs_pkts
    /\ UNCHANGED <<rcvr, admin, reader, peer, updated>>

NextJiffy ==
    /\ updated
    /\ updated' = FALSE
    /\ UNCHANGED <<rcvr, admin, reader, peer, cutoffs_pkts, data_pkt, losses>>

Deliver == (\E v \in data_pkt : DataPkt(v)) \/ (\E p \in cutoffs_pkts : homa_cutoffs_pkt(p))

Next ==
    \/ \E i \in Levels, c \in Cutoff : WriteCutoff(i, c)
    \/ \E n \in 1 .. MaxPriorities + 1 : WriteNum(n)
    \/ homa_prios_changed
    \/ SendData \/ Deliver \/ ReadCutoff \/ SendCutoffs \/ LosePkt \/ NextJiffy

Spec == Init /\ [][Next]_prioVars

-----------------------------------------------------------------------------
(* Properties                                                              *)

\* homa_unsched_priority scans down from num_priorities.
Usable(c, num, length) == {i \in 0 .. num - 1 : c[i] >= length}
homa_unsched_priority(c, num, length) ==
    CHOOSE i \in Usable(c, num, length) : \A j \in Usable(c, num, length) : i >= j

\* "Can't ever get here" (homa_unsched_priority): whatever cutoffs the peer
\* has sent and whichever of them arrived, a message of any length finds a
\* level.  Before the first CUTOFFS packet that takes the level whose cutoff
\* homa_peer_alloc sets.
PriorityFound ==
    \A num \in NumPriorities, length \in 1 .. MaxLength :
        peer.cutoffs # NewPeer \/ num >= MaxPriorities - 1 =>
            Usable(peer.cutoffs, num, length) # {}

\* A sender that follows the cutoffs sends unscheduled packets of every length
\* above all levels of scheduled packets, unless they must share level 0.
SchedBelow ==
    \A length \in 1 .. MaxLength :
        LET level == homa_unsched_priority(rcvr.cutoffs, rcvr.num_priorities, length)
        IN  level = 0 \/ level > rcvr.max_sched_prio

SameCutoffs == \A i \in Levels \ {0} : peer.cutoffs[i] = rcvr.cutoffs[i]

\* Between two changes a sender that has the current version has the cutoffs
\* that belong to it, unless the version changed while they were read.
VersionNamesCutoffs ==
    admin = "idle" /\ peer.version = rcvr.cutoff_version => SameCutoffs \/ peer.torn

\* At all times every length finds a level, and between changes a version
\* names its cutoffs and unscheduled packets go above scheduled ones.
CutoffsSound ==
    PriorityFound /\ VersionNamesCutoffs /\ (admin = "idle" => SchedBelow)

\* The sender has the current version.
Learned == admin = "idle" /\ peer.version = rcvr.cutoff_version

\* A sender that keeps sending learns the current version and, as far as
\* homa_data_pkt read them together, its cutoffs, whatever CUTOFFS packets were
\* lost, overtook each other or were put together during a change.
CutoffsLearned == []CutoffsSound /\ []<>Learned
=============================================================================
