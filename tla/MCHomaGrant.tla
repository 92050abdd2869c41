----------------------------- MODULE MCHomaGrant -----------------------------
(***************************************************************************)
(* A small instance of HomaGrant for TLC: messages of two senders.         *)
(***************************************************************************)
EXTENDS HomaGrant

\* The first and the last message come from the same sender.
MCSender == [r \in Rpcs |-> IF r = 2 THEN "p2" ELSE "p1"]
MCPeers == {"p1", "p2"}

Config(overcommit, perPeer, window, incoming, fifo, messages, events) ==
    [max_overcommit |-> overcommit, max_rpcs_per_peer |-> perPeer,
     window_param |-> window, max_incoming |-> incoming,
     fifo_grant_increment |-> fifo, messages |-> messages, events |-> events]

\* Little headroom and no FIFO grants: the second message stalls at rank 1
\* and then moves to rank 0.
StallConfigs == {Config(2, 1, 2, 2, 0, 2, {})}
StallLength == [r \in Rpcs |-> IF r = 1 THEN 4 ELSE 3]
=============================================================================
