------------------------- MODULE HomaProtocolProofs -------------------------
(***************************************************************************)
(* Proofs about HomaProtocol: whatever packets are lost, late or repeated, *)
(* acks name only RPCs that the client is done with, the server keeps an   *)
(* RPC that it has executed as long as the client waits, and a request is  *)
(* executed once while its client waits.                                   *)
(***************************************************************************)
EXTENDS HomaProtocol, TLAPS

\* The steps are first-order and go to Zenon; the others are marked SMT.
USE ZenonT(60)

-----------------------------------------------------------------------------
(* The inductive invariant                                                 *)

\* The client has sent request r, and the client is done with it: it has the
\* whole response or has given up.  Neither is ever undone.
Known(r) == call[r] # "idle"
Done(r) == Known(r) /\ ~Waiting(r)

\* The client waits for r and the server has not failed.
Pending(r) == Waiting(r) /\ ~lost[r]

\* What a packet in flight says is true, and stays true: r was started; the
\* RPCs it acknowledges are done; a client that does not know an RPC is done
\* with it; and a response that is waited for is that of the first execution.
PktOk(p) ==
    /\ p.type # "UNREACHABLE" => Known(p.id)
    /\ p.type = "ACK" => \A a \in Acked(p) : Done(a)
    /\ p.type = "DATA" => p.ack = 0 \/ Done(p.ack)
    /\ p.type = "UNKNOWN" /\ p.to = "server" => Done(p.id)
    /\ p.type = "DATA" /\ p.to = "client" /\ Pending(p.id) => p.exec = 1

HdrsDone(x) ==
    \A i \in DOMAIN x.out.hdrs : x.out.hdrs[i] = 0 \/ Done(x.out.hdrs[i])
HdrsNone(x) == \A i \in DOMAIN x.out.hdrs : x.out.hdrs[i] = 0
FirstOnly(x) == \A i \in Received(x.in) : x.in.got[i] = 1

ClientOk(r) ==
    Exists("client", r) => /\ call[r] = "pending"
                           /\ HdrsDone(rpc["client"][r])
                           /\ ~lost[r] => FirstOnly(rpc["client"][r])

ServerOk(r) ==
    Exists("server", r) => /\ Known(r)
                           /\ HdrsNone(rpc["server"][r])
                           /\ Pending(r) => rpc["server"][r].exec = 1

Answering(x) == x.state \in {"in_service", "outgoing"}

ExecOk(r) ==
    /\ ~Known(r) => exec[r] = 0
    /\ Pending(r) => exec[r] <= 1
    /\ Pending(r) /\ exec[r] > 0 => Answering(rpc["server"][r])

AcksOk == \A i \in DOMAIN acks : Done(acks[i])

Inv ==
    /\ TypeOK
    /\ \A p \in net : PktOk(p)
    /\ \A r \in Rpcs : ClientOk(r)
    /\ \A r \in Rpcs : ServerOk(r)
    /\ \A r \in Rpcs : ExecOk(r)
    /\ AcksOk

-----------------------------------------------------------------------------
(* What a step may do to an RPC                                            *)

\* The client's side of r: nothing; it is started; it goes on, by arrivals
\* and new packets; it ends.
ClientMove(r) ==
    \/ rpc'["client"][r] = rpc["client"][r] /\ call'[r] = call[r]
    \/ /\ ~Known(r) /\ call'[r] = "pending"
       /\ rpc'["client"][r].out.hdrs = <<>>
       /\ rpc'["client"][r].in = NoIn
       /\ rpc'["client"][r].state = "outgoing"
    \/ /\ Exists("client", r) /\ Exists("client", r)' /\ call'[r] = call[r]
       /\ Complete(rpc["client"][r]) => Complete(rpc'["client"][r])
       /\ HdrsDone(rpc'["client"][r])
       /\ ~lost[r] => FirstOnly(rpc'["client"][r])
    \/ Known(r) /\ Known(r)' /\ rpc'["client"][r] = NoRpc

\* The server's side of r: nothing; it ends, but not while the client waits
\* unless the server fails or has yet to execute the request; it is started
\* or goes on.
ServerMove(r) ==
    \/ rpc'["server"][r] = rpc["server"][r] /\ exec'[r] = exec[r]
    \/ /\ rpc'["server"][r] = NoRpc /\ exec'[r] = exec[r]
       /\ Pending(r) => lost'[r] \/ exec[r] = 0
    \/ /\ Known(r) /\ Exists("server", r)'
       /\ HdrsNone(rpc'["server"][r])
       /\ Pending(r) => /\ rpc'["server"][r].exec = 1
                        /\ exec'[r] <= 1
                        /\ exec'[r] > 0 => Answering(rpc'["server"][r])

\* What is known of an RPC in the state before is known after the step.
Forward ==
    \A r \in Rpcs : /\ Known(r) => Known(r)'
                    /\ Done(r) => Done(r)'
                    /\ Known(r) /\ Pending(r)' => Pending(r)

\* Started RPCs and RPCs that are done stay so.
LEMMA MovesForward ==
  ASSUME Inv, \A r \in Rpcs : ClientMove(r), \A r \in Rpcs : lost[r] => lost'[r]
  PROVE  Forward
<1> SUFFICES ASSUME NEW r \in Rpcs
             PROVE  /\ Known(r) => Known(r)'
                    /\ Done(r) => Done(r)'
                    /\ Known(r) /\ Pending(r)' => Pending(r)
  BY DEF Forward
<1>1. ClientMove(r) /\ ClientOk(r) /\ (lost[r] => lost'[r])
  BY DEF Inv
<1>2. Known(r) => Known(r)'
  BY <1>1 DEF ClientMove, ClientOk, Known
<1>3. Known(r) /\ ~Waiting(r) => ~Waiting(r)'
  <2>1. CASE rpc'["client"][r] = rpc["client"][r]
    BY <2>1 DEF Waiting, Exists
  <2>2. CASE ~Known(r)
    BY <2>2
  <2>3. CASE /\ Exists("client", r) /\ Exists("client", r)'
             /\ Complete(rpc["client"][r]) => Complete(rpc'["client"][r])
    BY <2>3 DEF Waiting
  <2>4. CASE rpc'["client"][r] = NoRpc
    BY <2>4, SMTT(60) DEF Waiting, Exists, NoRpc
  <2> QED BY <1>1, <2>1, <2>2, <2>3, <2>4 DEF ClientMove
<1> QED BY <1>1, <1>2, <1>3 DEF Done, Pending

\* A packet in flight stays true.
LEMMA PktForward ==
  ASSUME Forward, NEW p \in PktType, PktOk(p)
  PROVE  PktOk(p)'
<1>0. 0 \notin Rpcs
  BY ProtocolAssumption
<1>1. p.type # "UNREACHABLE" => p.id \in Rpcs /\ Known(p.id)'
  BY DEF PktType, PktOk, Forward
<1>2. p.type = "ACK" => Acked(p) \subseteq Rpcs /\ \A a \in Acked(p) : Done(a)'
  BY DEF PktType, PktOk, Forward, Acked
<1>3. p.type = "DATA" => p.ack = 0 \/ Done(p.ack)'
  BY DEF PktType, PktOk, Forward
<1>4. p.type = "UNKNOWN" /\ p.to = "server" => Done(p.id)'
  BY <1>1 DEF PktOk, Forward
<1>5. p.type = "DATA" /\ p.to = "client" /\ Pending(p.id)' => p.exec = 1
  BY <1>1 DEF PktOk, Forward
<1> QED BY <1>1, <1>2, <1>3, <1>4, <1>5 DEF PktOk, Acked

\* Elements of lists of RPCs that are done stay done.
LEMMA HdrsForward ==
  ASSUME Forward, NEW x \in RpcType, HdrsDone(x)
  PROVE  HdrsDone(x)'
<1> SUFFICES ASSUME NEW i \in DOMAIN x.out.hdrs
             PROVE  x.out.hdrs[i] = 0 \/ Done(x.out.hdrs[i])'
  BY DEF HdrsDone
<1>1. x.out.hdrs \in Seq(Rpcs \cup {0})
  BY DEF RpcType, OutType
<1>2. x.out.hdrs[i] \in Rpcs \cup {0}
  BY <1>1, SMTT(60)
<1> QED BY <1>2 DEF HdrsDone, Forward

\* A record of the table that is not empty is an RPC.
LEMMA RpcTyped ==
  ASSUME TypeOK, NEW n \in Nodes, NEW r \in Rpcs
  PROVE  /\ rpc[n][r] \in RpcType \cup {NoRpc}
         /\ Exists(n, r) => rpc[n][r] \in RpcType
         /\ ~Exists(n, r) => rpc[n][r] = NoRpc
<1>1. rpc[n][r] \in RpcType \cup {NoRpc}
  BY DEF TypeOK
<1>2. \A x \in RpcType : x.state # "none"
  BY DEF RpcType
<1>3. NoRpc.state = "none"
  BY DEF NoRpc
<1> QED BY <1>1, <1>2, <1>3 DEF Exists

\* A step that does to every RPC what ClientMove and ServerMove allow, and
\* sends only packets and acks that are true before or after it, keeps the
\* invariant.
LEMMA Moves ==
  ASSUME Inv, TypeOK',
         \A r \in Rpcs : ClientMove(r), \A r \in Rpcs : ServerMove(r),
         \A r \in Rpcs : lost[r] => lost'[r],
         \A p \in net' : p \in net \/ PktOk(p) \/ PktOk(p)',
         \A i \in DOMAIN acks' : Done(acks'[i]) \/ Done(acks[i])'
  PROVE  Inv'
<1>1. Forward
  BY MovesForward
<1>2. \A p \in net' : PktOk(p)'
  <2> SUFFICES ASSUME NEW p \in net'
               PROVE  PktOk(p)'
    OBVIOUS
  <2>1. p \in PktType /\ (PktOk(p) \/ PktOk(p)')
    BY DEF TypeOK, Inv
  <2> QED BY <1>1, <2>1, PktForward
<1>3. \A r \in Rpcs : ClientOk(r)'
  <2> SUFFICES ASSUME NEW r \in Rpcs, Exists("client", r)'
               PROVE  /\ call'[r] = "pending"
                      /\ HdrsDone(rpc["client"][r])'
                      /\ ~lost'[r] => FirstOnly(rpc'["client"][r])
    BY DEF ClientOk, FirstOnly
  <2>1. ClientMove(r) /\ ClientOk(r) /\ (lost[r] => lost'[r])
    BY DEF Inv
  <2> DEFINE y == rpc'["client"][r]
  <2>2. y \in RpcType /\ y.state # "none"
    BY SMTT(60) DEF TypeOK, Exists, NoRpc, Nodes
  <2>3. HdrsDone(y) => HdrsDone(rpc["client"][r])'
    BY <1>1, <2>2, HdrsForward DEF HdrsDone
  <2>4. CASE y = rpc["client"][r] /\ call'[r] = call[r]
    BY <2>1, <2>2, <2>3, <2>4 DEF ClientOk, Exists
  <2>5. CASE /\ call'[r] = "pending" /\ y.out.hdrs = <<>> /\ y.in = NoIn
    <3>1. HdrsDone(y)
      BY <2>5, SMTT(60) DEF HdrsDone
    <3>2. FirstOnly(y)
      BY <2>5, SMTT(60) DEF FirstOnly, Received, NoIn
    <3> QED BY <2>3, <2>5, <3>1, <3>2
  <2>6. CASE /\ Exists("client", r) /\ call'[r] = call[r]
             /\ HdrsDone(y) /\ (~lost[r] => FirstOnly(y))
    BY <2>1, <2>3, <2>6 DEF ClientOk
  <2>7. y # NoRpc
    BY <2>2, SMTT(60) DEF NoRpc
  <2> HIDE DEF y
  <2> QED BY <2>1, <2>4, <2>5, <2>6, <2>7 DEF ClientMove, y
<1>4. \A r \in Rpcs : ServerOk(r)'
  <2> SUFFICES ASSUME NEW r \in Rpcs, Exists("server", r)'
               PROVE  /\ Known(r)'
                      /\ HdrsNone(rpc'["server"][r])
                      /\ Pending(r)' => rpc'["server"][r].exec = 1
    BY DEF ServerOk, HdrsNone
  <2>1. ServerMove(r) /\ ServerOk(r)
    BY DEF Inv
  <2>2. rpc'["server"][r] # NoRpc
    BY SMTT(60) DEF Exists, NoRpc
  <2>3. Known(r)
    BY <2>1, <2>2 DEF ServerMove, ServerOk, Exists
  <2>4. Known(r)' /\ (Pending(r)' => Pending(r))
    BY <1>1, <2>3 DEF Forward
  <2>5. CASE rpc'["server"][r] = rpc["server"][r]
    BY <2>1, <2>4, <2>5 DEF ServerOk, Exists
  <2> QED BY <2>1, <2>2, <2>4, <2>5 DEF ServerMove
<1>5. \A r \in Rpcs : ExecOk(r)'
  <2> SUFFICES ASSUME NEW r \in Rpcs
               PROVE  ExecOk(r)'
    OBVIOUS
  <2>1. ServerMove(r) /\ ExecOk(r) /\ exec[r] \in Nat
    BY SMTT(60) DEF Inv, TypeOK, Execs
  <2>2. CASE Known(r)
    <3>1. Known(r)' /\ (Pending(r)' => Pending(r) /\ ~lost'[r])
      BY <1>1, <2>2 DEF Forward, Pending
    <3> QED BY <2>1, <2>2, <3>1, SMTT(60) DEF ServerMove, ExecOk
  <2>3. CASE ~Known(r)
    <3>1. exec'[r] = 0
      BY <2>1, <2>3 DEF ServerMove, ExecOk
    <3> QED BY <3>1, SMTT(60) DEF ExecOk
  <2> QED BY <2>2, <2>3
<1>6. AcksOk'
  <2> SUFFICES ASSUME NEW i \in DOMAIN acks'
               PROVE  Done(acks[i])'
    BY DEF AcksOk
  <2>1. PICK a \in Rpcs : a = acks'[i]
    BY SMTT(60) DEF TypeOK
  <2>2. Done(a) \/ Done(a)'
    BY <2>1
  <2>3. Done(a)'
    BY <1>1, <2>2 DEF Forward
  <2> QED BY <2>1, <2>3
<1> QED BY <1>2, <1>3, <1>4, <1>5, <1>6 DEF Inv

-----------------------------------------------------------------------------
(* Settings, tables and the network                                        *)

\* The settings of a run: message lengths and the timeout are positive.
LEMMA ConfFacts ==
  ASSUME TypeOK, NEW n \in Nodes
  PROVE  /\ conf.length[n] \in Nat \ {0} /\ conf.length[n] \in Lengths
         /\ Unscheduled(n) \in Nat
         /\ conf.timeout_ticks \in Nat \ {0}
<1>1. PICK c \in Configs : conf = [c EXCEPT !.losses = conf.losses]
  BY DEF TypeOK
<1>2. /\ conf.length = c.length /\ conf.unsched_bytes = c.unsched_bytes
      /\ conf.timeout_ticks = c.timeout_ticks
      /\ c.length \in [Nodes -> Nat \ {0}] /\ c.unsched_bytes \in Nat
      /\ c.timeout_ticks \in Nat \ {0}
  BY <1>1, ProtocolAssumption
<1> QED BY <1>2, SMTT(60) DEF Lengths, Unscheduled, min

\* A table with one record replaced.
LEMMA WithFacts ==
  ASSUME TypeOK, NEW n \in Nodes, NEW r \in Rpcs, NEW y \in RpcType \cup {NoRpc},
         NEW t, t = With(n, r, y)
  PROVE  /\ t \in [Nodes -> [Rpcs -> RpcType \cup {NoRpc}]]
         /\ t[n][r] = y
         /\ \A m \in Nodes, q \in Rpcs : m # n \/ q # r => t[m][q] = rpc[m][q]
<1>1. rpc \in [Nodes -> [Rpcs -> RpcType \cup {NoRpc}]]
  BY DEF TypeOK
<1> QED BY <1>1 DEF With

\* Sending adds packets to those in flight, or loses them.
LEMMA NetFacts ==
  ASSUME NEW S, NEW p, Send(S) \/ Answer(p, S)
  PROVE  net' \subseteq net \cup S
BY DEF Send, Answer, Carry

\* The network is unchanged or only adds packets that are true.
NetOk(S) == S \subseteq PktType /\ \A p \in S : PktOk(p)

\* Nothing but packets.
LEMMA NetOnly ==
  ASSUME Inv, NEW S, NetOk(S), net' \subseteq net \cup S,
         UNCHANGED <<conf, rpc, call, exec, lost, acks, timer_ticks>>,
         up' \in [Nodes -> BOOLEAN]
  PROVE  Inv'
<1>1. TypeOK'
  BY DEF TypeOK, Inv, NetOk
<1>2. \A r \in Rpcs : ClientMove(r) /\ ServerMove(r)
  BY DEF ClientMove, ServerMove
<1>3. \A i \in DOMAIN acks' : Done(acks'[i])
  BY DEF Inv, AcksOk
<1> QED BY <1>1, <1>2, <1>3, Moves DEF NetOk

-----------------------------------------------------------------------------
(* Records                                                                 *)

\* The parts of an RPC that the invariant speaks of are the same.
Alike(x, y) ==
    /\ y.state = x.state /\ y.exec = x.exec
    /\ y.out.hdrs = x.out.hdrs
    /\ y.in.got = x.in.got /\ y.in.length = x.in.length

\* RPCs that agree on what the invariant looks at look the same to it.
LEMMA AlikeFacts ==
  ASSUME NEW x, NEW y, Alike(x, y)
  PROVE  /\ Complete(x) = Complete(y)
         /\ HdrsDone(x) = HdrsDone(y) /\ HdrsNone(x) = HdrsNone(y)
         /\ FirstOnly(x) = FirstOnly(y) /\ Answering(x) = Answering(y)
<1>1. Received(x.in) = Received(y.in)
  BY DEF Alike, Received
<1> QED BY <1>1 DEF Alike, Complete, HdrsDone, HdrsNone, FirstOnly, Answering

\* An RPC without an outgoing message has a message record all the same.
LEMMA NoOutTyped == NoOut \in OutType
BY SMTT(60) DEF NoOut, OutType

\* homa_message_out_init returns a message with no packet yet.
LEMMA OutInitTyped ==
  ASSUME TypeOK, NEW n \in Nodes
  PROVE  /\ homa_message_out_init(n) \in OutType
         /\ homa_message_out_init(n).hdrs = <<>>
<1>1. conf.length[n] \in Nat /\ Unscheduled(n) \in Nat
  BY ConfFacts
<1> QED BY <1>1, NoOutTyped DEF homa_message_out_init, OutType, NoOut

\* The incoming message that has not started.
LEMMA NoInTyped == NoIn \in InType /\ Received(NoIn) = {}
<1>1. <<>> \in [0 .. 0 - 1 -> Execs]
  <2>1. 0 .. 0 - 1 = {} /\ 1 .. 0 = {}
    BY SMTT(60)
  <2>2. <<>> \in [1 .. 0 -> Execs]
    BY SMTT(60)
  <2> QED BY <2>1, <2>2
<1>2. <<>> \in GotType
  BY <1>1, SMTT(60) DEF GotType, Lengths
<1>3. Received(NoIn) = {}
  BY SMTT(60) DEF Received, NoIn
<1> QED BY <1>2, <1>3 DEF NoIn, InType

\* homa_message_in_init returns a message of which nothing has arrived.
LEMMA InInitTyped ==
  ASSUME TypeOK, NEW n \in Nodes, NEW incoming \in Nat, NEW b \in BOOLEAN
  PROVE  /\ homa_message_in_init(n, incoming, b) \in InType
         /\ Received(homa_message_in_init(n, incoming, b)) = {}
<1>1. Peer(n) \in Nodes
  BY DEF Peer, Nodes
<1>2. PICK len \in Lengths : len = conf.length[Peer(n)] /\ len \in Nat
  BY <1>1, ConfFacts
<1>3. PICK g : g = [i \in 0 .. len - 1 |-> 0]
  OBVIOUS
<1>4. 0 \in Execs
  BY ProtocolAssumption, SMTT(60) DEF Execs
<1>5. g \in [0 .. len - 1 -> Execs]
  BY <1>3, <1>4
<1>6. g \in GotType
  BY <1>5 DEF GotType
<1>7. homa_message_in_init(n, incoming, b) =
        [length |-> len, got |-> g, granted |-> min(incoming, len), bufs |-> b]
  BY <1>2, <1>3 DEF homa_message_in_init
<1>8. min(incoming, len) \in Nat
  BY <1>2 DEF min
<1> QED BY <1>2, <1>3, <1>6, <1>7, <1>8, SMTT(60) DEF InType, Received

\* The RPC that homa_rpc_alloc_client and homa_rpc_alloc_server return.
LEMMA NewRpcTyped ==
  ASSUME NEW s \in {"outgoing", "incoming", "in_service"}
  PROVE  /\ NewRpc(s) \in RpcType /\ NewRpc(s).state = s
         /\ NewRpc(s).exec = 1 /\ NewRpc(s).in = NoIn /\ NewRpc(s).out = NoOut
<1>1. 1 \in Execs
  BY ProtocolAssumption, SMTT(60) DEF Execs
<1> QED BY <1>1, NoInTyped, NoOutTyped DEF NewRpc, RpcType

\* A packet from the peer resets the count of silent ticks, no more.
LEMMA HeardFacts ==
  ASSUME NEW x \in RpcType
  PROVE  /\ Heard(x) \in RpcType /\ Alike(x, Heard(x))
         /\ Heard(x).out = x.out /\ Heard(x).in = x.in
BY DEF Heard, RpcType, Alike

\* How far a message may be transmitted is a number of bytes.
LEMMA XmitEndNat ==
  ASSUME NEW x \in RpcType
  PROVE  XmitEnd(x) \in Nat
<1>1. x.out.sent \in Nat /\ x.out.granted \in Nat /\ Len(x.out.hdrs) \in Nat
  BY SMTT(60) DEF RpcType, OutType
<1> QED BY <1>1 DEF XmitEnd, max, min

\* homa_xmit_data moves only how far the message is sent.
LEMMA XmitFacts ==
  ASSUME NEW x \in RpcType
  PROVE  homa_xmit_data(x) \in RpcType /\ Alike(x, homa_xmit_data(x))
<1>1. PICK e \in Nat : e = XmitEnd(x)
  BY XmitEndNat
<1>2. PICK o : o = [x.out EXCEPT !.sent = e,
                       !.tx = IF "slow_nic" \in conf.faults THEN @ ELSE e]
  OBVIOUS
<1>3. x.out \in OutType
  BY DEF RpcType
<1>4. o \in OutType /\ o.hdrs = x.out.hdrs
  BY <1>2, <1>3 DEF OutType
<1>5. homa_xmit_data(x) = [x EXCEPT !.out = o]
  BY <1>1, <1>2, <1>3 DEF homa_xmit_data, RpcType, OutType
<1> QED BY <1>4, <1>5 DEF RpcType, Alike

\* The end of what has been transmitted is a number of bytes.
LEMMA TxEndNat ==
  ASSUME NEW x \in RpcType
  PROVE  homa_rpc_tx_end(x) \in Nat
BY DEF homa_rpc_tx_end, RpcType, OutType

\* The RPC whose packets host n sends is as the invariant says.
SenderOk(n, r, x) ==
    /\ x \in RpcType /\ Known(r) /\ HdrsDone(x)
    /\ n = "server" /\ Pending(r) => x.exec = 1

\* By the invariant, every RPC of a table may send its data.
LEMMA Sender ==
  ASSUME Inv, NEW n \in Nodes, NEW r \in Rpcs, Exists(n, r)
  PROVE  SenderOk(n, r, rpc[n][r])
<1>1. rpc[n][r] \in RpcType
  BY RpcTyped DEF Inv
<1>2. ClientOk(r) /\ ServerOk(r)
  BY DEF Inv
<1>3. CASE n = "client"
  BY <1>1, <1>2, <1>3 DEF SenderOk, ClientOk, Known
<1>4. CASE n = "server"
  BY <1>1, <1>2, <1>4 DEF SenderOk, ServerOk, HdrsNone, HdrsDone
<1> QED BY <1>3, <1>4 DEF Nodes

\* A data packet carries what its RPC's packet buffer holds.
LEMMA DataPktOk ==
  ASSUME NEW n \in Nodes, NEW r \in Rpcs, NEW x, SenderOk(n, r, x),
         NEW i \in Nat, i < Len(x.out.hdrs), NEW incoming \in Nat
  PROVE  NetOk({DataPkt(n, r, x, i, incoming)})
<1>1. Peer(n) \in Nodes /\ (Peer(n) = "client" <=> n = "server")
  BY DEF Peer, Nodes
<1>2. x.out.hdrs \in Seq(Rpcs \cup {0}) /\ x.exec \in Execs
  BY DEF SenderOk, RpcType, OutType
<1>3. i + 1 \in DOMAIN x.out.hdrs
  BY <1>2, SMTT(60)
<1>4. PICK a \in Rpcs \cup {0} : a = x.out.hdrs[i + 1]
  BY <1>2, <1>3, SMTT(60)
<1>5. a = 0 \/ Done(a)
  BY <1>3, <1>4 DEF SenderOk, HdrsDone
<1>6. PICK p : p = [type |-> "DATA", to |-> Peer(n), id |-> r, offset |-> i,
                    incoming |-> incoming, ack |-> a, exec |-> x.exec]
  OBVIOUS
<1>7. p \in PktType
  BY <1>1, <1>2, <1>6 DEF PktType
<1>8. PktOk(p)
  BY <1>1, <1>5, <1>6 DEF PktOk, SenderOk
<1>9. p = DataPkt(n, r, x, i, incoming)
  BY <1>4, <1>6 DEF DataPkt
<1> QED BY <1>7, <1>8, <1>9 DEF NetOk

\* The packets that homa_xmit_data sends are true.
LEMMA TransmittedOk ==
  ASSUME TypeOK, NEW n \in Nodes, NEW r \in Rpcs, NEW x, SenderOk(n, r, x)
  PROVE  NetOk(Transmitted(n, r, x))
<1>1. /\ x.out.sent \in Nat /\ x.out.granted \in Nat /\ Len(x.out.hdrs) \in Nat
      /\ Unscheduled(n) \in Nat
  BY ConfFacts, SMTT(60) DEF SenderOk, RpcType, OutType
<1>2. \A i \in x.out.sent .. XmitEnd(x) - 1 : i \in Nat /\ i < Len(x.out.hdrs)
  BY <1>1, SMTT(60) DEF XmitEnd, max, min
<1>3. \A i \in x.out.sent .. XmitEnd(x) - 1 :
         NetOk({DataPkt(n, r, x, i, Unscheduled(n))})
  BY <1>1, <1>2, DataPktOk
<1> QED BY <1>3 DEF Transmitted, NetOk

\* The packets that homa_resend_data sends again are true.
LEMMA ResendDataOk ==
  ASSUME NEW n \in Nodes, NEW r \in Rpcs, NEW x, SenderOk(n, r, x),
         NEW start \in Nat, NEW end \in Nat
  PROVE  NetOk(homa_resend_data(n, r, x, start, end))
<1>1. Len(x.out.hdrs) \in Nat
  BY SMTT(60) DEF SenderOk, RpcType, OutType
<1>2. \A i \in start .. min(end, Len(x.out.hdrs)) - 1 :
         i \in Nat /\ i < Len(x.out.hdrs)
  BY <1>1, SMTT(60) DEF min
<1>3. \A i \in start .. min(end, Len(x.out.hdrs)) - 1 :
         NetOk({DataPkt(n, r, x, i, end)})
  BY <1>2, DataPktOk
<1> QED BY <1>3 DEF homa_resend_data, NetOk

\* BUSY and NEED_ACK packets are true; UNKNOWN from a client is when it is done.
LEMMA ControlOk ==
  ASSUME NEW n \in Nodes, NEW r \in Rpcs, Known(r), NEW t,
         \/ t = "BUSY"
         \/ t = "UNKNOWN" /\ (n = "client" => Done(r))
         \/ t = "NEED_ACK" /\ n = "server"
  PROVE  NetOk({Control(t, n, r)})
<1>1. PICK p : p = [type |-> t, to |-> Peer(n), id |-> r]
  OBVIOUS
<1>2. p \in PktType /\ PktOk(p)
  BY <1>1 DEF PktType, PktOk, Peer, Nodes
<1> QED BY <1>1, <1>2 DEF NetOk, Control

\* A RESEND names an RPC that was started.
LEMMA ResendPktOk ==
  ASSUME NEW n \in Nodes, NEW r \in Rpcs, Known(r),
         NEW o \in Nat, NEW l \in Nat \cup {-1}
  PROVE  NetOk({ResendPkt(n, r, o, l)})
<1>1. PICK p : p = [type |-> "RESEND", to |-> Peer(n), id |-> r, offset |-> o,
                    length |-> l]
  OBVIOUS
<1>2. p \in PktType
  BY <1>1 DEF PktType, Peer, Nodes
<1>3. PktOk(p)
  BY <1>1 DEF PktOk
<1> QED BY <1>1, <1>2, <1>3 DEF NetOk, ResendPkt

\* The RESENDs of homa_request_retrans name an RPC that was started.
LEMMA RetransOk ==
  ASSUME NEW n \in Nodes, NEW r \in Rpcs, Known(r), NEW x \in RpcType
  PROVE  NetOk(homa_request_retrans(n, r, x))
<1>1. x.in.length \in Nat
  BY DEF RpcType, InType
<1>2. \A i \in 0 .. x.in.length, j \in 0 .. x.in.length : i < j =>
         i \in Nat /\ j - i \in Nat
  BY <1>1, SMTT(60)
<1>3. \A i \in 0 .. x.in.length, j \in 0 .. x.in.length : i < j =>
         NetOk({ResendPkt(n, r, i, j - i)})
  BY <1>2, ResendPktOk
<1>4. NetOk({ResendPkt(n, r, 0, -1)})
  BY ResendPktOk
<1>5. ASSUME NEW p \in homa_request_retrans(n, r, x)
      PROVE  NetOk({p})
  <2>1. \/ p = ResendPkt(n, r, 0, -1)
        \/ \E i \in 0 .. x.in.length, j \in 0 .. x.in.length :
             i < j /\ p = ResendPkt(n, r, i, j - i)
    BY <1>5 DEF homa_request_retrans
  <2> QED BY <1>3, <1>4, <2>1
<1> QED BY <1>5 DEF NetOk

\* One RPC goes on as it was, with new packets at most.
LEMMA OneRpc ==
  ASSUME Inv, NEW n \in Nodes, NEW r \in Rpcs, Exists(n, r), NEW y \in RpcType,
         rpc' = With(n, r, y),
         y.state = rpc[n][r].state, y.exec = rpc[n][r].exec,
         y.in.got = rpc[n][r].in.got, y.in.length = rpc[n][r].in.length,
         HdrsDone(y), n = "server" => HdrsNone(y),
         NEW S, NetOk(S), net' \subseteq net \cup S,
         acks' \in Seq(Rpcs), \A i \in DOMAIN acks' : Done(acks'[i]),
         UNCHANGED <<conf, call, exec, lost, timer_ticks, up>>
  PROVE  Inv'
<1>0. TypeOK /\ y # NoRpc /\ y.state # "none"
  BY SMTT(60) DEF Inv, RpcType, NoRpc
<1>1. /\ rpc' \in [Nodes -> [Rpcs -> RpcType \cup {NoRpc}]]
      /\ rpc'[n][r] = y
      /\ \A m \in Nodes, q \in Rpcs : m # n \/ q # r => rpc'[m][q] = rpc[m][q]
  BY <1>0, WithFacts, SMTT(60)
<1>2. TypeOK'
  BY <1>0, <1>1 DEF TypeOK, NetOk
<1>3. /\ Complete(rpc[n][r]) => Complete(y)
      /\ FirstOnly(rpc[n][r]) => FirstOnly(y)
      /\ Answering(rpc[n][r]) => Answering(y)
  <2>1. Received(rpc[n][r].in) = Received(y.in)
    BY DEF Received
  <2> QED BY <2>1 DEF Complete, FirstOnly, Answering
<1>4. ClientOk(r) /\ ServerOk(r) /\ ExecOk(r)
  BY DEF Inv
<1>5. ASSUME NEW q \in Rpcs
      PROVE  ClientMove(q)
  <2>1. CASE n # "client" \/ q # r
    BY <1>1, <2>1 DEF ClientMove, Nodes
  <2>2. CASE n = "client" /\ q = r
    BY <1>0, <1>1, <1>3, <1>4, <2>2 DEF ClientMove, ClientOk, Exists
  <2> QED BY <2>1, <2>2
<1>6. ASSUME NEW q \in Rpcs
      PROVE  ServerMove(q)
  <2>1. CASE n # "server" \/ q # r
    BY <1>1, <2>1 DEF ServerMove, Nodes
  <2>2. CASE n = "server" /\ q = r
    BY <1>0, <1>1, <1>3, <1>4, <2>2 DEF ServerMove, ServerOk, ExecOk, Exists
  <2> QED BY <2>1, <2>2
<1> QED BY <1>2, <1>5, <1>6, Moves DEF NetOk

\* The same for a record that differs in nothing that matters.
LEMMA OneAlike ==
  ASSUME Inv, NEW n \in Nodes, NEW r \in Rpcs, Exists(n, r), NEW y \in RpcType,
         rpc' = With(n, r, y), Alike(rpc[n][r], y),
         NEW S, NetOk(S), net' \subseteq net \cup S,
         UNCHANGED <<conf, call, exec, lost, acks, timer_ticks, up>>
  PROVE  Inv'
<1>1. ClientOk(r) /\ ServerOk(r) /\ TypeOK /\ AcksOk
  BY DEF Inv
<1>2. HdrsDone(y) /\ (n = "server" => HdrsNone(y))
  <2>1. SenderOk(n, r, rpc[n][r])
    BY Sender
  <2> QED BY <1>1, <2>1, AlikeFacts DEF SenderOk, ServerOk
<1>3. acks' \in Seq(Rpcs) /\ \A i \in DOMAIN acks' : Done(acks'[i])
  BY <1>1 DEF TypeOK, AcksOk
<1> QED BY <1>2, <1>3, OneRpc DEF Alike

-----------------------------------------------------------------------------
(* Every step keeps the invariant                                          *)

\* Initially nothing is known of any RPC.
LEMMA InitInv ==
  ASSUME Init
  PROVE  Inv
<1>1. TypeOK
  <2>1. conf \in Configs /\ conf = [conf EXCEPT !.losses = conf.losses]
        /\ conf.losses \in Nat
    BY ProtocolAssumption DEF Init
  <2>2. 0 \in Execs
    BY ProtocolAssumption, SMTT(60) DEF Execs
  <2> QED BY <2>1, <2>2, SMTT(60) DEF Init, TypeOK
<1>2. \A r \in Rpcs : ClientOk(r) /\ ServerOk(r) /\ ExecOk(r)
  BY DEF Init, ClientOk, ServerOk, ExecOk, Exists, NoRpc, Pending, Waiting, Nodes
<1>3. AcksOk /\ \A p \in net : PktOk(p)
  BY SMTT(60) DEF Init, AcksOk
<1> QED BY <1>1, <1>2, <1>3 DEF Inv

\* homa_sendmsg of a request.
LEMMA SendRequestInv ==
  ASSUME Inv, NEW r \in Rpcs, SendRequest(r)
  PROVE  Inv'
<1>0. TypeOK
  BY DEF Inv
<1>1. PICK o : o = homa_message_out_init("client")
  OBVIOUS
<1>2. o \in OutType /\ o.hdrs = <<>>
  BY <1>0, <1>1, OutInitTyped DEF Nodes
<1>3. PICK y : y = [NewRpc("outgoing") EXCEPT !.out = o]
  OBVIOUS
<1>4. /\ y \in RpcType /\ y.out = o /\ y.in = NoIn /\ y.state = "outgoing"
  BY <1>2, <1>3, NewRpcTyped DEF RpcType
<1>5. rpc' = With("client", r, y)
  BY <1>1, <1>3 DEF SendRequest
<1>6. /\ rpc' \in [Nodes -> [Rpcs -> RpcType \cup {NoRpc}]]
      /\ rpc'["client"][r] = y
      /\ \A m \in Nodes, q \in Rpcs : m # "client" \/ q # r => rpc'[m][q] = rpc[m][q]
  BY <1>0, <1>4, <1>5, WithFacts, SMTT(60) DEF Nodes
<1>7. TypeOK'
  BY <1>0, <1>6 DEF TypeOK, SendRequest
<1>8. \A q \in Rpcs : ClientMove(q) /\ ServerMove(q)
  BY <1>0, <1>2, <1>4, <1>6 DEF ClientMove, ServerMove, SendRequest, Nodes, Known, TypeOK
<1>9. \A i \in DOMAIN acks' : Done(acks'[i])
  BY DEF SendRequest, Inv, AcksOk
<1> QED BY <1>7, <1>8, <1>9, Moves DEF SendRequest

\* homa_sendmsg of a reply: the request is executed.
LEMMA SendReplyInv ==
  ASSUME Inv, NEW r \in Rpcs, SendReply(r)
  PROVE  Inv'
<1>0. TypeOK /\ ServerOk(r) /\ Exists("server", r)
  BY DEF Inv, SendReply, Exists
<1>1. PICK o : o = homa_message_out_init("server")
  OBVIOUS
<1>2. o \in OutType /\ o.hdrs = <<>>
  BY <1>0, <1>1, OutInitTyped DEF Nodes
<1>3. PICK x \in RpcType : x = rpc["server"][r]
  BY <1>0, RpcTyped DEF Nodes
<1>4. PICK y : y = [x EXCEPT !.state = "outgoing", !.out = o]
  OBVIOUS
<1>5. y \in RpcType /\ y.out = o /\ y.state = "outgoing" /\ y.exec = x.exec
  BY <1>2, <1>3, <1>4 DEF RpcType
<1>6. rpc' = With("server", r, y)
  BY <1>1, <1>3, <1>4 DEF SendReply
<1>7. /\ rpc' \in [Nodes -> [Rpcs -> RpcType \cup {NoRpc}]]
      /\ rpc'["server"][r] = y
      /\ \A m \in Nodes, q \in Rpcs : m # "server" \/ q # r => rpc'[m][q] = rpc[m][q]
  BY <1>0, <1>5, <1>6, WithFacts, SMTT(60) DEF Nodes
<1>8. TypeOK'
  BY <1>0, <1>7 DEF TypeOK, SendReply
<1>9. \A q \in Rpcs : ClientMove(q)
  BY <1>7 DEF ClientMove, SendReply, Nodes
<1>10. ASSUME NEW q \in Rpcs
       PROVE  ServerMove(q)
  <2>1. CASE q # r
    BY <1>7, <2>1 DEF ServerMove, SendReply, Nodes
  <2>2. CASE q = r
    <3>1. HdrsNone(y) /\ Answering(y)
      BY <1>2, <1>5, SMTT(60) DEF HdrsNone, Answering
    <3>2. ExecOk(r)
      BY DEF Inv
    <3> QED BY <1>0, <1>3, <1>5, <1>7, <2>2, <3>1, <3>2
        DEF ServerMove, ServerOk, ExecOk, Exists, SendReply
  <2> QED BY <2>1, <2>2
<1>11. \A i \in DOMAIN acks' : Done(acks'[i])
  BY DEF SendReply, Inv, AcksOk
<1> QED BY <1>8, <1>9, <1>10, <1>11, Moves DEF SendReply

\* The acks that the client has are done, and so is the one it takes.
LEMMA AckFacts ==
  ASSUME Inv, NEW n \in Nodes
  PROVE  /\ GetAck(n) \in Rpcs \cup {0}
         /\ GetAck(n) = 0 \/ Done(GetAck(n))
         /\ n = "server" => GetAck(n) = 0
         /\ acks \in Seq(Rpcs) /\ AcksLeft(n) \in Seq(Rpcs)
         /\ \A i \in DOMAIN acks : Done(acks[i])
         /\ \A i \in DOMAIN AcksLeft(n) : Done(AcksLeft(n)[i])
         /\ \A a \in Range(acks) : a \in Rpcs /\ Done(a)
<1>1. acks \in Seq(Rpcs) /\ \A i \in DOMAIN acks : Done(acks[i])
  BY DEF Inv, TypeOK, AcksOk
<1>2. \A i \in DOMAIN acks : acks[i] \in Rpcs
  BY <1>1, SMTT(60)
<1>3. acks # <<>> => /\ Len(acks) \in DOMAIN acks
                     /\ SubSeq(acks, 1, Len(acks) - 1) \in Seq(Rpcs)
                     /\ \A i \in DOMAIN SubSeq(acks, 1, Len(acks) - 1) :
                          /\ i \in DOMAIN acks
                          /\ SubSeq(acks, 1, Len(acks) - 1)[i] = acks[i]
  BY <1>1, SMTT(60)
<1>4. /\ GetAck(n) \in Rpcs \cup {0} /\ (GetAck(n) = 0 \/ Done(GetAck(n)))
      /\ n = "server" => GetAck(n) = 0
  BY <1>1, <1>2, <1>3 DEF GetAck
<1>5. /\ AcksLeft(n) \in Seq(Rpcs)
      /\ \A i \in DOMAIN AcksLeft(n) : Done(AcksLeft(n)[i])
  BY <1>1, <1>3 DEF AcksLeft
<1>6. \A a \in Range(acks) : a \in Rpcs /\ Done(a)
  BY <1>1, <1>2 DEF Range
<1> QED BY <1>1, <1>4, <1>5, <1>6

\* homa_message_out_fill copies in one more packet and may transmit it.
LEMMA FillPacketInv ==
  ASSUME Inv, NEW n \in Nodes, NEW r \in Rpcs, FillPacket(n, r)
  PROVE  Inv'
<1>0. TypeOK /\ Exists(n, r) /\ SenderOk(n, r, rpc[n][r])
  BY Sender DEF Inv, FillPacket
<1>1. PICK x \in RpcType : x = rpc[n][r]
  BY <1>0, RpcTyped
<1>2. PICK a \in Rpcs \cup {0} : a = GetAck(n)
  BY AckFacts
<1>3. x.out \in OutType /\ x.out.hdrs \in Seq(Rpcs \cup {0})
  BY DEF RpcType, OutType
<1>4. PICK fill \in BOOLEAN : fill = (Len(x.out.hdrs) + 1 < x.out.length)
  <2>1. (Len(x.out.hdrs) + 1 < x.out.length) \in BOOLEAN
    BY SMTT(60)
  <2> QED BY <2>1
<1>5. PICK h \in Seq(Rpcs \cup {0}) : h = Append(x.out.hdrs, a)
  <2>1. a \in Rpcs \cup {0}
    BY <1>2
  <2>2. Append(x.out.hdrs, a) \in Seq(Rpcs \cup {0})
    BY <1>3, <2>1, SMTT(60)
  <2> QED BY <2>2
<1>6. PICK o : o = [x.out EXCEPT !.hdrs = h, !.filling = fill]
  OBVIOUS
<1>7. o \in OutType /\ o.hdrs = h
  BY <1>3, <1>6 DEF OutType
<1>8. PICK y : y = [x EXCEPT !.out = o]
  OBVIOUS
<1>9. y \in RpcType /\ y.out = o /\ y.state = x.state /\ y.exec = x.exec /\ y.in = x.in
  BY <1>7, <1>8 DEF RpcType
<1>10. y = WithNext(n, x)
  BY <1>2, <1>3, <1>4, <1>5, <1>6, <1>8 DEF RpcType, OutType, WithNext
<1>11. HdrsDone(y) /\ (n = "server" => HdrsNone(y))
  <2>1. \A i \in DOMAIN h : IF i = Len(x.out.hdrs) + 1 THEN h[i] = a
                            ELSE i \in DOMAIN x.out.hdrs /\ h[i] = x.out.hdrs[i]
    BY <1>3, <1>5, SMTT(60)
  <2>2. HdrsDone(x) /\ (n = "server" => HdrsNone(x))
    BY <1>0, <1>1 DEF SenderOk, Inv, ServerOk
  <2>3. (a = 0 \/ Done(a)) /\ (n = "server" => a = 0)
    BY <1>2, AckFacts
  <2> QED BY <1>7, <1>9, <2>1, <2>2, <2>3 DEF HdrsDone, HdrsNone
<1>12. SenderOk(n, r, y)
  BY <1>0, <1>1, <1>9, <1>11 DEF SenderOk
<1> DEFINE xmit == Len(rpc[n][r].out.hdrs) < Unscheduled(n) \/ ~y.out.filling
<1>13. /\ rpc' = With(n, r, IF xmit THEN homa_xmit_data(y) ELSE y)
       /\ Send(IF xmit THEN Transmitted(n, r, y) ELSE {})
       /\ acks' = AcksLeft(n)
       /\ UNCHANGED <<conf, call, exec, lost, timer_ticks, up>>
  BY <1>1, <1>10 DEF FillPacket
<1> HIDE DEF xmit
<1>14. PICK z : z = IF xmit THEN homa_xmit_data(y) ELSE y
  OBVIOUS
<1>15. z \in RpcType /\ Alike(y, z)
  BY <1>9, <1>14, XmitFacts DEF Alike
<1>16. rpc' = With(n, r, z)
  BY <1>13, <1>14
<1>17. HdrsDone(z) /\ (n = "server" => HdrsNone(z))
  BY <1>11, <1>15, AlikeFacts
<1>18. PICK S : S = IF xmit THEN Transmitted(n, r, y) ELSE {}
  OBVIOUS
<1>19. NetOk(S)
  BY <1>0, <1>12, <1>18, TransmittedOk DEF NetOk
<1>20. net' \subseteq net \cup S
  BY <1>13, <1>18, NetFacts
<1>21. acks' \in Seq(Rpcs) /\ \A i \in DOMAIN acks' : Done(acks'[i])
  BY <1>13, AckFacts
<1>22. /\ z.state = x.state /\ z.exec = x.exec /\ z.in.got = x.in.got
       /\ z.in.length = x.in.length
  BY <1>9, <1>15 DEF Alike
<1> QED BY <1>0, <1>1, <1>13, <1>15, <1>16, <1>17, <1>19, <1>20, <1>21, <1>22, OneRpc

\* The record of r on host n is gone.
LEMMA Removed ==
  ASSUME TypeOK, NEW n \in Nodes, NEW r \in Rpcs, rpc' = With(n, r, NoRpc)
  PROVE  /\ rpc' \in [Nodes -> [Rpcs -> RpcType \cup {NoRpc}]]
         /\ rpc'[n][r] = NoRpc
         /\ \A m \in Nodes, q \in Rpcs : m # n \/ q # r => rpc'[m][q] = rpc[m][q]
BY WithFacts, SMTT(60)

\* homa_message_out_fill fails and the RPC ends.
LEMMA FillFailsInv ==
  ASSUME Inv, NEW n \in Nodes, NEW r \in Rpcs, FillFails(n, r)
  PROVE  Inv'
<1>0. TypeOK /\ Exists(n, r) /\ Known(r)
  BY Sender DEF Inv, FillFails, SenderOk
<1>1. /\ rpc' \in [Nodes -> [Rpcs -> RpcType \cup {NoRpc}]]
      /\ rpc'[n][r] = NoRpc
      /\ \A m \in Nodes, q \in Rpcs : m # n \/ q # r => rpc'[m][q] = rpc[m][q]
  BY <1>0, Removed DEF FillFails
<1>2. acks' \in Seq(Rpcs) /\ \A i \in DOMAIN acks' : Done(acks'[i])
  BY AckFacts DEF FillFails
<1>3. /\ call' \in [Rpcs -> {"idle", "pending", "returned", "failed", "aborted"}]
      /\ lost' \in [Rpcs -> BOOLEAN] /\ \A q \in Rpcs : lost[q] => lost'[q]
      /\ \A q \in Rpcs : q # r \/ n # "client" => call'[q] = call[q]
      /\ n = "client" => call'[r] = "failed"
      /\ n = "server" => lost'[r] = TRUE
      /\ exec' = exec
  BY <1>0 DEF FillFails, TypeOK, Nodes
<1>4. TypeOK'
  BY <1>0, <1>1, <1>2, <1>3 DEF TypeOK, FillFails
<1>5. \A q \in Rpcs : ClientMove(q)
  BY <1>0, <1>1, <1>3 DEF ClientMove, Known, Nodes
<1>6. \A q \in Rpcs : ServerMove(q)
  BY <1>0, <1>1, <1>3 DEF ServerMove, Nodes
<1> QED BY <1>2, <1>3, <1>4, <1>5, <1>6, Moves DEF FillFails

\* homa_recvmsg returns a response and acknowledges it.
LEMMA ClientRecvInv ==
  ASSUME Inv, NEW r \in Rpcs, ClientRecv(r)
  PROVE  Inv'
<1>0. TypeOK /\ Exists("client", r) /\ Known(r)
  BY DEF Inv, ClientRecv, ClientOk, Known
<1>1. /\ rpc' \in [Nodes -> [Rpcs -> RpcType \cup {NoRpc}]]
      /\ rpc'["client"][r] = NoRpc
      /\ \A m \in Nodes, q \in Rpcs : m # "client" \/ q # r => rpc'[m][q] = rpc[m][q]
  BY <1>0, Removed DEF ClientRecv, Nodes
<1>2. /\ call' \in [Rpcs -> {"idle", "pending", "returned", "failed", "aborted"}]
      /\ \A q \in Rpcs : q # r => call'[q] = call[q]
      /\ call'[r] # "idle"
      /\ exec' = exec /\ lost' = lost
  BY <1>0 DEF ClientRecv, TypeOK
<1>3. Done(r)'
  BY <1>1, <1>2, SMTT(60) DEF Done, Known, Waiting, Exists, NoRpc
<1>4. \A q \in Rpcs : ClientMove(q) /\ ServerMove(q)
  BY <1>0, <1>1, <1>2 DEF ClientMove, ServerMove, Known, Nodes
<1>5. Forward
  BY <1>2, <1>4, MovesForward
<1>6. acks' \in Seq(Rpcs) /\ \A i \in DOMAIN acks' : Done(acks[i])'
  <2>1. acks \in Seq(Rpcs) /\ \A i \in DOMAIN acks : Done(acks[i])
    BY AckFacts DEF Nodes
  <2>2. \A i \in DOMAIN acks : Done(acks[i]) /\ acks[i] \in Rpcs
    BY <2>1, SMTT(60)
  <2>3. CASE acks' = Append(acks, r)
    <3>1. acks' \in Seq(Rpcs)
      BY <2>1, <2>3, SMTT(60)
    <3>2. ASSUME NEW i \in DOMAIN acks'
          PROVE  Done(acks[i])'
      <4>1. acks'[i] = r \/ (i \in DOMAIN acks /\ acks'[i] = acks[i])
        BY <2>1, <2>3, SMTT(60)
      <4>2. PICK a \in Rpcs : a = acks'[i] /\ (a = r \/ Done(a))
        BY <2>2, <4>1
      <4>3. Done(a)'
        BY <1>3, <1>5, <4>2 DEF Forward
      <4> QED BY <4>2, <4>3
    <3> QED BY <3>1, <3>2
  <2>4. CASE acks' = <<>>
    BY <2>4, SMTT(60)
  <2> QED BY <2>3, <2>4 DEF ClientRecv, homa_peer_add_ack
<1>7. AckOverflow(r) \subseteq PktType /\ \A p \in AckOverflow(r) : PktOk(p)'
  <2>1. PICK A : A = Range(acks)
    OBVIOUS
  <2>2. \A a \in A : a \in Rpcs /\ Done(a)
    BY <2>1, AckFacts DEF Nodes
  <2>3. \A a \in A : Done(a)'
    BY <1>5, <2>2 DEF Forward
  <2>4. PICK p : p = [type |-> "ACK", to |-> "server", id |-> r, acks |-> A]
    OBVIOUS
  <2>5. p \in PktType /\ Acked(p) = {r} \cup A
    BY <2>2, <2>4 DEF PktType, Acked
  <2>6. PktOk(p)'
    BY <1>2, <1>3, <2>3, <2>4, <2>5 DEF PktOk, Known, Acked
  <2>7. AckOverflow(r) \subseteq {p}
    BY <2>1, <2>4 DEF AckOverflow
  <2> QED BY <2>5, <2>6, <2>7
<1>8. net' \subseteq net \cup AckOverflow(r)
  BY NetFacts DEF ClientRecv
<1>9. TypeOK'
  BY <1>0, <1>1, <1>2, <1>6, <1>7, <1>8 DEF TypeOK, ClientRecv
<1> QED BY <1>2, <1>4, <1>6, <1>7, <1>8, <1>9, Moves

\* homa_recvmsg returns a request.
LEMMA ServerRecvInv ==
  ASSUME Inv, NEW r \in Rpcs, ServerRecv(r)
  PROVE  Inv'
<1>0. TypeOK /\ ServerOk(r) /\ ExecOk(r) /\ Exists("server", r)
  BY DEF Inv, ServerRecv
<1>1. PICK x \in RpcType : x = rpc["server"][r]
  BY <1>0, RpcTyped DEF Nodes
<1>2. PICK k : k = min(exec[r] + 1, MaxExec)
  OBVIOUS
<1>3. exec[r] \in Nat /\ k \in Execs /\ (exec[r] = 0 => k = 1)
  <2>1. exec[r] \in Execs
    BY <1>0 DEF TypeOK
  <2>2. MaxExec \in Nat /\ MaxExec > 1
    BY ProtocolAssumption
  <2> QED BY <1>2, <2>1, <2>2, SMTT(60) DEF Execs, min
<1>4. PICK y : y = [x EXCEPT !.state = "in_service", !.exec = k]
  OBVIOUS
<1>5. y \in RpcType /\ y.state = "in_service" /\ y.exec = k /\ y.out = x.out
  BY <1>3, <1>4 DEF RpcType
<1>6. rpc' = With("server", r, y) /\ exec' = [exec EXCEPT ![r] = k]
  BY <1>1, <1>2, <1>4 DEF ServerRecv
<1>7. /\ rpc' \in [Nodes -> [Rpcs -> RpcType \cup {NoRpc}]]
      /\ rpc'["server"][r] = y
      /\ \A m \in Nodes, q \in Rpcs : m # "server" \/ q # r => rpc'[m][q] = rpc[m][q]
  BY <1>0, <1>5, <1>6, WithFacts, SMTT(60) DEF Nodes
<1>8. /\ exec' \in [Rpcs -> Execs] /\ exec'[r] = k
      /\ \A q \in Rpcs \ {r} : exec'[q] = exec[q]
  BY <1>0, <1>3, <1>6 DEF TypeOK
<1>9. TypeOK'
  BY <1>0, <1>7, <1>8 DEF TypeOK, ServerRecv
<1>10. \A q \in Rpcs : ClientMove(q)
  BY <1>7 DEF ClientMove, ServerRecv, Nodes
<1>11. ASSUME NEW q \in Rpcs
       PROVE  ServerMove(q)
  <2>1. CASE q # r
    BY <1>7, <1>8, <2>1 DEF ServerMove, Nodes
  <2>2. CASE q = r
    <3>1. HdrsNone(y) /\ Answering(y) /\ Exists("server", r)'
      BY <1>0, <1>1, <1>5, <1>7 DEF ServerOk, HdrsNone, Answering, Exists
    <3>2. Pending(r) => k = 1
      <4>1. ~Answering(rpc["server"][r])
        BY DEF ServerRecv, Complete, Answering
      <4> QED BY <1>0, <1>3, <4>1, SMTT(60) DEF ExecOk
    <3> QED BY <1>0, <1>5, <1>7, <1>8, <2>2, <3>1, <3>2, SMTT(60) DEF ServerMove, ServerOk
  <2> QED BY <2>1, <2>2
<1>12. \A i \in DOMAIN acks' : Done(acks'[i])
  BY DEF ServerRecv, Inv, AcksOk
<1> QED BY <1>9, <1>10, <1>11, <1>12, Moves DEF ServerRecv

\* The application aborts a request.
LEMMA AbortInv ==
  ASSUME Inv, NEW r \in Rpcs, homa_ioc_abort(r)
  PROVE  Inv'
<1>0. TypeOK /\ Exists("client", r) /\ Known(r)
  BY DEF Inv, homa_ioc_abort, ClientOk, Known
<1>1. /\ "client" \in Nodes /\ UNCHANGED <<conf, exec, lost, acks, timer_ticks, up, net>>
  BY DEF homa_ioc_abort, Nodes
<1>2. CASE call' = [call EXCEPT ![r] = "aborted"] /\ rpc' = With("client", r, NoRpc)
  <2>1. /\ rpc' \in [Nodes -> [Rpcs -> RpcType \cup {NoRpc}]]
        /\ rpc'["client"][r] = NoRpc
        /\ \A m \in Nodes, q \in Rpcs : m # "client" \/ q # r => rpc'[m][q] = rpc[m][q]
    BY <1>0, <1>1, <1>2, Removed
  <2>2. TypeOK'
    BY <1>0, <1>1, <1>2, <2>1 DEF TypeOK
  <2>3. \A q \in Rpcs : ClientMove(q) /\ ServerMove(q)
    BY <1>0, <1>1, <1>2, <2>1 DEF ClientMove, ServerMove, Known, Nodes, TypeOK
  <2>4. \A i \in DOMAIN acks' : Done(acks'[i])
    BY <1>1 DEF Inv, AcksOk
  <2> QED BY <1>1, <2>2, <2>3, <2>4, Moves
<1>3. CASE call' = call /\ rpc' = With("client", r, homa_rpc_abort("client", rpc["client"][r]))
  <2>1. PICK x \in RpcType : x = rpc["client"][r] /\ x.state # "none"
    BY <1>0, <1>1, RpcTyped DEF Exists
  <2>2. PICK y : y = [x EXCEPT !.error = TRUE]
    OBVIOUS
  <2>3. y \in RpcType /\ Alike(x, y)
    BY <2>2 DEF RpcType, Alike
  <2>4. rpc' = With("client", r, y)
    BY <1>3, <2>1, <2>2 DEF homa_rpc_abort
  <2>5. NetOk({}) /\ net' \subseteq net \cup {}
    BY <1>1 DEF NetOk
  <2> QED BY <1>0, <1>1, <1>3, <2>1, <2>3, <2>4, <2>5, OneAlike
<1> QED BY <1>2, <1>3 DEF homa_ioc_abort

\* The server's socket is closed.
LEMMA CloseInv ==
  ASSUME Inv, NEW n \in Nodes, Close(n)
  PROVE  Inv'
<1>0. TypeOK /\ \A q \in Rpcs : ClientOk(q) /\ ServerOk(q)
  BY DEF Inv
<1>1. /\ rpc' \in [Nodes -> [Rpcs -> RpcType \cup {NoRpc}]]
      /\ \A q \in Rpcs : rpc'[n][q] = NoRpc
      /\ \A m \in Nodes, q \in Rpcs : m # n => rpc'[m][q] = rpc[m][q]
  BY <1>0 DEF Close, TypeOK
<1>2. /\ n = "client" => /\ call' = [q \in Rpcs |-> IF Exists(n, q) THEN "aborted" ELSE call[q]]
                         /\ lost' = lost
      /\ n = "server" => /\ lost' = [q \in Rpcs |-> lost[q] \/ Exists(n, q)]
                         /\ call' = call
      /\ up' = [up EXCEPT ![n] = FALSE]
      /\ UNCHANGED <<conf, exec, acks, timer_ticks, net>>
  BY DEF Close
<1>3. \A q \in Rpcs : lost[q] => lost'[q]
  BY <1>2 DEF Nodes
<1>4. lost' \in [Rpcs -> BOOLEAN]
  BY <1>0, <1>2 DEF TypeOK, Nodes, Exists
<1>5. TypeOK'
  BY <1>0, <1>1, <1>2, <1>4 DEF TypeOK, Nodes
<1>6. ASSUME NEW q \in Rpcs
      PROVE  ClientMove(q)
  <2>1. CASE n = "server"
    BY <1>1, <1>2, <2>1 DEF ClientMove, Nodes
  <2>2. CASE n = "client" /\ Exists("client", q)
    BY <1>0, <1>1, <1>2, <2>2 DEF ClientMove, ClientOk, Known
  <2>3. CASE n = "client" /\ ~Exists("client", q)
    BY <1>0, <1>1, <1>2, <2>3, RpcTyped DEF ClientMove, Nodes
  <2> QED BY <2>1, <2>2, <2>3 DEF Nodes
<1>7. ASSUME NEW q \in Rpcs
      PROVE  ServerMove(q)
  <2>1. CASE n = "client"
    BY <1>1, <1>2, <2>1 DEF ServerMove, Nodes
  <2>2. CASE n = "server" /\ Exists("server", q)
    BY <1>1, <1>2, <2>2 DEF ServerMove
  <2>3. CASE n = "server" /\ ~Exists("server", q)
    BY <1>0, <1>1, <1>2, <2>3, RpcTyped DEF ServerMove, Nodes
  <2> QED BY <2>1, <2>2, <2>3 DEF Nodes
<1>8. \A i \in DOMAIN acks' : Done(acks'[i])
  BY <1>2 DEF Inv, AcksOk
<1> QED BY <1>2, <1>3, <1>5, <1>6, <1>7, <1>8, Moves

\* The server's socket is opened again.
LEMMA ReopenInv ==
  ASSUME Inv, Reopen
  PROVE  Inv'
<1>1. NetOk({}) /\ net' \subseteq net \cup {} /\ up' \in [Nodes -> BOOLEAN]
  BY DEF NetOk, Reopen, Inv, TypeOK
<1> QED BY <1>1, NetOnly DEF Reopen

\* The network drops a packet.
LEMMA LoseInv ==
  ASSUME Inv, NEW p \in net, Lose(p)
  PROVE  Inv'
<1>0. TypeOK
  BY DEF Inv
<1>1. /\ net' \subseteq net
      /\ UNCHANGED <<rpc, call, exec, lost, acks, timer_ticks, up>>
      /\ conf.losses > 0 /\ conf' = [conf EXCEPT !.losses = conf.losses - 1]
  BY DEF Lose
<1>2. PICK c \in Configs : conf = [c EXCEPT !.losses = conf.losses]
  BY <1>0 DEF TypeOK
<1>3. c = [c EXCEPT !.losses = c.losses] /\ "losses" \in DOMAIN c
  BY ProtocolAssumption
<1>4. PICK l \in Nat : l = conf.losses - 1
  BY <1>0, <1>1, SMTT(60) DEF TypeOK
<1>5. conf' = [c EXCEPT !.losses = l] /\ conf'.losses = l
  BY <1>1, <1>2, <1>3, <1>4
<1>6. TypeOK'
  BY <1>0, <1>1, <1>5 DEF TypeOK
<1>7. \A r \in Rpcs : ClientMove(r) /\ ServerMove(r)
  BY <1>1 DEF ClientMove, ServerMove
<1>8. \A i \in DOMAIN acks' : Done(acks'[i])
  BY <1>1 DEF Inv, AcksOk
<1> QED BY <1>1, <1>6, <1>7, <1>8, Moves

\* The NIC has transmitted what was queued.
LEMMA NicDoneInv ==
  ASSUME Inv, NEW n \in Nodes, NEW r \in Rpcs, NicDone(n, r)
  PROVE  Inv'
<1>0. TypeOK /\ Exists(n, r)
  BY DEF Inv, NicDone
<1>1. PICK x \in RpcType : x = rpc[n][r]
  BY <1>0, RpcTyped
<1>2. x.out \in OutType
  BY DEF RpcType
<1>3. PICK o : o = [x.out EXCEPT !.tx = x.out.sent]
  OBVIOUS
<1>4. o \in OutType /\ o.hdrs = x.out.hdrs
  BY <1>2, <1>3 DEF OutType
<1>5. PICK y : y = [x EXCEPT !.out = o]
  OBVIOUS
<1>6. y \in RpcType /\ Alike(x, y)
  BY <1>4, <1>5 DEF RpcType, Alike
<1>7. y = [x EXCEPT !.out.tx = x.out.sent]
  BY <1>3, <1>5 DEF RpcType
<1>8. rpc' = With(n, r, y)
  BY <1>1, <1>7 DEF NicDone
<1>9. NetOk({}) /\ net' \subseteq net \cup {}
  BY DEF NetOk, NicDone
<1> QED BY <1>0, <1>1, <1>6, <1>8, <1>9, OneAlike DEF NicDone

\* The receiver grants more of a message.
LEMMA GrantInv ==
  ASSUME Inv, NEW n \in Nodes, NEW r \in Rpcs, Grant(n, r)
  PROVE  Inv'
<1>0. TypeOK /\ Exists(n, r)
  BY DEF Inv, Grant
<1>1. PICK x \in RpcType : x = rpc[n][r]
  BY <1>0, RpcTyped
<1>2. x.in \in InType /\ x.in.granted \in Nat
  BY DEF RpcType, InType
<1>3. PICK g \in Nat : g = x.in.granted + 1
  BY <1>2, SMTT(60)
<1>4. PICK i : i = [x.in EXCEPT !.granted = g]
  OBVIOUS
<1>5. i \in InType /\ i.got = x.in.got /\ i.length = x.in.length
  BY <1>2, <1>4 DEF InType
<1>6. PICK y : y = [x EXCEPT !.in = i]
  OBVIOUS
<1>7. y \in RpcType /\ Alike(x, y)
  BY <1>5, <1>6 DEF RpcType, Alike
<1>8. y = [x EXCEPT !.in.granted = @ + 1]
  BY <1>3, <1>4, <1>6 DEF RpcType
<1>9. rpc' = With(n, r, y)
  BY <1>1, <1>8 DEF Grant
<1>10. PICK p : p = [type |-> "GRANT", to |-> Peer(n), id |-> r, offset |-> g]
  OBVIOUS
<1>11. Send({p})
  BY <1>1, <1>3, <1>10 DEF Grant
<1>12. NetOk({p})
  <2>1. Known(r)
    BY <1>0, Sender DEF SenderOk
  <2>2. p \in PktType
    BY <1>10 DEF PktType, Peer, Nodes
  <2>3. PktOk(p)
    BY <1>10, <2>1 DEF PktOk
  <2> QED BY <2>2, <2>3 DEF NetOk
<1>13. net' \subseteq net \cup {p}
  BY <1>11, NetFacts
<1> QED BY <1>0, <1>1, <1>7, <1>9, <1>12, <1>13, OneAlike DEF Grant

\* A message that waited for buffers gets them.
LEMMA BuffersFoundInv ==
  ASSUME Inv, NEW n \in Nodes, NEW r \in Rpcs, BuffersFound(n, r)
  PROVE  Inv'
<1>0. TypeOK /\ Exists(n, r)
  BY DEF Inv, BuffersFound
<1>1. PICK x \in RpcType : x = rpc[n][r]
  BY <1>0, RpcTyped
<1>2. x.in \in InType
  BY DEF RpcType
<1>3. PICK i : i = [x.in EXCEPT !.bufs = TRUE]
  OBVIOUS
<1>4. i \in InType /\ i.got = x.in.got /\ i.length = x.in.length
  BY <1>2, <1>3 DEF InType
<1>5. PICK y : y = [x EXCEPT !.in = i]
  OBVIOUS
<1>6. y \in RpcType /\ Alike(x, y)
  BY <1>4, <1>5 DEF RpcType, Alike
<1>7. y = [x EXCEPT !.in.bufs = TRUE]
  BY <1>3, <1>5 DEF RpcType
<1>8. rpc' = With(n, r, y)
  BY <1>1, <1>7 DEF BuffersFound
<1>9. NetOk({}) /\ net' \subseteq net \cup {}
  BY DEF NetOk, BuffersFound
<1> QED BY <1>0, <1>1, <1>6, <1>8, <1>9, OneAlike DEF BuffersFound

-----------------------------------------------------------------------------
(* Packet handlers                                                         *)

\* A packet in flight is typed and true.
LEMMA InFlight ==
  ASSUME Inv, NEW p \in net
  PROVE  /\ p \in PktType /\ PktOk(p) /\ p.to \in Nodes
         /\ p.type # "UNREACHABLE" => p.id \in Rpcs /\ Known(p.id)
<1>1. p \in PktType /\ PktOk(p)
  BY DEF Inv, TypeOK
<1> QED BY <1>1 DEF PktType, PktOk, Nodes

\* A BUSY packet arrives.
LEMMA BusyInv ==
  ASSUME Inv, NEW p \in net, BusyPkt(p)
  PROVE  Inv'
<1>0. TypeOK /\ Exists(p.to, p.id) /\ p.type = "BUSY"
  BY DEF Inv, BusyPkt, Arrives
<1>1. p.to \in Nodes /\ p.id \in Rpcs
  BY <1>0, InFlight
<1>2. rpc[p.to][p.id] \in RpcType
  BY <1>0, <1>1, RpcTyped
<1>3. NetOk({}) /\ net' \subseteq net \cup {}
  BY NetFacts DEF NetOk, BusyPkt
<1>4. /\ Heard(rpc[p.to][p.id]) \in RpcType
      /\ Alike(rpc[p.to][p.id], Heard(rpc[p.to][p.id]))
  BY <1>2, HeardFacts
<1> QED BY <1>0, <1>1, <1>3, <1>4, OneAlike DEF BusyPkt

\* A packet for no RPC that needs it is dropped.
LEMMA DiscardInv ==
  ASSUME Inv, NEW p \in net, Discard(p)
  PROVE  Inv'
<1>1. NetOk({}) /\ net' \subseteq net \cup {}
  BY NetFacts DEF NetOk, Discard
<1> QED BY <1>1, NetOnly DEF Discard, Inv, TypeOK

\* A packet for a closed socket is answered by an ICMP message.
LEMMA PortUnreachableInv ==
  ASSUME Inv, NEW p \in net, PortUnreachable(p)
  PROVE  Inv'
<1>1. PICK S : S = IF p.type = "UNREACHABLE" \/ "crash" \in conf.faults
                   THEN {} ELSE {Control("UNREACHABLE", p.to, 0)}
  OBVIOUS
<1>2. PICK q : q = [type |-> "UNREACHABLE", to |-> Peer(p.to), id |-> 0]
  OBVIOUS
<1>3. q \in PktType /\ PktOk(q)
  BY <1>2, InFlight DEF PktType, PktOk, Peer, Nodes
<1>4. NetOk(S)
  BY <1>1, <1>2, <1>3 DEF NetOk, Control
<1>5. net' \subseteq net \cup S
  BY <1>1, NetFacts DEF PortUnreachable
<1> QED BY <1>4, <1>5, NetOnly DEF PortUnreachable, Inv, TypeOK

\* A RESEND for an unknown RPC is answered by UNKNOWN.
LEMMA XmitUnknownInv ==
  ASSUME Inv, NEW p \in net, homa_xmit_unknown(p)
  PROVE  Inv'
<1>1. p.type = "RESEND" /\ ~Exists(p.to, p.id)
  BY DEF homa_xmit_unknown, Arrives
<1>2. p.to \in Nodes /\ p.id \in Rpcs /\ Known(p.id)
  BY <1>1, InFlight
<1>3. p.to = "client" => Done(p.id)
  BY <1>1, <1>2 DEF Done, Waiting
<1>4. NetOk({Control("UNKNOWN", p.to, p.id)})
  BY <1>2, <1>3, ControlOk
<1>5. net' \subseteq net \cup {Control("UNKNOWN", p.to, p.id)}
  BY NetFacts DEF homa_xmit_unknown
<1> QED BY <1>4, <1>5, NetOnly DEF homa_xmit_unknown, Inv, TypeOK

\* A grant moves granted, no more.
LEMMA GrantToFacts ==
  ASSUME NEW x \in RpcType, NEW g \in Nat
  PROVE  GrantTo(x, g) \in RpcType /\ Alike(x, GrantTo(x, g))
<1>1. x.out \in OutType
  BY DEF RpcType
<1>2. PICK o : o = [x.out EXCEPT !.granted = g]
  OBVIOUS
<1>3. o \in OutType /\ o.hdrs = x.out.hdrs
  BY <1>1, <1>2 DEF OutType
<1>4. GrantTo(x, g) = [x EXCEPT !.out = o]
  BY <1>2 DEF GrantTo, RpcType
<1> QED BY <1>3, <1>4 DEF RpcType, Alike

\* An RPC that agrees with one that may send its data may send it too.
LEMMA AlikeSender ==
  ASSUME NEW n, NEW r, NEW x, SenderOk(n, r, x), NEW y \in RpcType, Alike(x, y)
  PROVE  SenderOk(n, r, y)
BY AlikeFacts DEF SenderOk, Alike

\* A GRANT packet arrives.
LEMMA GrantPktInv ==
  ASSUME Inv, NEW p \in net, homa_grant_pkt(p)
  PROVE  Inv'
<1>0. TypeOK /\ Exists(p.to, p.id) /\ p.type = "GRANT"
  BY DEF Inv, homa_grant_pkt, Arrives
<1>1. p.to \in Nodes /\ p.id \in Rpcs /\ p.offset \in Nat
  <2>1. p \in PktType
    BY InFlight
  <2> QED BY <1>0, <2>1, InFlight DEF PktType
<1>2. rpc[p.to][p.id] \in RpcType /\ SenderOk(p.to, p.id, rpc[p.to][p.id])
  BY <1>0, <1>1, RpcTyped, Sender
<1>3. PICK x \in RpcType : x = Heard(rpc[p.to][p.id]) /\ Alike(rpc[p.to][p.id], x)
  BY <1>2, HeardFacts
<1>4. x.out.granted \in Nat /\ x.out.length \in Nat
  BY DEF RpcType, OutType
<1>5. PICK g \in Nat : g = max(x.out.granted, min(p.offset, x.out.length))
  BY <1>1, <1>4 DEF max, min
<1>6. PICK y \in RpcType : y = GrantTo(x, g) /\ Alike(x, y)
  BY GrantToFacts
<1>7. SenderOk(p.to, p.id, y)
  BY <1>2, <1>3, <1>6, AlikeSender
<1> DEFINE go == x.state = "outgoing"
<1>8. /\ rpc' = With(p.to, p.id, IF go THEN homa_xmit_data(y) ELSE x)
      /\ Answer(p, IF go THEN Transmitted(p.to, p.id, y) ELSE {})
      /\ UNCHANGED <<conf, call, exec, lost, acks, timer_ticks, up>>
  BY <1>3, <1>5, <1>6 DEF homa_grant_pkt
<1> HIDE DEF go
<1>9. PICK z : z = IF go THEN homa_xmit_data(y) ELSE x
  OBVIOUS
<1>10. z \in RpcType /\ Alike(rpc[p.to][p.id], z)
  BY <1>3, <1>6, <1>9, XmitFacts DEF Alike
<1>11. PICK S : S = IF go THEN Transmitted(p.to, p.id, y) ELSE {}
  OBVIOUS
<1>12. NetOk(S)
  BY <1>0, <1>1, <1>7, <1>11, TransmittedOk DEF NetOk
<1>13. net' \subseteq net \cup S
  BY <1>8, <1>11, NetFacts
<1>14. rpc' = With(p.to, p.id, z)
  BY <1>8, <1>9
<1> QED BY <1>0, <1>1, <1>8, <1>10, <1>12, <1>13, <1>14, OneAlike

\* A RESEND packet arrives.
LEMMA ResendPktInv ==
  ASSUME Inv, NEW p \in net, homa_resend_pkt(p)
  PROVE  Inv'
<1>0. TypeOK /\ Exists(p.to, p.id) /\ p.type = "RESEND"
  BY DEF Inv, homa_resend_pkt, Arrives
<1>1. /\ p.to \in Nodes /\ p.id \in Rpcs /\ Known(p.id)
      /\ p.offset \in Nat /\ p.length \in Nat \cup {-1}
  <2>1. p \in PktType
    BY InFlight
  <2> QED BY <1>0, <2>1, InFlight DEF PktType
<1>2. PICK n \in Nodes : n = p.to
  BY <1>1
<1>3. PICK r \in Rpcs : r = p.id
  BY <1>1
<1>4. PICK x \in RpcType : x = rpc[n][r] /\ SenderOk(n, r, x)
  BY <1>0, <1>2, <1>3, RpcTyped, Sender
<1>5. PICK tx_end \in Nat : tx_end = homa_rpc_tx_end(x)
  BY TxEndNat
<1>6. PICK end \in Nat : end = IF p.length = -1 THEN tx_end ELSE p.offset + p.length
  BY <1>1, SMTT(60)
<1>7. x.out.length \in Nat
  BY DEF RpcType, OutType
<1>8. PICK g \in Nat : g = min(end, x.out.length)
  BY <1>7 DEF min
<1>9. PICK y \in RpcType : y = GrantTo(x, g) /\ Alike(x, y)
  BY GrantToFacts
<1>10. SenderOk(n, r, y)
  BY <1>4, <1>9, AlikeSender
<1>11. PICK m \in Nat : m = min(end, tx_end)
  BY DEF min
<1> DEFINE busy == {Control("BUSY", n, r)}
           more == end > x.out.granted
           S == homa_resend_data(n, r, x, p.offset, m)
                \cup (IF more THEN Transmitted(n, r, y) ELSE {})
                \cup (IF p.offset >= tx_end THEN busy ELSE {})
<1>12. /\ \/ rpc' = rpc /\ Answer(p, busy)
          \/ /\ rpc' = IF more THEN With(n, r, homa_xmit_data(y)) ELSE rpc
             /\ Answer(p, S)
       /\ UNCHANGED <<conf, call, exec, lost, acks, timer_ticks, up>>
  BY <1>2, <1>3, <1>4, <1>5, <1>6, <1>8, <1>9, <1>11 DEF homa_resend_pkt
<1>13. NetOk(busy)
  BY <1>1, <1>3, ControlOk
<1>14. NetOk(homa_resend_data(n, r, x, p.offset, m))
  BY <1>1, <1>4, ResendDataOk
<1>15. NetOk(Transmitted(n, r, y))
  BY <1>0, <1>10, TransmittedOk
<1>16. NetOk(S)
  BY <1>13, <1>14, <1>15 DEF NetOk
<1>17. homa_xmit_data(y) \in RpcType /\ Alike(x, homa_xmit_data(y))
  BY <1>9, XmitFacts DEF Alike
<1> HIDE DEF busy, more, S
<1>18. CASE rpc' = rpc /\ Answer(p, busy)
  <2>1. net' \subseteq net \cup busy
    BY <1>18, NetFacts
  <2> QED BY <1>12, <1>13, <1>18, <2>1, NetOnly DEF Inv, TypeOK
<1>19. CASE rpc' = rpc /\ Answer(p, S)
  <2>1. net' \subseteq net \cup S
    BY <1>19, NetFacts
  <2> QED BY <1>12, <1>16, <1>19, <2>1, NetOnly DEF Inv, TypeOK
<1>20. CASE rpc' = With(n, r, homa_xmit_data(y)) /\ Answer(p, S)
  <2>1. net' \subseteq net \cup S
    BY <1>20, NetFacts
  <2>2. Exists(n, r)
    BY <1>0, <1>2, <1>3
  <2> QED BY <1>4, <1>12, <1>16, <1>17, <1>20, <2>1, <2>2, OneAlike
<1> QED BY <1>12, <1>18, <1>19, <1>20

\* Server RPCs that are acknowledged leave the table.
LEMMA WithoutFacts ==
  ASSUME NEW t \in [Nodes -> [Rpcs -> RpcType \cup {NoRpc}]], NEW S,
         NEW u, u = Without(t, S)
  PROVE  /\ u \in [Nodes -> [Rpcs -> RpcType \cup {NoRpc}]]
         /\ u["client"] = t["client"]
         /\ \A q \in Rpcs : u["server"][q] = IF q \in S THEN NoRpc ELSE t["server"][q]
BY DEF Without, Nodes

\* An UNKNOWN packet arrives: the client starts again, the server forgets.
LEMMA RpcUnknownInv ==
  ASSUME Inv, NEW p \in net, homa_rpc_unknown_pkt(p)
  PROVE  Inv'
<1>0. /\ TypeOK /\ Exists(p.to, p.id) /\ p.type = "UNKNOWN"
      /\ UNCHANGED <<conf, call, exec, lost, acks, timer_ticks, up>>
  BY DEF Inv, homa_rpc_unknown_pkt, Arrives
<1>1. /\ p.to \in Nodes /\ p.id \in Rpcs /\ (p.to = "server" => Done(p.id))
  BY <1>0, InFlight DEF PktOk
<1>2. SenderOk(p.to, p.id, rpc[p.to][p.id]) /\ rpc[p.to][p.id] \in RpcType
  BY <1>0, <1>1, Sender, RpcTyped
<1>3. CASE p.to = "client"
  <2>1. PICK S : S = IF rpc[p.to][p.id].state = "outgoing"
                     THEN homa_resend_data(p.to, p.id, rpc[p.to][p.id], 0,
                                           homa_rpc_tx_end(rpc[p.to][p.id]))
                     ELSE {}
    OBVIOUS
  <2>2. rpc' = rpc /\ Answer(p, S)
    BY <1>3, <2>1 DEF homa_rpc_unknown_pkt
  <2>3. NetOk(S)
    BY <1>1, <1>2, <2>1, TxEndNat, ResendDataOk DEF NetOk
  <2>4. net' \subseteq net \cup S
    BY <2>2, NetFacts
  <2> QED BY <1>0, <2>2, <2>3, <2>4, NetOnly DEF TypeOK
<1>4. CASE p.to = "server"
  <2>1. rpc' = With("server", p.id, NoRpc) /\ Answer(p, {})
    BY <1>4 DEF homa_rpc_unknown_pkt
  <2>2. net' \subseteq net
    BY <2>1, NetFacts, SMTT(60)
  <2>3. /\ rpc' \in [Nodes -> [Rpcs -> RpcType \cup {NoRpc}]]
        /\ rpc'["server"][p.id] = NoRpc
        /\ \A m \in Nodes, q \in Rpcs : m # "server" \/ q # p.id => rpc'[m][q] = rpc[m][q]
    BY <1>0, <1>1, <2>1, Removed DEF Nodes
  <2>4. TypeOK'
    BY <1>0, <2>2, <2>3 DEF TypeOK
  <2>5. \A q \in Rpcs : ClientMove(q)
    BY <1>0, <2>3 DEF ClientMove, Nodes
  <2>6. \A q \in Rpcs : ServerMove(q)
    BY <1>0, <1>1, <1>4, <2>3 DEF ServerMove, Nodes, Done, Pending
  <2>7. \A i \in DOMAIN acks' : Done(acks'[i])
    BY <1>0 DEF Inv, AcksOk
  <2> QED BY <1>0, <2>2, <2>4, <2>5, <2>6, <2>7, Moves
<1> QED BY <1>1, <1>3, <1>4 DEF Nodes

\* A NEED_ACK packet arrives.
LEMMA NeedAckInv ==
  ASSUME Inv, NEW p \in net, homa_need_ack_pkt(p)
  PROVE  Inv'
<1>0. /\ TypeOK /\ p.type = "NEED_ACK"
      /\ UNCHANGED <<conf, rpc, call, exec, lost, timer_ticks, up>>
  BY DEF Inv, homa_need_ack_pkt, Arrives
<1>1. p.to = "client" /\ p.id \in Rpcs /\ Known(p.id)
  <2>1. p \in PktType
    BY InFlight
  <2> QED BY <1>0, <2>1, InFlight DEF PktType
<1>2. PICK x : x = rpc["client"][p.id]
  OBVIOUS
<1>3. PICK A : A = Range(acks)
  OBVIOUS
<1>4. PICK q : q = [type |-> "ACK", to |-> "server", id |-> p.id, acks |-> A]
  OBVIOUS
<1>5. CASE Ackable(x)
  <2>1. Answer(p, {q}) /\ acks' = <<>>
    BY <1>1, <1>2, <1>3, <1>4, <1>5 DEF homa_need_ack_pkt
  <2>2. Done(p.id)
    BY <1>1, <1>2, <1>5 DEF Done, Waiting, Ackable, Exists
  <2>3. \A a \in A : a \in Rpcs /\ Done(a)
    BY <1>3, AckFacts DEF Nodes
  <2>4. q \in PktType
    BY <1>1, <1>4, <2>3 DEF PktType
  <2>5. PktOk(q)
    BY <1>1, <1>4, <2>2, <2>3 DEF PktOk, Acked
  <2>6. net' \subseteq net \cup {q}
    BY <2>1, NetFacts
  <2>7. TypeOK'
    BY <1>0, <2>1, <2>4, <2>6, SMTT(60) DEF TypeOK
  <2>8. \A r \in Rpcs : ClientMove(r) /\ ServerMove(r)
    BY <1>0 DEF ClientMove, ServerMove
  <2>9. \A i \in DOMAIN acks' : Done(acks'[i])
    BY <2>1, SMTT(60)
  <2> QED BY <1>0, <2>5, <2>6, <2>7, <2>8, <2>9, Moves
<1>6. CASE ~Ackable(x)
  <2>1. PICK S : S = homa_request_retrans("client", p.id, x)
    OBVIOUS
  <2>2. Answer(p, S) /\ acks' = acks
    BY <1>1, <1>2, <1>6, <2>1 DEF homa_need_ack_pkt
  <2>3. x \in RpcType
    BY <1>0, <1>1, <1>2, <1>6, RpcTyped, SMTT(60) DEF Ackable, NoRpc, Nodes
  <2>4. NetOk(S)
    BY <1>1, <2>1, <2>3, RetransOk DEF Nodes
  <2>5. net' \subseteq net \cup S
    BY <2>2, NetFacts
  <2> QED BY <1>0, <2>2, <2>4, <2>5, NetOnly DEF TypeOK
<1> QED BY <1>5, <1>6

\* An ACK packet arrives and the server forgets the RPCs it names.
LEMMA AckPktInv ==
  ASSUME Inv, NEW p \in net, homa_ack_pkt(p)
  PROVE  Inv'
<1>0. /\ TypeOK /\ p.type = "ACK"
      /\ rpc' = Without(rpc, Acked(p)) /\ Answer(p, {})
      /\ UNCHANGED <<conf, call, exec, lost, acks, timer_ticks, up>>
  BY DEF Inv, homa_ack_pkt, Arrives
<1>1. \A a \in Acked(p) : Done(a)
  BY <1>0, InFlight DEF PktOk
<1>2. net' \subseteq net
  BY <1>0, NetFacts, SMTT(60)
<1>3. /\ rpc' \in [Nodes -> [Rpcs -> RpcType \cup {NoRpc}]]
      /\ rpc'["client"] = rpc["client"]
      /\ \A q \in Rpcs : rpc'["server"][q] = IF q \in Acked(p) THEN NoRpc
                                             ELSE rpc["server"][q]
  BY <1>0, WithoutFacts, SMTT(60) DEF TypeOK
<1>4. TypeOK'
  BY <1>0, <1>2, <1>3 DEF TypeOK
<1>5. \A q \in Rpcs : ClientMove(q)
  BY <1>0, <1>3 DEF ClientMove
<1>6. \A q \in Rpcs : ServerMove(q)
  BY <1>0, <1>1, <1>3 DEF ServerMove, Done, Pending
<1>7. \A i \in DOMAIN acks' : Done(acks'[i])
  BY <1>0 DEF Inv, AcksOk
<1> QED BY <1>0, <1>2, <1>4, <1>5, <1>6, <1>7, Moves

\* A client RPC is marked; a server RPC ends.
LEMMA AbortFacts ==
  ASSUME NEW n \in Nodes, NEW x \in RpcType \cup {NoRpc}
  PROVE  /\ x = NoRpc => homa_rpc_abort(n, x) = NoRpc
         /\ x # NoRpc /\ n = "client" => /\ homa_rpc_abort(n, x) \in RpcType
                                         /\ Alike(x, homa_rpc_abort(n, x))
         /\ n = "server" => homa_rpc_abort(n, x) = NoRpc
<1>1. CASE x = NoRpc
  BY <1>1 DEF homa_rpc_abort, NoRpc
<1>2. CASE x \in RpcType
  <2>1. x.state # "none" /\ x # NoRpc
    BY <1>2, SMTT(60) DEF RpcType, NoRpc
  <2>2. CASE n = "client"
    <3>1. homa_rpc_abort(n, x) = [x EXCEPT !.error = TRUE]
      BY <2>1, <2>2 DEF homa_rpc_abort
    <3>2. [x EXCEPT !.error = TRUE] \in RpcType /\ Alike(x, [x EXCEPT !.error = TRUE])
      BY <1>2 DEF RpcType, Alike
    <3> QED BY <2>1, <2>2, <3>1, <3>2
  <2>3. CASE n = "server"
    BY <2>1, <2>3 DEF homa_rpc_abort
  <2> QED BY <2>2, <2>3 DEF Nodes
<1> QED BY <1>1, <1>2

\* A client RPC that goes on as it was moves as the invariant allows.
LEMMA AlikeClientMove ==
  ASSUME Inv, NEW r \in Rpcs, Exists("client", r), call'[r] = call[r],
         rpc'["client"][r] \in RpcType, Alike(rpc["client"][r], rpc'["client"][r])
  PROVE  ClientMove(r)
<1>1. ClientOk(r)
  BY DEF Inv
<1>2. rpc'["client"][r].state # "none"
  BY DEF RpcType
<1> QED BY <1>1, <1>2, AlikeFacts DEF ClientMove, ClientOk, Exists

\* A server RPC that keeps what the invariant looks at is a server's move.
LEMMA AlikeServerMove ==
  ASSUME Inv, NEW r \in Rpcs, Exists("server", r), exec'[r] = exec[r],
         rpc'["server"][r] \in RpcType, Alike(rpc["server"][r], rpc'["server"][r])
  PROVE  ServerMove(r)
<1>1. ServerOk(r) /\ ExecOk(r)
  BY DEF Inv
<1>2. rpc'["server"][r].state # "none"
  BY DEF RpcType
<1>3. rpc'["server"][r].exec = rpc["server"][r].exec
  BY DEF Alike
<1> QED BY <1>1, <1>2, <1>3, AlikeFacts DEF ServerMove, ServerOk, ExecOk, Exists

\* homa_err_handler aborts the RPCs with a port that is gone.
LEMMA ErrHandlerInv ==
  ASSUME Inv, NEW p \in net, homa_err_handler(p)
  PROVE  Inv'
<1>0. TypeOK /\ p.to \in Nodes
  BY InFlight DEF Inv
<1>1. PICK n \in Nodes : n = p.to
  BY <1>0
<1>2. /\ rpc' = [rpc EXCEPT ![n] = [r \in Rpcs |-> homa_rpc_abort(n, rpc[n][r])]]
      /\ lost' = [r \in Rpcs |-> lost[r] \/ (n = "server" /\ Exists(n, r))]
      /\ Answer(p, {})
      /\ UNCHANGED <<conf, call, exec, acks, timer_ticks, up>>
  BY <1>1 DEF homa_err_handler
<1>3. \A r \in Rpcs : homa_rpc_abort(n, rpc[n][r]) \in RpcType \cup {NoRpc}
  BY <1>0, RpcTyped, AbortFacts DEF Nodes
<1>4. /\ rpc' \in [Nodes -> [Rpcs -> RpcType \cup {NoRpc}]]
      /\ \A r \in Rpcs : rpc'[n][r] = homa_rpc_abort(n, rpc[n][r])
      /\ \A m \in Nodes, r \in Rpcs : m # n => rpc'[m][r] = rpc[m][r]
  BY <1>0, <1>2, <1>3 DEF TypeOK
<1>5. /\ lost' \in [Rpcs -> BOOLEAN]
      /\ \A r \in Rpcs : lost[r] => lost'[r]
      /\ n = "server" => \A r \in Rpcs : Exists(n, r) => lost'[r]
  BY <1>0, <1>2 DEF TypeOK, Exists
<1>6. net' \subseteq net
  BY <1>2, NetFacts, SMTT(60)
<1>7. TypeOK'
  BY <1>0, <1>2, <1>4, <1>5, <1>6 DEF TypeOK
<1>8. ASSUME NEW r \in Rpcs
      PROVE  ClientMove(r)
  <2>1. CASE n = "server"
    BY <1>2, <1>4, <2>1 DEF ClientMove, Nodes
  <2>2. CASE n = "client" /\ Exists("client", r)
    <3>1. rpc[n][r] \in RpcType /\ rpc[n][r] # NoRpc
      BY <1>0, <2>2, RpcTyped, SMTT(60) DEF Exists, NoRpc
    <3>2. rpc'[n][r] \in RpcType /\ Alike(rpc[n][r], rpc'[n][r])
      BY <1>4, <2>2, <3>1, AbortFacts
    <3> QED BY <1>2, <2>2, <3>2, AlikeClientMove
  <2>3. CASE n = "client" /\ ~Exists("client", r)
    BY <1>0, <1>2, <1>4, <2>3, RpcTyped, AbortFacts, SMTT(60) DEF ClientMove
  <2> QED BY <2>1, <2>2, <2>3 DEF Nodes
<1>9. ASSUME NEW r \in Rpcs
      PROVE  ServerMove(r)
  <2>1. CASE n = "client"
    BY <1>2, <1>4, <2>1 DEF ServerMove, Nodes
  <2>2. CASE n = "server"
    <3>1. rpc'["server"][r] = NoRpc
      BY <1>0, <1>4, <2>2, RpcTyped, AbortFacts
    <3>2. ~Exists("server", r) => rpc["server"][r] = NoRpc
      BY <1>0, RpcTyped DEF Nodes
    <3> QED BY <1>2, <1>5, <2>2, <3>1, <3>2 DEF ServerMove
  <2> QED BY <2>1, <2>2 DEF Nodes
<1>10. \A i \in DOMAIN acks' : Done(acks'[i])
  BY <1>2 DEF Inv, AcksOk
<1> QED BY <1>5, <1>6, <1>7, <1>8, <1>9, <1>10, Moves

\* The RPC a DATA packet is for, before the packet is added to it.
LEMMA DataRpcFacts ==
  ASSUME TypeOK, NEW p \in PktType, p.type = "DATA", NEW b \in BOOLEAN,
         p.to = "server" \/ Exists(p.to, p.id),
         NEW o, o = rpc[p.to][p.id], NEW x, x = DataRpc(p, b)
  PROVE  /\ x \in RpcType
         /\ \/ o \in RpcType /\ Alike(o, x)
            \/ /\ p.to = "server" /\ o = NoRpc
               /\ x.state = "incoming" /\ x.exec = 1 /\ x.out.hdrs = <<>>
            \/ /\ p.to = "client" /\ o \in RpcType /\ o.state = "outgoing"
               /\ x.state = "incoming" /\ x.exec = o.exec
               /\ x.out.hdrs = o.out.hdrs /\ Received(x.in) = {}
<1>1. p.to \in Nodes /\ p.id \in Rpcs /\ p.incoming \in Nat
  BY DEF PktType
<1>2. o \in RpcType \cup {NoRpc} /\ (p.to = "client" => o \in RpcType)
  BY <1>1, RpcTyped DEF Nodes
<1>3. PICK i : i = homa_message_in_init(p.to, p.incoming, b)
  OBVIOUS
<1>4. i \in InType /\ Received(i) = {}
  BY <1>1, <1>3, InInitTyped
<1>5. CASE p.to = "server" /\ o = NoRpc
  <2>1. x = [NewRpc("incoming") EXCEPT !.in = i]
    BY <1>3, <1>5, SMTT(60) DEF DataRpc, NoRpc
  <2>2. PICK w \in RpcType : /\ w = NewRpc("incoming") /\ w.state = "incoming"
                             /\ w.exec = 1 /\ w.out = NoOut
    BY NewRpcTyped
  <2>3. x = [w EXCEPT !.in = i]
    BY <2>1, <2>2
  <2>4. x \in RpcType /\ x.state = "incoming" /\ x.exec = 1 /\ x.out = NoOut
    BY <1>4, <2>2, <2>3 DEF RpcType
  <2> QED BY <1>5, <2>4, SMTT(60) DEF NoOut
<1>6. CASE p.to = "client" /\ o.state = "outgoing"
  <2>1. PICK w \in RpcType : w = Heard(o) /\ Alike(o, w)
    BY <1>2, <1>6, HeardFacts
  <2>2. x = [w EXCEPT !.state = "incoming", !.in = i]
    BY <1>3, <1>6, <2>1 DEF DataRpc
  <2>3. /\ x \in RpcType /\ x.state = "incoming" /\ x.exec = w.exec /\ x.out = w.out
        /\ x.in = i
    BY <1>4, <2>2 DEF RpcType
  <2> QED BY <1>2, <1>4, <1>6, <2>1, <2>3 DEF Alike
<1>7. CASE o \in RpcType /\ ~(p.to = "client" /\ o.state = "outgoing")
  <2>1. o.state # "none"
    BY <1>7 DEF RpcType
  <2>2. x = Heard(o)
    BY <1>7, <2>1 DEF DataRpc
  <2> QED BY <1>7, <2>2, HeardFacts
<1> QED BY <1>1, <1>2, <1>5, <1>6, <1>7 DEF Nodes

\* A packet fills a place that was empty, or is dropped.
LEMMA AddFacts ==
  ASSUME NEW x \in RpcType, NEW p, p.exec \in Execs,
         NEW y, y = IF Accepts(x) THEN homa_add_packet(x, p) ELSE x
  PROVE  /\ y \in RpcType /\ y.state = x.state /\ y.exec = x.exec
         /\ y.out = x.out /\ y.in.length = x.in.length
         /\ DOMAIN y.in.got = DOMAIN x.in.got
         /\ Received(x.in) \subseteq Received(y.in)
         /\ \A i \in Received(y.in) :
              \/ i \in Received(x.in) /\ y.in.got[i] = x.in.got[i]
              \/ i \in DOMAIN x.in.got \ Received(x.in) /\ y.in.got[i] = p.exec
<1>1. CASE y = x
  BY <1>1 DEF Received
<1>2. CASE /\ x.in.got[p.offset] = 0
           /\ y = [x EXCEPT !.in.got[p.offset] = p.exec]
  <2>1. x.in \in InType /\ x.in.got \in GotType
    BY DEF RpcType, InType
  <2>2. PICK len \in Lengths : x.in.got \in [0 .. len - 1 -> Execs]
    BY <2>1 DEF GotType
  <2>3. PICK g : g = [x.in.got EXCEPT ![p.offset] = p.exec]
    OBVIOUS
  <2>4. /\ g \in [0 .. len - 1 -> Execs] /\ DOMAIN g = DOMAIN x.in.got
        /\ \A i \in DOMAIN g : g[i] = IF i = p.offset THEN p.exec ELSE x.in.got[i]
    BY <2>2, <2>3
  <2>5. g \in GotType
    BY <2>4 DEF GotType
  <2>6. PICK k : k = [x.in EXCEPT !.got = g]
    OBVIOUS
  <2>7. k \in InType /\ k.got = g /\ k.length = x.in.length
    BY <2>1, <2>5, <2>6 DEF InType
  <2>8. y = [x EXCEPT !.in = k]
    BY <1>2, <2>1, <2>3, <2>6 DEF RpcType, InType
  <2>9. y \in RpcType /\ y.state = x.state /\ y.exec = x.exec /\ y.out = x.out /\ y.in = k
    BY <2>7, <2>8 DEF RpcType
  <2>10. Received(x.in) \subseteq Received(y.in)
    BY <1>2, <2>4, <2>7, <2>9 DEF Received
  <2>11. \A i \in Received(y.in) :
            \/ i \in Received(x.in) /\ y.in.got[i] = x.in.got[i]
            \/ i \in DOMAIN x.in.got \ Received(x.in) /\ y.in.got[i] = p.exec
    BY <1>2, <2>4, <2>7, <2>9 DEF Received
  <2> QED BY <2>4, <2>7, <2>9, <2>10, <2>11
<1> QED BY <1>1, <1>2 DEF homa_add_packet

\* A data packet of a response goes on with the client's RPC.
LEMMA DataClientMove ==
  ASSUME Inv, NEW p \in net, p.type = "DATA", p.to = "client",
         NEW r \in Rpcs, r = p.id, Exists("client", r), call' = call,
         NEW b \in BOOLEAN, NEW x, x = DataRpc(p, b),
         NEW y, y = IF Accepts(x) THEN homa_add_packet(x, p) ELSE x,
         rpc'["client"][r] = y
  PROVE  ClientMove(r)
<1>0. p \in PktType /\ PktOk(p) /\ TypeOK /\ ClientOk(r)
  BY InFlight DEF Inv
<1>1. p.exec \in Execs
  BY <1>0 DEF PktType
<1>2. PICK o \in RpcType : o = rpc["client"][r]
  BY <1>0, RpcTyped DEF Nodes
<1>3. /\ x \in RpcType
      /\ \/ Alike(o, x)
         \/ /\ o.state = "outgoing" /\ x.out.hdrs = o.out.hdrs
            /\ Received(x.in) = {}
  <2>1. o # NoRpc
    BY <1>2, SMTT(60) DEF NoRpc, RpcType
  <2>2. rpc[p.to][p.id] = o
    BY <1>2
  <2>3. /\ x \in RpcType
        /\ \/ o \in RpcType /\ Alike(o, x)
           \/ o = NoRpc
           \/ o.state = "outgoing" /\ x.out.hdrs = o.out.hdrs /\ Received(x.in) = {}
    <3>1. Exists(p.to, p.id) /\ o = rpc[p.to][p.id] /\ p \in PktType /\ TypeOK
      BY <1>0, <2>2 DEF Exists
    <3>2. p.type = "DATA" /\ b \in BOOLEAN /\ x = DataRpc(p, b)
      OBVIOUS
    <3>3. /\ x \in RpcType
          /\ \/ o \in RpcType /\ Alike(o, x)
             \/ p.to = "server" /\ o = NoRpc
             \/ o.state = "outgoing" /\ x.out.hdrs = o.out.hdrs /\ Received(x.in) = {}
      BY ONLY <3>1, <3>2, DataRpcFacts, SMTT(60)
    <3> QED BY <3>3
  <2> QED BY <2>1, <2>3
<1>4. /\ y \in RpcType /\ y.state = x.state /\ y.out = x.out
      /\ y.in.length = x.in.length /\ DOMAIN y.in.got = DOMAIN x.in.got
      /\ Received(x.in) \subseteq Received(y.in)
      /\ \A i \in Received(y.in) :
           \/ i \in Received(x.in) /\ y.in.got[i] = x.in.got[i]
           \/ i \in DOMAIN x.in.got \ Received(x.in) /\ y.in.got[i] = p.exec
  <2>1. x \in RpcType
    BY <1>3
  <2>2. y = IF Accepts(x) THEN homa_add_packet(x, p) ELSE x
    OBVIOUS
  <2> QED BY ONLY <1>1, <2>1, <2>2, AddFacts, SMTT(60)
<1>5. HdrsDone(y)
  BY <1>0, <1>2, <1>3, <1>4 DEF ClientOk, HdrsDone, Alike
<1>6. Complete(o) => Complete(x)
  BY <1>3, AlikeFacts DEF Complete
<1>7. Complete(o) => Complete(y)
  BY <1>4, <1>6 DEF Complete, Received
<1>8. ASSUME ~lost[r]
      PROVE  FirstOnly(y)
  <2>1. FirstOnly(x)
    <3>1. FirstOnly(o)
      BY <1>0, <1>2, <1>8 DEF ClientOk
    <3> QED BY <1>3, <3>1, AlikeFacts, SMTT(60) DEF FirstOnly
  <2>2. CASE Complete(o)
    BY <1>4, <1>6, <2>1, <2>2 DEF Complete, FirstOnly
  <2>3. CASE ~Complete(o)
    <3>1. p.exec = 1
      BY <1>0, <1>2, <1>8, <2>3 DEF PktOk, Pending, Waiting
    <3> QED BY <1>4, <2>1, <3>1 DEF FirstOnly
  <2> QED BY <2>2, <2>3
<1>9. y.state # "none"
  BY <1>4 DEF RpcType
<1> QED BY <1>2, <1>5, <1>7, <1>8, <1>9 DEF ClientMove, Exists

\* A data packet of a request starts the server's RPC or goes on with it.
LEMMA DataServerMove ==
  ASSUME Inv, NEW p \in net, p.type = "DATA", p.to = "server",
         NEW r \in Rpcs, r = p.id, exec' = exec,
         NEW b \in BOOLEAN, NEW x, x = DataRpc(p, b),
         NEW y, y = IF Accepts(x) THEN homa_add_packet(x, p) ELSE x,
         rpc'["server"][r] = y
  PROVE  ServerMove(r)
<1>0. /\ p \in PktType /\ PktOk(p) /\ TypeOK /\ ServerOk(r) /\ ExecOk(r) /\ Known(r)
  BY InFlight DEF Inv
<1>1. p.exec \in Execs
  BY <1>0 DEF PktType
<1>2. PICK o : o = rpc["server"][r]
  OBVIOUS
<1>3. /\ x \in RpcType
      /\ \/ o \in RpcType /\ Alike(o, x)
         \/ o = NoRpc /\ x.exec = 1 /\ x.out.hdrs = <<>>
  BY <1>0, <1>2, DataRpcFacts, SMTT(60)
<1>4. y \in RpcType /\ y.state = x.state /\ y.exec = x.exec /\ y.out = x.out
  BY <1>1, <1>3, AddFacts, SMTT(60)
<1>5. CASE o \in RpcType /\ Alike(o, x)
  <2>1. Exists("server", r)
    BY <1>2, <1>5 DEF Exists, RpcType
  <2>2. HdrsNone(y) /\ y.exec = o.exec /\ y.state = o.state
    BY <1>0, <1>2, <1>4, <1>5, <2>1, SMTT(60) DEF ServerOk, HdrsNone, Alike
  <2> QED BY <1>0, <1>2, <1>4, <2>1, <2>2
      DEF ServerMove, ServerOk, ExecOk, Exists, Answering
<1>6. CASE o = NoRpc /\ x.exec = 1 /\ x.out.hdrs = <<>>
  <2>1. HdrsNone(y) /\ y.exec = 1 /\ y.state # "none"
    BY <1>4, <1>6, SMTT(60) DEF HdrsNone, RpcType
  <2>2. Pending(r) => ~(exec[r] > 0) /\ exec[r] <= 1
    BY <1>0, <1>2, <1>6, SMTT(60) DEF ExecOk, Answering, NoRpc
  <2> QED BY <1>0, <2>1, <2>2 DEF ServerMove, Exists
<1> QED BY <1>3, <1>5, <1>6

\* A DATA packet arrives.
LEMMA DataPktInv ==
  ASSUME Inv, NEW p \in net, homa_data_pkt(p)
  PROVE  Inv'
<1>0. /\ TypeOK /\ p.type = "DATA" /\ (p.to = "server" \/ Exists(p.to, p.id))
      /\ Answer(p, {}) /\ UNCHANGED <<conf, call, exec, lost, acks, timer_ticks, up>>
  BY DEF Inv, homa_data_pkt, Arrives
<1>1. /\ p \in PktType /\ p.to \in Nodes /\ p.id \in Rpcs /\ p.exec \in Execs
      /\ p.ack = 0 \/ Done(p.ack)
  <2>1. p \in PktType /\ PktOk(p) /\ p.to \in Nodes /\ p.id \in Rpcs
    BY <1>0, InFlight
  <2> QED BY <1>0, <2>1 DEF PktType, PktOk
<1>2. PICK b \in BOOLEAN :
        LET x == DataRpc(p, b)
            y == IF Accepts(x) THEN homa_add_packet(x, p) ELSE x
        IN  rpc' = Without(With(p.to, p.id, y), {p.ack})
  BY DEF homa_data_pkt
<1>3. PICK x : x = DataRpc(p, b)
  OBVIOUS
<1>4. PICK y : y = IF Accepts(x) THEN homa_add_packet(x, p) ELSE x
  OBVIOUS
<1>5. y \in RpcType
  BY <1>0, <1>1, <1>3, <1>4, DataRpcFacts, AddFacts
<1>6. PICK t : t = With(p.to, p.id, y)
  OBVIOUS
<1>7. /\ t \in [Nodes -> [Rpcs -> RpcType \cup {NoRpc}]]
      /\ t[p.to][p.id] = y
      /\ \A m \in Nodes, q \in Rpcs : m # p.to \/ q # p.id => t[m][q] = rpc[m][q]
  BY <1>0, <1>1, <1>5, <1>6, WithFacts, SMTT(60)
<1>8. rpc' = Without(t, {p.ack})
  BY <1>2, <1>3, <1>4, <1>6
<1>9. /\ rpc' \in [Nodes -> [Rpcs -> RpcType \cup {NoRpc}]]
      /\ rpc'["client"] = t["client"]
      /\ \A q \in Rpcs : rpc'["server"][q] = IF q \in {p.ack} THEN NoRpc ELSE t["server"][q]
  BY <1>7, <1>8, WithoutFacts, SMTT(60)
<1>10. net' \subseteq net
  BY <1>0, NetFacts, SMTT(60)
<1>11. TypeOK'
  BY <1>0, <1>9, <1>10 DEF TypeOK
<1>12. ASSUME NEW q \in Rpcs
       PROVE  ClientMove(q)
  <2>1. CASE p.to = "client" /\ q = p.id
    BY <1>0, <1>3, <1>4, <1>7, <1>9, <2>1, DataClientMove, SMTT(60)
  <2>2. CASE ~(p.to = "client" /\ q = p.id)
    BY <1>0, <1>7, <1>9, <2>2 DEF ClientMove, Nodes
  <2> QED BY <2>1, <2>2
<1>13. ASSUME NEW q \in Rpcs
       PROVE  ServerMove(q)
  <2>1. CASE q = p.ack
    <3>1. Done(q)
      BY <1>1, <2>1, ProtocolAssumption
    <3> QED BY <1>0, <1>9, <2>1, <3>1 DEF ServerMove, Done, Pending
  <2>2. CASE q # p.ack /\ p.to = "server" /\ q = p.id
    BY <1>0, <1>3, <1>4, <1>7, <1>9, <2>2, DataServerMove, SMTT(60)
  <2>3. CASE q # p.ack /\ ~(p.to = "server" /\ q = p.id)
    BY <1>0, <1>7, <1>9, <2>3 DEF ServerMove, Nodes
  <2> QED BY <2>1, <2>2, <2>3
<1>14. \A i \in DOMAIN acks' : Done(acks'[i])
  BY <1>0 DEF Inv, AcksOk
<1> QED BY <1>0, <1>10, <1>11, <1>12, <1>13, <1>14, Moves

-----------------------------------------------------------------------------
(* The timer                                                               *)

\* A pass of the timer leaves an RPC as it is but for its counters and its
\* error, or gives up a server RPC whose request is incomplete.
LEMMA TimerRpcFacts ==
  ASSUME TypeOK, NEW n \in Nodes, NEW x \in RpcType, NEW now \in Nat,
         NEW y, y = homa_timer_check_rpc(n, x, now)
  PROVE  \/ y \in RpcType /\ Alike(x, y)
         \/ y = NoRpc /\ n = "server" /\ x.state = "incoming"
<1>1. conf.timeout_ticks \in Nat \ {0}
  BY ConfFacts
<1>2. x.silent_ticks \in Nat /\ x.done_timer_ticks \in Nat
  BY DEF RpcType
<1>3. PICK s \in Nat : s = Silent(n, x)
  BY <1>1, <1>2, SMTT(60) DEF Silent, min
<1>4. PICK d \in Nat : d = IF AwaitsAck(n, x) /\ x.done_timer_ticks = 0
                            THEN now ELSE x.done_timer_ticks
  BY <1>2
<1>5. PICK w : w = [x EXCEPT !.silent_ticks = s, !.done_timer_ticks = d]
  OBVIOUS
<1>6. w \in RpcType /\ Alike(x, w)
  BY <1>5 DEF RpcType, Alike
<1>7. w = [x EXCEPT !.silent_ticks = Silent(n, x),
                    !.done_timer_ticks =
                        IF AwaitsAck(n, x) /\ @ = 0 THEN now ELSE @]
  BY <1>3, <1>4, <1>5 DEF RpcType
<1>8. y = IF TimedOut(n, x) THEN homa_rpc_abort(n, w) ELSE w
  BY <1>7 DEF homa_timer_check_rpc
<1>9. CASE ~TimedOut(n, x)
  BY <1>6, <1>8, <1>9
<1>10. CASE TimedOut(n, x) /\ n = "client"
  <2>1. w # NoRpc
    BY <1>6, SMTT(60) DEF RpcType, NoRpc
  <2>2. y \in RpcType /\ Alike(w, y)
    BY <1>6, <1>8, <1>10, <2>1, AbortFacts
  <2> QED BY <1>6, <2>2 DEF Alike
<1>11. CASE TimedOut(n, x) /\ n = "server"
  <2>1. y = NoRpc
    BY <1>6, <1>8, <1>11, AbortFacts
  <2>2. Silent(n, x) # 0
    BY <1>1, <1>3, <1>11, SMTT(60) DEF TimedOut
  <2>3. x.state = "incoming"
    BY <1>11, <2>2 DEF Silent, Calm
  <2> QED BY <1>11, <2>1, <2>3
<1> QED BY <1>9, <1>10, <1>11 DEF Nodes

\* What the timer sends is true.
LEMMA TimerPktsOk ==
  ASSUME TypeOK, NEW n \in Nodes, NEW r \in Rpcs, Known(r), NEW x \in RpcType,
         NEW now \in Nat
  PROVE  NetOk(TimerPkts(n, r, x, now))
<1>1. NetOk(homa_request_retrans(n, r, x)) /\ NetOk({})
  BY RetransOk DEF NetOk
<1>2. AwaitsAck(n, x) => NetOk({Control("NEED_ACK", n, r)})
  BY ControlOk DEF AwaitsAck
<1> QED BY <1>1, <1>2 DEF TimerPkts, NetOk

\* homa_timer goes over the RPCs of a node.
LEMMA TimerInv ==
  ASSUME Inv, NEW n \in Nodes, homa_timer(n)
  PROVE  Inv'
<1>0. TypeOK /\ timer_ticks \in Nat
  BY DEF Inv, TypeOK
<1>1. PICK live : live = {r \in Rpcs : Exists(n, r)}
  OBVIOUS
<1>2. PICK now : /\ now = IF \E r \in live : AwaitsAck(n, rpc[n][r])
                          THEN (timer_ticks + 1) % Ticks ELSE timer_ticks
  OBVIOUS
<1>3. now \in Nat
  BY <1>0, <1>2, ProtocolAssumption, SMTT(60)
<1>4. /\ timer_ticks' = now
      /\ rpc' = [rpc EXCEPT ![n] = [r \in Rpcs |->
                   IF r \in live THEN homa_timer_check_rpc(n, rpc[n][r], now)
                   ELSE NoRpc]]
      /\ Send(UNION {TimerPkts(n, r, rpc[n][r], now) : r \in live})
      /\ UNCHANGED <<conf, call, exec, lost, acks, up>>
  BY <1>1, <1>2 DEF homa_timer
<1>5. \A r \in live : r \in Rpcs /\ Exists(n, r) /\ rpc[n][r] \in RpcType
  BY <1>0, <1>1, RpcTyped
<1>6. \A r \in live :
         \/ /\ homa_timer_check_rpc(n, rpc[n][r], now) \in RpcType
            /\ Alike(rpc[n][r], homa_timer_check_rpc(n, rpc[n][r], now))
         \/ /\ homa_timer_check_rpc(n, rpc[n][r], now) = NoRpc
            /\ n = "server" /\ rpc[n][r].state = "incoming"
  BY <1>0, <1>3, <1>5, TimerRpcFacts, SMTT(60)
<1>7. /\ rpc' \in [Nodes -> [Rpcs -> RpcType \cup {NoRpc}]]
      /\ \A r \in live : rpc'[n][r] = homa_timer_check_rpc(n, rpc[n][r], now)
      /\ \A r \in Rpcs \ live : rpc'[n][r] = NoRpc
      /\ \A m \in Nodes, r \in Rpcs : m # n => rpc'[m][r] = rpc[m][r]
  <2>1. rpc \in [Nodes -> [Rpcs -> RpcType \cup {NoRpc}]]
    BY <1>0 DEF TypeOK
  <2>2. PICK g : g = [r \in Rpcs |->
                   IF r \in live THEN homa_timer_check_rpc(n, rpc[n][r], now)
                   ELSE NoRpc]
    OBVIOUS
  <2>3. g \in [Rpcs -> RpcType \cup {NoRpc}]
    BY <1>6, <2>2
  <2>4. /\ \A r \in live : g[r] = homa_timer_check_rpc(n, rpc[n][r], now)
        /\ \A r \in Rpcs \ live : g[r] = NoRpc
    BY <1>5, <2>2
  <2>5. rpc' = [rpc EXCEPT ![n] = g]
    BY <1>4, <2>2
  <2> QED BY <2>1, <2>3, <2>4, <2>5
<1>8. \A r \in Rpcs \ live : rpc'[n][r] = rpc[n][r]
  BY <1>0, <1>1, <1>7, RpcTyped
<1>9. NetOk(UNION {TimerPkts(n, r, rpc[n][r], now) : r \in live})
  <2>1. \A r \in live : Known(r)
    <3>1. CASE n = "client"
      BY <1>5, <3>1 DEF Inv, ClientOk, Known
    <3>2. CASE n = "server"
      BY <1>5, <3>2 DEF Inv, ServerOk
    <3> QED BY <3>1, <3>2 DEF Nodes
  <2>2. \A r \in live : NetOk(TimerPkts(n, r, rpc[n][r], now))
    BY <1>0, <1>3, <1>5, <2>1, TimerPktsOk
  <2> QED BY <2>2 DEF NetOk
<1>10. PICK S : NetOk(S) /\ net' \subseteq net \cup S
  BY <1>4, <1>9, NetFacts
<1>11. TypeOK'
  BY <1>0, <1>3, <1>4, <1>7, <1>10 DEF TypeOK, NetOk
<1>12. ASSUME NEW r \in Rpcs
       PROVE  ClientMove(r)
  <2>1. CASE n = "client" /\ r \in live
    <3>1. rpc'["client"][r] \in RpcType /\ Alike(rpc["client"][r], rpc'["client"][r])
      BY <1>6, <1>7, <2>1
    <3> QED BY <1>4, <1>5, <2>1, <3>1, AlikeClientMove
  <2>2. CASE ~(n = "client" /\ r \in live)
    BY <1>4, <1>7, <1>8, <2>2 DEF ClientMove, Nodes
  <2> QED BY <2>1, <2>2
<1>13. ASSUME NEW r \in Rpcs
       PROVE  ServerMove(r)
  <2>1. CASE n = "server" /\ r \in live /\ rpc'["server"][r] # NoRpc
    <3>1. rpc'["server"][r] \in RpcType /\ Alike(rpc["server"][r], rpc'["server"][r])
      BY <1>6, <1>7, <2>1
    <3> QED BY <1>4, <1>5, <2>1, <3>1, AlikeServerMove
  <2>2. CASE n = "server" /\ r \in live /\ rpc'["server"][r] = NoRpc
    <3>1. rpc["server"][r].state = "incoming"
      <4>1. rpc'["server"][r] \notin RpcType
        BY <2>2, SMTT(60) DEF NoRpc, RpcType
      <4> QED BY <1>6, <1>7, <2>2, <4>1
    <3>2. ExecOk(r) /\ exec[r] \in Nat
      BY <1>0, SMTT(60) DEF Inv, TypeOK, Execs
    <3>3. Pending(r) => exec[r] = 0
      BY <3>1, <3>2, SMTT(60) DEF ExecOk, Answering
    <3> QED BY <1>4, <2>2, <3>3 DEF ServerMove
  <2>3. CASE ~(n = "server" /\ r \in live)
    BY <1>4, <1>7, <1>8, <2>3 DEF ServerMove, Nodes
  <2> QED BY <2>1, <2>2, <2>3
<1>14. \A i \in DOMAIN acks' : Done(acks'[i])
  BY <1>4 DEF Inv, AcksOk
<1> QED BY <1>4, <1>10, <1>11, <1>12, <1>13, <1>14, Moves DEF NetOk

-----------------------------------------------------------------------------
(* Theorems                                                                *)

\* Every step keeps the invariant.
LEMMA NextInv ==
  ASSUME Inv, [Next]_vars
  PROVE  Inv'
<1>1. CASE UNCHANGED vars
  <2>1. UNCHANGED <<conf, rpc, call, exec, lost, acks, timer_ticks, up, net>>
    BY <1>1 DEF vars
  <2>2. NetOk({}) /\ net' \subseteq net \cup {}
    BY <2>1 DEF NetOk
  <2>3. up' \in [Nodes -> BOOLEAN]
    BY <2>1 DEF Inv, TypeOK
  <2> QED BY <2>1, <2>2, <2>3, NetOnly
<1>2. ASSUME NEW r \in Rpcs,
             \/ SendRequest(r) \/ SendReply(r) \/ ClientRecv(r)
             \/ ServerRecv(r) \/ homa_ioc_abort(r)
      PROVE  Inv'
  BY <1>2, SendRequestInv, SendReplyInv, ClientRecvInv, ServerRecvInv, AbortInv
<1>3. ASSUME NEW n \in Nodes, NEW r \in Rpcs,
             \/ FillPacket(n, r) \/ FillFails(n, r) \/ NicDone(n, r)
             \/ Grant(n, r) \/ BuffersFound(n, r)
      PROVE  Inv'
  BY <1>3, FillPacketInv, FillFailsInv, NicDoneInv, GrantInv, BuffersFoundInv
<1>4. ASSUME NEW n \in Nodes, Close(n) \/ homa_timer(n)
      PROVE  Inv'
  BY <1>4, CloseInv, TimerInv
<1>5. CASE Reopen
  BY <1>5, ReopenInv
<1>6. ASSUME NEW p \in net, Deliver(p) \/ Lose(p)
      PROVE  Inv'
  <2>1. CASE homa_data_pkt(p) \/ homa_grant_pkt(p) \/ homa_xmit_unknown(p)
    BY <2>1, DataPktInv, GrantPktInv, XmitUnknownInv
  <2>2. CASE homa_resend_pkt(p) \/ homa_rpc_unknown_pkt(p) \/ BusyPkt(p)
    BY <2>2, ResendPktInv, RpcUnknownInv, BusyInv
  <2>3. CASE homa_need_ack_pkt(p) \/ homa_ack_pkt(p) \/ Discard(p)
    BY <2>3, NeedAckInv, AckPktInv, DiscardInv
  <2>4. CASE PortUnreachable(p) \/ homa_err_handler(p) \/ Lose(p)
    BY <2>4, PortUnreachableInv, ErrHandlerInv, LoseInv
  <2> QED BY <1>6, <2>1, <2>2, <2>3, <2>4 DEF Deliver
<1> QED BY <1>1, <1>2, <1>3, <1>4, <1>5, <1>6 DEF Next

\* Every variable keeps its type: in particular every packet in flight names
\* an RPC of the client, and every ack in a header or a list does.
THEOREM ProtocolType == Spec => []TypeOK
<1>1. Init => Inv
  BY InitInv
<1>2. Inv /\ [Next]_vars => Inv'
  BY NextInv
<1>3. Inv => TypeOK
  BY DEF Inv
<1> QED BY <1>1, <1>2, <1>3, PTL DEF Spec

\* Whatever packets are lost, late or repeated, an ack is only on its way
\* when the client is done with the RPC: homa_peer_add_ack, homa_need_ack_pkt
\* and homa_message_out_fill never let one through too early.
THEOREM AcksDone == Spec => []AckOnlyWhenDone
<1>1. Init => Inv
  BY InitInv
<1>2. Inv /\ [Next]_vars => Inv'
  BY NextInv
<1>3. Inv => AckOnlyWhenDone
  <2> SUFFICES ASSUME Inv
               PROVE  AckOnlyWhenDone
    OBVIOUS
  <2>1. 0 \notin Rpcs
    BY ProtocolAssumption
  <2> DEFINE pending == {r \in Rpcs : Waiting(r)}
  <2>2. \A r \in pending : r # 0 /\ ~Done(r)
    BY <2>1 DEF Done
  <2> HIDE DEF pending
  <2>3. Range(acks) \cap pending = {}
    BY <2>2 DEF Inv, AcksOk, Range
  <2>4. ASSUME NEW p \in net
        PROVE  /\ p.type = "ACK" => Acked(p) \cap pending = {}
               /\ p.type = "DATA" => p.ack \notin pending
    <3>1. PktOk(p)
      BY DEF Inv
    <3> QED BY <2>2, <3>1 DEF PktOk
  <2>5. ASSUME NEW r \in Rpcs, Exists("client", r)
        PROVE  Range(rpc["client"][r].out.hdrs) \cap pending = {}
    <3>1. HdrsDone(rpc["client"][r])
      BY <2>5 DEF Inv, ClientOk
    <3> QED BY <2>2, <3>1 DEF HdrsDone, Range
  <2> QED BY <2>3, <2>4, <2>5 DEF AckOnlyWhenDone, pending
<1> QED BY <1>1, <1>2, <1>3, PTL DEF Spec

\* A server that has executed a request keeps the RPC as long as the client
\* waits for the response, whatever packets are lost, late or repeated:
\* neither homa_timer nor homa_ack_pkt nor an UNKNOWN packet ends it.
THEOREM ResponsesKept == Spec => []ResponseKept
<1>1. Init => Inv
  BY InitInv
<1>2. Inv /\ [Next]_vars => Inv'
  BY NextInv
<1>3. Inv => ResponseKept
  BY DEF Inv, ExecOk, Pending, Answering, ResponseKept
<1> QED BY <1>1, <1>2, <1>3, PTL DEF Spec

\* A request is executed once while its client waits, and what the client has
\* of a response comes from that execution, although the network may repeat
\* request packets and the client may send its request again.
THEOREM ExecutedOnce == Spec => []OnceWhilePending
<1>1. Init => Inv
  BY InitInv
<1>2. Inv /\ [Next]_vars => Inv'
  BY NextInv
<1>3. Inv => OnceWhilePending
  BY DEF Inv, ExecOk, ClientOk, FirstOnly, Pending, OnceWhilePending
<1> QED BY <1>1, <1>2, <1>3, PTL DEF Spec
=============================================================================
