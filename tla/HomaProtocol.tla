---------------------------- MODULE HomaProtocol ----------------------------
(***************************************************************************)
(* Remote procedure calls between a client and a server host over a       *)
(* network that delays, reorders, loses and repeats packets: the packet    *)
(* handlers of homa_incoming.c, the timer of homa_timer.c, the sending     *)
(* side of homa_outgoing.c, and the system calls that start, answer and    *)
(* finish an RPC.                                                          *)
(*                                                                         *)
(* Messages are counted in packets, numbered from 0.  A step is what one   *)
(* thread does between acquiring an RPC lock and releasing it.  Gap lists, *)
(* buffers, grants and reference counts have modules of their own; here a  *)
(* message is the set of its packets that have arrived, and the receiver   *)
(* may grant at any time.                                                  *)
(***************************************************************************)
EXTENDS Integers, Sequences, FiniteSets, Functions

CONSTANTS
    Rpcs,       \* RPCs of the client, a set of positive numbers
    Configs,    \* settings and faults to explore, one of them per behaviour
    Ticks,      \* 2^32: number of values of homa->timer_ticks
    MaxAcks,    \* HOMA_MAX_ACKS_PER_PKT
    MaxExec     \* executions of an RPC that are told apart

VARIABLES
    conf,           \* the element of Configs in force; conf.losses counts the
                    \* packets that may yet be lost
    rpc,            \* rpc[n][r]: the struct homa_rpc of RPC r on host n
    call,           \* call[r]: what the client application knows of r
    exec,           \* exec[r]: how often the request was given to the server
                    \* application, at most MaxExec
    lost,           \* lost[r]: the server dropped r because of a failure
    acks,           \* peer->acks: RPCs the client has yet to acknowledge
    timer_ticks,    \* homa->timer_ticks of the server
    up,             \* up[n]: host n has a socket on its port
    net             \* packets in flight

vars == <<conf, rpc, call, exec, lost, acks, timer_ticks, up, net>>

Nodes == {"client", "server"}
Peer(n) == IF n = "client" THEN "server" ELSE "client"

Faults == {"duplicate", "fail", "abort", "close_client",
           "close_server", "crash", "nobuf", "slow_nic"}

ASSUME ProtocolAssumption ==
    /\ Rpcs \subseteq Nat \ {0} /\ IsFiniteSet(Rpcs)
    /\ Ticks \in Nat /\ Ticks > 2 /\ Ticks % 2 = 0
    /\ MaxAcks \in Nat \ {0} /\ MaxExec \in Nat /\ MaxExec > 1
    /\ Configs \subseteq
         [rpcs: SUBSET Rpcs, length: [Nodes -> Nat \ {0}],
          unsched_bytes: Nat \ {0}, resend_ticks: Nat \ {0},
          resend_interval: Nat \ {0}, timeout_ticks: Nat \ {0},
          request_ack_ticks: Nat \ {0}, capacity: Nat,
          losses: Nat, faults: SUBSET Faults]

-----------------------------------------------------------------------------
(* Messages                                                                *)

min(a, b) == IF a <= b THEN a ELSE b
max(a, b) == IF a >= b THEN a ELSE b

Unscheduled(n) == min(conf.unsched_bytes, conf.length[n])

\* msgout: hdrs holds, for every packet copied so far, the ack in its header
\* (0 for none); packets before sent were passed to IP, packets before tx
\* have left the NIC.
NoOut == [length |-> 0, filling |-> FALSE, hdrs |-> <<>>, sent |-> 0,
          granted |-> 0, tx |-> 0]

homa_message_out_init(n) ==
    [NoOut EXCEPT !.length = conf.length[n], !.filling = TRUE,
                  !.granted = Unscheduled(n)]

\* msgin: got[i] is 0 as long as packet i is missing, and else the execution
\* its contents come from (always 1 for requests).
NoIn == [length |-> 0, got |-> <<>>, granted |-> 0, bufs |-> FALSE]

homa_message_in_init(n, incoming, b) ==
    LET len == conf.length[Peer(n)]
    IN  [length |-> len, got |-> [i \in 0 .. len - 1 |-> 0],
         granted |-> min(incoming, len), bufs |-> b]

Received(in) == {i \in DOMAIN in.got : in.got[i] # 0}
Complete(x) ==
    /\ x.state = "incoming"
    /\ x.in.length > 0
    /\ Received(x.in) = DOMAIN x.in.got

\* Packets that come from the packet layer are lost, or late, but intact.
DataPkt(n, r, x, i, incoming) ==
    [type |-> "DATA", to |-> Peer(n), id |-> r, offset |-> i,
     incoming |-> incoming, ack |-> x.out.hdrs[i + 1], exec |-> x.exec]
Control(t, n, r) == [type |-> t, to |-> Peer(n), id |-> r]
ResendPkt(n, r, offset, length) ==
    [type |-> "RESEND", to |-> Peer(n), id |-> r, offset |-> offset,
     length |-> length]

\* The offset of the first packet that has not left the NIC.  When all
\* packets copied so far have left it, first_not_tx is NULL and the result
\* is the length of the message.
homa_rpc_tx_end(x) ==
    IF x.out.tx = Len(x.out.hdrs) THEN x.out.length ELSE x.out.tx

\* Packets that homa_xmit_data passes to IP, and the RPC after it.
XmitEnd(x) == max(x.out.sent, min(Len(x.out.hdrs), x.out.granted))
Transmitted(n, r, x) ==
    {DataPkt(n, r, x, i, Unscheduled(n)) : i \in x.out.sent .. XmitEnd(x) - 1}
homa_xmit_data(x) ==
    [x EXCEPT !.out.sent = XmitEnd(x),
              !.out.tx = IF "slow_nic" \in conf.faults THEN @ ELSE XmitEnd(x)]

\* Packets before end may be sent.
GrantTo(x, end) == [x EXCEPT !.out.granted = end]

homa_resend_data(n, r, x, start, end) ==
    {DataPkt(n, r, x, i, end) : i \in start .. min(end, Len(x.out.hdrs)) - 1}

\* RESENDs for the gaps in what has arrived, and for granted data after it;
\* for everything if nothing has arrived.
homa_request_retrans(n, r, x) ==
    LET got == Received(x.in)
        \* what follows a packet that has arrived, or the start
        Starts == {i \in 0 .. x.in.length : i = 0 \/ i - 1 \in got}
        gap(i, j) == /\ i < j /\ i .. j - 1 \cap got = {}
                     /\ \/ j \in got
                        \/ j = x.in.granted /\ \A k \in got : k < i
    IN  IF x.in.length = 0 THEN {ResendPkt(n, r, 0, -1)}
        ELSE {ResendPkt(n, r, g[1], g[2] - g[1]) :
                g \in {h \in Starts \X (0 .. x.in.length) : gap(h[1], h[2])}}

-----------------------------------------------------------------------------
(* RPCs                                                                    *)

NoRpc == [state |-> "none"]
Exists(n, r) == rpc[n][r].state # "none"
NewRpc(s) == [state |-> s, error |-> FALSE, silent_ticks |-> 0,
              done_timer_ticks |-> 0, exec |-> 1, out |-> NoOut, in |-> NoIn]

\* A client RPC is returned to the application with the error; a server RPC
\* is freed.
homa_rpc_abort(n, x) ==
    CASE x.state = "none" -> x
      [] n = "client" -> [x EXCEPT !.error = TRUE]
      [] n = "server" -> NoRpc

\* The RPC table of host n with x for RPC r, and without the RPCs in S.
With(n, r, x) == [rpc EXCEPT ![n][r] = x]
Without(table, S) ==
    [table EXCEPT !["server"] =
        [r \in Rpcs |-> IF r \in S THEN NoRpc ELSE table["server"][r]]]

\* The network holds conf.capacity packets; what does not fit is lost.
Carry(flight, S) ==
    net' = IF Cardinality(flight \cup S) <= conf.capacity THEN flight \cup S
           ELSE flight
Send(S) == Carry(net, S)
\* p has been received, and S is sent; p may arrive again and again.
Answer(p, S) ==
    Carry(IF "duplicate" \in conf.faults THEN net ELSE net \ {p}, S)

Init ==
    /\ conf \in Configs
    /\ rpc = [n \in Nodes |-> [r \in Rpcs |-> NoRpc]]
    /\ call = [r \in Rpcs |-> "idle"]
    /\ exec = [r \in Rpcs |-> 0]
    /\ lost = [r \in Rpcs |-> FALSE]
    /\ acks = <<>>
    /\ timer_ticks = 0
    /\ up = [n \in Nodes |-> TRUE]
    /\ net = {}

-----------------------------------------------------------------------------
(* System calls                                                            *)

\* homa_sendmsg for a request, up to the copying of the message.
SendRequest(r) ==
    /\ r \in conf.rpcs /\ call[r] = "idle" /\ up["client"]
    /\ call' = [call EXCEPT ![r] = "pending"]
    /\ rpc' = With("client", r, [NewRpc("outgoing") EXCEPT
                                    !.out = homa_message_out_init("client")])
    /\ UNCHANGED <<conf, exec, lost, acks, timer_ticks, up, net>>

\* homa_sendmsg for a response.
SendReply(r) ==
    /\ rpc["server"][r].state = "in_service"
    /\ rpc' = With("server", r, [rpc["server"][r] EXCEPT !.state = "outgoing",
                                    !.out = homa_message_out_init("server")])
    /\ UNCHANGED <<conf, call, exec, lost, acks, timer_ticks, up, net>>

\* An ack for the next packet to the server, and what is left of the acks.
GetAck(n) == IF n = "client" /\ acks # <<>> THEN acks[Len(acks)] ELSE 0
AcksLeft(n) == IF n = "client" /\ acks # <<>> THEN SubSeq(acks, 1, Len(acks) - 1) ELSE acks

\* The RPC with the next packet of its message copied.
WithNext(n, x) ==
    [x EXCEPT !.out.hdrs = Append(@, GetAck(n)),
              !.out.filling = Len(x.out.hdrs) + 1 < x.out.length]

\* One round of the loop of homa_message_out_fill: the next packet is copied
\* and, if it is unscheduled or the last one, homa_xmit_data is called.
FillPacket(n, r) ==
    LET x == rpc[n][r]
        y == WithNext(n, x)
        xmit == Len(x.out.hdrs) < Unscheduled(n) \/ ~y.out.filling
    IN  /\ Exists(n, r) /\ x.out.filling
        /\ rpc' = With(n, r, IF xmit THEN homa_xmit_data(y) ELSE y)
        /\ Send(IF xmit THEN Transmitted(n, r, y) ELSE {})
        /\ acks' = AcksLeft(n)
        /\ UNCHANGED <<conf, call, exec, lost, timer_ticks, up>>

\* No memory for the packet, or the message cannot be read: homa_sendmsg ends
\* the RPC.  An ack that was already in the packet is gone.
FillFails(n, r) ==
    /\ "fail" \in conf.faults
    /\ Exists(n, r) /\ rpc[n][r].out.filling
    /\ rpc' = With(n, r, NoRpc)
    /\ acks' \in {acks, AcksLeft(n)}
    /\ call' = IF n = "client" THEN [call EXCEPT ![r] = "failed"] ELSE call
    /\ lost' = IF n = "server" THEN [lost EXCEPT ![r] = TRUE] ELSE lost
    /\ UNCHANGED <<conf, exec, timer_ticks, up, net>>

\* homa_peer_add_ack: acks that must be sent at once, since the list is full.
AckOverflow(r) ==
    IF Len(acks) < MaxAcks THEN {}
    ELSE {[type |-> "ACK", to |-> "server", id |-> r, acks |-> Range(acks)]}

homa_peer_add_ack(r) ==
    IF Len(acks) < MaxAcks THEN Append(acks, r) ELSE <<>>

\* homa_recvmsg for a response or an error.
ClientRecv(r) ==
    LET x == rpc["client"][r]
    IN  /\ Exists("client", r)
        /\ Complete(x) \/ x.error
        /\ call' = [call EXCEPT ![r] = IF x.error THEN "failed" ELSE "returned"]
        /\ rpc' = With("client", r, NoRpc)
        /\ acks' = homa_peer_add_ack(r)
        /\ Send(AckOverflow(r))
        /\ UNCHANGED <<conf, exec, lost, timer_ticks, up>>

\* homa_recvmsg for a request.
ServerRecv(r) ==
    LET n == min(exec[r] + 1, MaxExec)
    IN  /\ Exists("server", r) /\ Complete(rpc["server"][r])
        /\ exec' = [exec EXCEPT ![r] = n]
        /\ rpc' = With("server", r, [rpc["server"][r] EXCEPT
                                        !.state = "in_service", !.exec = n])
        /\ UNCHANGED <<conf, call, lost, acks, timer_ticks, up, net>>

\* HOMAIOCABORT with no error ends the RPC, and with one makes homa_recvmsg
\* return it; the server learns nothing.  The application knows the id of the
\* RPC once homa_sendmsg has returned.
homa_ioc_abort(r) ==
    /\ "abort" \in conf.faults
    /\ Exists("client", r) /\ ~rpc["client"][r].out.filling
    /\ \/ /\ call' = [call EXCEPT ![r] = "aborted"]
          /\ rpc' = With("client", r, NoRpc)
       \/ /\ call' = call
          /\ rpc' = With("client", r, homa_rpc_abort("client", rpc["client"][r]))
    /\ UNCHANGED <<conf, exec, lost, acks, timer_ticks, up, net>>

\* homa_sock_shutdown ends all RPCs of the socket; a process that is started
\* again opens a new socket on the same port.
Close(n) ==
    /\ IF n = "client" THEN {"close_client", "crash"} \cap conf.faults # {}
                       ELSE "close_server" \in conf.faults
    /\ up[n]
    /\ up' = [up EXCEPT ![n] = FALSE]
    /\ rpc' = [rpc EXCEPT ![n] = [r \in Rpcs |-> NoRpc]]
    /\ IF n = "client"
       THEN /\ call' = [r \in Rpcs |-> IF Exists(n, r) THEN "aborted" ELSE call[r]]
            /\ lost' = lost
       ELSE /\ lost' = [r \in Rpcs |-> lost[r] \/ Exists(n, r)]
            /\ call' = call
    /\ UNCHANGED <<conf, exec, acks, timer_ticks, net>>

Reopen ==
    /\ ~up["server"]
    /\ up' = [up EXCEPT !["server"] = TRUE]
    /\ UNCHANGED <<conf, rpc, call, exec, lost, acks, timer_ticks, net>>

-----------------------------------------------------------------------------
(* Packet handlers.  p is the packet; its host has a socket.               *)

Arrives(p, t) == p \in net /\ p.type = t /\ up[p.to]

\* DATA, GRANT and BUSY show that the other side is alive.
Heard(x) == [x EXCEPT !.silent_ticks = 0]

\* Mutant: a request packet starts the RPC again once its message is complete.
DataRpcRestarts(p, b) ==
    LET x == rpc[p.to][p.id]
    IN  CASE p.to = "server" /\ x.state # "incoming" ->
               [NewRpc("incoming") EXCEPT
                   !.in = homa_message_in_init("server", p.incoming, b)]
          [] p.to = "client" /\ x.state = "outgoing" ->
               [Heard(x) EXCEPT !.state = "incoming",
                   !.in = homa_message_in_init("client", p.incoming, b)]
          [] OTHER -> Heard(x)

\* The RPC that a DATA packet is for: a request makes a server RPC if there
\* is none, the first packet of a response starts the incoming message.
DataRpc(p, b) ==
    LET x == rpc[p.to][p.id]
    IN  CASE p.to = "server" /\ x.state = "none" ->
               [NewRpc("incoming") EXCEPT
                   !.in = homa_message_in_init("server", p.incoming, b)]
          [] p.to = "client" /\ x.state = "outgoing" ->
               [Heard(x) EXCEPT !.state = "incoming",
                   !.in = homa_message_in_init("client", p.incoming, b)]
          [] OTHER -> Heard(x)

\* A packet is kept if its message is still arriving and has buffers.
Accepts(x) == x.state = "incoming" /\ x.in.bufs

homa_add_packet(x, p) ==
    IF x.in.got[p.offset] = 0 THEN [x EXCEPT !.in.got[p.offset] = p.exec] ELSE x

homa_data_pkt(p) ==
    /\ Arrives(p, "DATA")
    /\ p.to = "server" \/ Exists(p.to, p.id)
    /\ \E b \in IF "nobuf" \in conf.faults THEN BOOLEAN ELSE {TRUE} :
         LET x == DataRpc(p, b)
             y == IF Accepts(x) THEN homa_add_packet(x, p) ELSE x
         IN  rpc' = Without(With(p.to, p.id, y), {p.ack})
    /\ Answer(p, {})
    /\ UNCHANGED <<conf, call, exec, lost, acks, timer_ticks, up>>

homa_grant_pkt(p) ==
    LET x == Heard(rpc[p.to][p.id])
        y == GrantTo(x, max(x.out.granted, min(p.offset, x.out.length)))
        go == x.state = "outgoing"
    IN  /\ Arrives(p, "GRANT") /\ Exists(p.to, p.id)
        /\ rpc' = With(p.to, p.id, IF go THEN homa_xmit_data(y) ELSE x)
        /\ Answer(p, IF go THEN Transmitted(p.to, p.id, y) ELSE {})
        /\ UNCHANGED <<conf, call, exec, lost, acks, timer_ticks, up>>

\* A RESEND for an RPC this host does not know.
homa_xmit_unknown(p) ==
    /\ Arrives(p, "RESEND") /\ ~Exists(p.to, p.id)
    /\ Answer(p, {Control("UNKNOWN", p.to, p.id)})
    /\ UNCHANGED <<conf, rpc, call, exec, lost, acks, timer_ticks, up>>

homa_resend_pkt(p) ==
    LET n == p.to
        r == p.id
        x == rpc[n][r]
        tx_end == homa_rpc_tx_end(x)
        end == IF p.length = -1 THEN tx_end ELSE p.offset + p.length
        y == GrantTo(x, min(end, x.out.length))
        busy == {Control("BUSY", n, r)}
    IN  /\ Arrives(p, "RESEND") /\ Exists(n, r)
        /\ IF n = "server" /\ x.state # "outgoing"
           THEN rpc' = rpc /\ Answer(p, busy)
           ELSE /\ rpc' = IF end > x.out.granted
                          THEN With(n, r, homa_xmit_data(y)) ELSE rpc
                /\ Answer(p,
                     homa_resend_data(n, r, x, p.offset, min(end, tx_end))
                     \cup (IF end > x.out.granted THEN Transmitted(n, r, y) ELSE {})
                     \cup (IF p.offset >= tx_end THEN busy ELSE {}))
        /\ UNCHANGED <<conf, call, exec, lost, acks, timer_ticks, up>>

\* The other host does not know the RPC.  A client that has seen nothing of
\* the response sends the request again; a server gives the RPC up.
homa_rpc_unknown_pkt(p) ==
    LET n == p.to
        x == rpc[n][p.id]
    IN  /\ Arrives(p, "UNKNOWN") /\ Exists(n, p.id)
        /\ rpc' = IF n = "client" THEN rpc ELSE With(n, p.id, NoRpc)
        /\ Answer(p, IF n = "client" /\ x.state = "outgoing"
                     THEN homa_resend_data(n, p.id, x, 0, homa_rpc_tx_end(x))
                     ELSE {})
        /\ UNCHANGED <<conf, call, exec, lost, acks, timer_ticks, up>>

\* The only effect of a BUSY packet.
BusyPkt(p) ==
    /\ Arrives(p, "BUSY") /\ Exists(p.to, p.id)
    /\ rpc' = With(p.to, p.id, Heard(rpc[p.to][p.id]))
    /\ Answer(p, {})
    /\ UNCHANGED <<conf, call, exec, lost, acks, timer_ticks, up>>

\* Mutant: the client acknowledges whatever it is asked for.
AckableAlways(x) == TRUE

\* It is safe for the server to forget the RPC.
Ackable(x) == x.state = "none" \/ Complete(x)

homa_need_ack_pkt(p) ==
    LET x == rpc[p.to][p.id]
    IN  /\ Arrives(p, "NEED_ACK")
        /\ IF Ackable(x)
           THEN /\ Answer(p, {[type |-> "ACK", to |-> "server", id |-> p.id,
                               acks |-> Range(acks)]})
                /\ acks' = <<>>
           ELSE /\ Answer(p, homa_request_retrans(p.to, p.id, x))
                /\ acks' = acks
        /\ UNCHANGED <<conf, rpc, call, exec, lost, timer_ticks, up>>

Acked(p) == {p.id} \cup p.acks

homa_ack_pkt(p) ==
    /\ Arrives(p, "ACK")
    /\ rpc' = Without(rpc, Acked(p))
    /\ Answer(p, {})
    /\ UNCHANGED <<conf, call, exec, lost, acks, timer_ticks, up>>

\* Other packets for an unknown RPC are discarded.
Discard(p) ==
    /\ p \in net /\ up[p.to]
    /\ \/ p.type \in {"GRANT", "UNKNOWN", "BUSY"}
       \/ p.type = "DATA" /\ p.to = "client"
    /\ ~Exists(p.to, p.id)
    /\ Answer(p, {})
    /\ UNCHANGED <<conf, rpc, call, exec, lost, acks, timer_ticks, up>>

\* There is no socket for the packet: the sender is told by ICMP, unless the
\* host is gone too ...
PortUnreachable(p) ==
    /\ p \in net /\ ~up[p.to]
    /\ Answer(p, IF p.type = "UNREACHABLE" \/ "crash" \in conf.faults
                 THEN {} ELSE {Control("UNREACHABLE", p.to, 0)})
    /\ UNCHANGED <<conf, rpc, call, exec, lost, acks, timer_ticks, up>>

\* ... and aborts its RPCs with that port.
homa_err_handler(p) ==
    LET n == p.to
    IN  /\ Arrives(p, "UNREACHABLE")
        /\ rpc' = [rpc EXCEPT ![n] = [r \in Rpcs |-> homa_rpc_abort(n, rpc[n][r])]]
        /\ lost' = [r \in Rpcs |-> lost[r] \/ (n = "server" /\ Exists(n, r))]
        /\ Answer(p, {})
        /\ UNCHANGED <<conf, call, exec, acks, timer_ticks, up>>

Deliver(p) ==
    \/ homa_data_pkt(p) \/ homa_grant_pkt(p) \/ homa_xmit_unknown(p)
    \/ homa_resend_pkt(p) \/ homa_rpc_unknown_pkt(p) \/ BusyPkt(p)
    \/ homa_need_ack_pkt(p) \/ homa_ack_pkt(p) \/ Discard(p)
    \/ PortUnreachable(p) \/ homa_err_handler(p)

-----------------------------------------------------------------------------
(* The timer.  What it does to one RPC touches no other, so one step is a  *)
(* pass over all RPCs of a host; now is the value of timer_ticks.          *)

\* Mutant: a comparison that ignores wrap-around.
AckDuePlain(x, now) == now >= x.done_timer_ticks + conf.request_ack_ticks

\* The sign bit of done_timer_ticks + request_ack_ticks - 1 - now.
AckDue(x, now) ==
    (x.done_timer_ticks + conf.request_ack_ticks - 1 - now) % Ticks
        >= Ticks \div 2

\* The response has been sent and waits for its ack.
AwaitsAck(n, x) ==
    n = "server" /\ x.state = "outgoing" /\ homa_rpc_tx_end(x) = x.out.length

\* Mutant: an off-by-one: a request that is sent as far as it is granted.
CalmOffByOne(n, x) ==
    CASE x.state = "incoming" ->
           Cardinality(Received(x.in)) >= x.in.granted \/ ~x.in.bufs
      [] n = "server" -> TRUE
      [] OTHER -> homa_rpc_tx_end(x) <= x.out.granted

\* Nothing is expected from the other side.
Calm(n, x) ==
    CASE x.state = "incoming" ->
           Cardinality(Received(x.in)) >= x.in.granted \/ ~x.in.bufs
      [] n = "server" -> TRUE
      [] OTHER -> homa_rpc_tx_end(x) < x.out.granted

\* silent_ticks after this pass, no further than timeout_ticks.
Silent(n, x) ==
    IF x.state = "in_service" \/ Calm(n, x) THEN 0
    ELSE min(x.silent_ticks + 1, conf.timeout_ticks)

\* Mutant: the server gives a response up that is not acknowledged.
TimedOutAnyState(n, x) == x.silent_ticks + 1 >= conf.timeout_ticks

TimedOut(n, x) == Silent(n, x) >= conf.timeout_ticks

homa_timer_check_rpc(n, x, now) ==
    LET y == [x EXCEPT !.silent_ticks = Silent(n, x),
                       !.done_timer_ticks =
                            IF AwaitsAck(n, x) /\ @ = 0 THEN now ELSE @]
    IN  IF TimedOut(n, x) THEN homa_rpc_abort(n, y) ELSE y

TimerPkts(n, r, x, now) ==
    (IF AwaitsAck(n, x) /\ x.done_timer_ticks # 0 /\ AckDue(x, now)
     THEN {Control("NEED_ACK", n, r)} ELSE {})
    \cup
    (IF /\ Silent(n, x) >= conf.resend_ticks
        /\ ~TimedOut(n, x)
        /\ (Silent(n, x) - conf.resend_ticks) % conf.resend_interval = 0
     THEN homa_request_retrans(n, r, x) ELSE {})

\* timer_ticks matters only while an RPC waits for its ack, and is left as it
\* is at other times.
homa_timer(n) ==
    LET live == {r \in Rpcs : Exists(n, r)}
        now == IF \E r \in live : AwaitsAck(n, rpc[n][r])
               THEN (timer_ticks + 1) % Ticks ELSE timer_ticks
    IN  /\ up[n] /\ live # {}
        /\ timer_ticks' = now
        /\ rpc' = [rpc EXCEPT ![n] = [r \in Rpcs |->
                     IF r \in live THEN homa_timer_check_rpc(n, rpc[n][r], now)
                     ELSE NoRpc]]
        /\ Send(UNION {TimerPkts(n, r, rpc[n][r], now) : r \in live})
        /\ UNCHANGED <<conf, call, exec, lost, acks, up>>

-----------------------------------------------------------------------------
(* The rest of the system                                                  *)

\* The NIC has transmitted all packets it was given and released them.
NicDone(n, r) ==
    /\ Exists(n, r) /\ rpc[n][r].out.tx < rpc[n][r].out.sent
    /\ rpc' = With(n, r, [rpc[n][r] EXCEPT !.out.tx = rpc[n][r].out.sent])
    /\ UNCHANGED <<conf, call, exec, lost, acks, timer_ticks, up, net>>

\* HomaGrant decides that RPC r may have more of its message.
Grant(n, r) ==
    LET x == rpc[n][r]
    IN  /\ Exists(n, r) /\ x.state = "incoming" /\ x.in.bufs
        /\ x.in.granted < x.in.length
        /\ rpc' = With(n, r, [x EXCEPT !.in.granted = @ + 1])
        /\ Send({[type |-> "GRANT", to |-> Peer(n), id |-> r,
                  offset |-> x.in.granted + 1]})
        /\ UNCHANGED <<conf, call, exec, lost, acks, timer_ticks, up>>

\* HomaPool finds buffers for RPC r.
BuffersFound(n, r) ==
    LET x == rpc[n][r]
    IN  /\ Exists(n, r) /\ x.in.length > 0 /\ ~x.in.bufs
        /\ rpc' = With(n, r, [x EXCEPT !.in.bufs = TRUE])
        /\ UNCHANGED <<conf, call, exec, lost, acks, timer_ticks, up, net>>

Lose(p) ==
    /\ p \in net /\ conf.losses > 0
    /\ net' = net \ {p}
    /\ conf' = [conf EXCEPT !.losses = @ - 1]
    /\ UNCHANGED <<rpc, call, exec, lost, acks, timer_ticks, up>>

Next ==
    \/ \E r \in Rpcs : \/ SendRequest(r) \/ SendReply(r) \/ ClientRecv(r)
                       \/ ServerRecv(r) \/ homa_ioc_abort(r)
    \/ \E n \in Nodes, r \in Rpcs : \/ FillPacket(n, r) \/ FillFails(n, r)
                                    \/ NicDone(n, r) \/ Grant(n, r)
                                    \/ BuffersFound(n, r)
    \/ \E n \in Nodes : Close(n) \/ homa_timer(n)
    \/ Reopen
    \/ \E p \in net : Deliver(p) \/ Lose(p)

Spec == Init /\ [][Next]_vars

\* What the threads and NICs of the two hosts do for the RPCs.
LocalStep ==
    \/ \E r \in Rpcs : SendReply(r) \/ ClientRecv(r) \/ ServerRecv(r)
    \/ \E n \in Nodes, r \in Rpcs : \/ FillPacket(n, r) \/ NicDone(n, r)
                                    \/ Grant(n, r) \/ BuffersFound(n, r)

\* Threads that can run do, timers tick, and of the packets for a host that
\* are not lost one arrives after the other, in any order.
Fairness ==
    /\ WF_vars(LocalStep)
    /\ \A n \in Nodes : /\ WF_vars(homa_timer(n))
                         /\ WF_vars(\E p \in net : p.to = n /\ Deliver(p))

FairSpec == Spec /\ Fairness

-----------------------------------------------------------------------------
(* Properties                                                              *)

OutType == [length: Nat, filling: BOOLEAN, hdrs: Seq(Rpcs \cup {0}),
            sent: Nat, granted: Nat, tx: Nat]

Execs == 0 .. MaxExec
Lengths == {0} \cup {c.length[n] : c \in Configs, n \in Nodes}
GotType == UNION {[0 .. len - 1 -> Execs] : len \in Lengths}
InType == [length: Nat, got: GotType, granted: Nat, bufs: BOOLEAN]

RpcType == [state: {"outgoing", "incoming", "in_service"}, error: BOOLEAN,
            silent_ticks: Nat, done_timer_ticks: Nat, exec: Execs,
            out: OutType, in: InType]

PktType ==
    [type: {"DATA"}, to: Nodes, id: Rpcs, offset: Nat, incoming: Nat,
     ack: Rpcs \cup {0}, exec: Execs]
    \cup [type: {"RESEND"}, to: Nodes, id: Rpcs, offset: Nat,
          length: Nat \cup {-1}]
    \cup [type: {"GRANT"}, to: Nodes, id: Rpcs, offset: Nat]
    \cup [type: {"ACK"}, to: {"server"}, id: Rpcs, acks: SUBSET Rpcs]
    \cup [type: {"NEED_ACK"}, to: {"client"}, id: Rpcs]
    \cup [type: {"BUSY", "UNKNOWN"}, to: Nodes, id: Rpcs]
    \cup [type: {"UNREACHABLE"}, to: Nodes, id: {0}]

\* Type of every variable; only the losses that are left change in conf.
TypeOK ==
    /\ \E c \in Configs : conf = [c EXCEPT !.losses = conf.losses]
    /\ conf.losses \in Nat
    /\ rpc \in [Nodes -> [Rpcs -> RpcType \cup {NoRpc}]]
    /\ call \in [Rpcs -> {"idle", "pending", "returned", "failed", "aborted"}]
    /\ exec \in [Rpcs -> Execs]
    /\ lost \in [Rpcs -> BOOLEAN]
    /\ acks \in Seq(Rpcs)
    /\ timer_ticks \in Nat
    /\ up \in [Nodes -> BOOLEAN]
    /\ net \subseteq PktType

\* The client still waits for the response of r.
Waiting(r) == Exists("client", r) /\ ~Complete(rpc["client"][r])

\* "A server must not discard its state for an RPC until it knows that the
\* client has received the result" (protocol.md): once the request was given
\* to the server application, the server RPC lives as long as the client
\* waits, whatever packets are lost, late or repeated, unless the server's
\* own socket, memory or network has failed.
ResponseKept ==
    \A r \in Rpcs : Waiting(r) /\ exec[r] > 0 /\ ~lost[r] =>
        rpc["server"][r].state \in {"in_service", "outgoing"}

\* An ack is only on its way to the server when the client is done with the
\* RPC, wherever it is: in peer->acks, in an ACK packet or in the header of
\* a DATA packet that may be sent again.
AckOnlyWhenDone ==
    LET pending == {r \in Rpcs : Waiting(r)}
    IN  /\ Range(acks) \cap pending = {}
        /\ \A p \in net : /\ p.type = "ACK" => Acked(p) \cap pending = {}
                          /\ p.type = "DATA" => p.ack \notin pending
        /\ \A r \in Rpcs : Exists("client", r) =>
              Range(rpc["client"][r].out.hdrs) \cap pending = {}

\* While a client waits, its request is executed at most once (unless the
\* server lost the RPC by a failure), and what it has of the response comes
\* from one execution.
OnceWhilePending ==
    \A r \in Rpcs : Exists("client", r) /\ ~lost[r] =>
        /\ Waiting(r) => exec[r] <= 1
        /\ \A i \in Received(rpc["client"][r].in) :
              rpc["client"][r].in.got[i] = 1

\* "Homa ensures at-most-once semantics for RPCs" (protocol.md:123).
AtMostOnce == \A r \in Rpcs : exec[r] <= 1

\* Every call returns: with a response, or with an error after a timeout.
CallCompletes == \A r \in Rpcs : call[r] = "pending" ~> call[r] # "pending"

\* The server does not keep the state of a finished call for ever, although
\* the client's acks may be lost and the client may have closed its socket.
ServerForgets ==
    \A r \in Rpcs : (Exists("server", r) /\ call[r] # "pending")
                        ~> ~Exists("server", r)
=============================================================================
