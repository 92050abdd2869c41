# Homa: specifications, model checking and proofs

TLA+ specifications of the Linux kernel module in this repository, the TLC
configurations that check small instances of them, and TLAPS proofs of the
properties that matter most. `PROJECT.json` ties every definition to the source
lines it models, every property to a broken variant of the code that violates
it, and lists the hazards of the code with the properties that cover them.

Contents: 1 the system; 2 the modules; 3 the runs; 4 fairness; 5 the proofs;
6 where the code departs from what is said of it; 7 what is not modelled;
8 how to run the tools.

## 1. The system

Homa carries remote procedure calls. A client thread sends a request with
`sendmsg`, the server's `recvmsg` returns it, the server replies with
`sendmsg`, and the client's `recvmsg` returns the response. Each RPC is a
`struct homa_rpc` on both sides with a state (OUTGOING, INCOMING, IN_SERVICE,
DEAD). Messages travel as DATA packets: the first bytes are unscheduled, the
rest needs GRANTs from the receiver. Lost packets are requested with RESEND,
silent peers time out, and servers forget an RPC when the client has acked it.

Code runs as application threads, softirq handlers on every core, a timer
thread and pacer threads. The lock order is RPC lock, then socket lock, then
leaf locks ("Homa Locking Strategy" in `homa_impl.h`).

| part | state | what is hard |
|---|---|---|
| incoming messages (`homa_incoming.c`) | gaps, `recv_end`, `bytes_remaining`, queued packets | reordered, repeated, overlapping packets; copying without the lock |
| buffer pool (`homa_pool.c`) | bpage references and owners, `free_bpages`, waiting RPCs | counters without locks; exhaustion |
| receivers (`homa_incoming.c`, `homa_interest.c`) | interests, `ready_rpcs` | lost wakeups, signals, several threads on one RPC |
| life of an RPC (`homa_rpc.c`) | state, error, references, links | an end in two locked parts; reaping against users and scans |
| grants (`homa_grant.c`) | ranks, grantable lists, `total_incoming`, `stalled_rank` | shared counters; stalls that must be resumed |
| client and server (`homa_incoming.c`, `homa_outgoing.c`, `homa_timer.c`) | an RPC on two hosts, packets in flight, pending acks | loss, repetition, timeouts against late packets |
| transmission, pacer (`homa_outgoing.c`, `homa_pacer.c`) | `msgout`, throttled list | two transmitters of one message |
| queueing discipline (`homa_qdisc.c`) | deferred queues, `last_defer`, link idle time, devices | a wakeup that depends on `last_defer`; structures that go while they are used |
| sending (`homa_plumbing.c`, `homa_sock.c`) | transmit memory | senders that wait; an RPC that dies while its message is copied |
| packet buffers (`homa_skb.c`) | pages, stashes, pools | references of shared pages |
| peers (`homa_peer.c`) | peer table, references, routes, priorities | collection against lookup; a route replaced under a sender |
| sockets (`homa_sock.c`) | port table | RCU walks against close and bind |
| offload (`homa_offload.c`) | GRO lists, `held_skb`, load balancing | a held packet that has left its list |
| tracing, metrics, loading | buffers, files, module parts | readers against writers; failures at any step |

## 2. The modules

Variables and record fields have the names of the C fields, actions those of
the C functions. (Where one TLC module extends two components their names must
differ: `HomaPool` has `PoolInit`, `PoolNext`, `InitMessageIn` and `EndRpc`,
`HomaQdev` has `QdevInit` and `QdevNext`.) A function that releases a lock in the
middle, or that uses atomic operations without one, is several actions, each
mapped to its own lines. An operator whose comment begins with "Mutant" is a broken variant of
the definition below it; no specification uses it.

| module | models | a step is |
|---|---|---|
| `MessageAssembly` | what reassembly promises: bytes are accepted, stored, and delivered when all are stored | abstract |
| `HomaMsgIn` | one incoming message: gaps, packets, RESENDs, the copying thread | a region under the RPC lock; the copy is a step without it |
| `HomaPool` | the buffer pool of a socket | one atomic operation, or a region under a bpage or socket lock |
| `HomaWait` | the RPCs of a socket, threads in `recvmsg`, aborts, shutdown, the reaper | a region under an RPC or socket lock |
| `HomaGrant` | grants to competing messages | a region under the grant lock, or code between two reads that may be stale |
| `HomaProtocol` | calls between two hosts over an unreliable network, with timers | what a thread does under an RPC lock |
| `HomaSend` | `sendmsg`, the filling of a message, transmit memory, poll, connect | what happens between two moments at which the lock is free |
| `HomaSegment` | the division of a message into packets and segments, and back | a packet built, split by the NIC, or received |
| `HomaSkb` | pages of outgoing packets, copied and zero-copy, stashes and pools | a region under a pool lock, or one reference operation |
| `HomaXmit` | `homa_message_out_fill`, `homa_xmit_data`, retransmissions, the throttled list, the pacer | a region under an RPC lock or the throttle lock |
| `HomaQdisc` | deferred packets of Homa and TCP, the pacer thread and its helpers | a region under the defer lock, or a turn of a loop |
| `HomaQdev` | the `homa_qdisc_dev` of a device as qdiscs come and go | an RCU step, a mutex region or one reference operation |
| `HomaPeer` | the peer table, its collector, namespaces that end | the same |
| `HomaRoute` | the route cached in a peer | the same |
| `HomaPrio` | priorities of unscheduled packets, CUTOFFS packets | one read or write of the shared cutoffs, or a handler |
| `HomaSock` | the socket table: ports, bind, close, lookups, scans | one pointer followed, or a region under the table lock |
| `HomaOffload` | GRO, load balancing, TCP hijacking, the batch in `homa_softirq` | a packet handled |
| `HomaTimetrace`, `HomaMetrics` | time traces and the metrics file under readers | a call, or an access to shared memory |
| `HomaLoad` | loading and unloading, threads, namespaces | one registration or allocation |
| `Lists` | the kernel's linked lists as sequences | |
| `*Proofs`, `HomaPoolSteps`, `ListLemmas` | theorems and lemmas (section 5) | |
| `MC*` | instances for TLC (section 3) | |

What the models abstract:

- **HomaMsgIn.** The gap list is a set ordered by start, since the code keeps it
  sorted. A packet is a byte range. `handed_off` stands for interests and
  `ready_rpcs` (`HomaWait`), a bpage count of 0 or 1 for `HomaPool`.
- **HomaPool.** Lengths are in allocation units. The order in which bpages are
  tried only affects locality and is left open; the clock is `LeaseExpires`.
  Releases happen on a core that is not inside an allocation, which runs with
  bottom halves disabled.
- **HomaWait.** A message is `NumPkts` packets. `ending` marks an RPC between the
  two locked parts of `homa_rpc_end`. `Events` selects what the environment
  does; `late_abort`, an abort that meets an RPC in that interval, occurs only
  in the run `wait_dead`, whose subject it is.
- **HomaGrant.** Lengths are in packets, and an RPC's number is its birth time.
- **HomaProtocol.** A message is the set of its packets that have arrived; the
  receiver may grant at any time. The network is a set of packets with a
  capacity: a packet that does not fit is lost, `losses` more may be lost
  without a reason, and with "duplicate" a delivered packet may stay. Ticks
  wrap around at `Ticks`. `exec` counts executions and is capped by `MaxExec`.
  `lost` marks RPCs that the server lost because its own socket, memory or
  network failed.
- **HomaXmit, HomaQdisc.** Packets take one unit of link time, and the NIC's
  backlog drains one unit at a time. In `HomaXmit` a message can be sent, granted
  and ended while it is still being copied, and `MaxResent` bounds the packets that
  RESENDs make it send again. In `HomaQdisc` the pacer takes a packet off its queue
  under the defer lock and hands it to the NIC in a later step.
- **HomaSkb.** `mem` records for each byte of a page the packet whose data was
  written there last. `Iters` are the pieces of a zero-copy send: pages of the
  caller, some of one compound page, that begin or end inside a page or not. A
  packet is copied whole by `homa_skb_append_from_skb`, and the caller's compound
  pages are not of the order of Homa's own pages.
- **HomaPeer, HomaSock.** The lookup and the reference it takes are two steps. A
  thread whose reference comes after the last one was dropped is marked `late`:
  `refcount_inc` does not revive a count of zero, and the release of such a thread
  changes nothing. `lost` (`HomaPeer`) counts the insertions that an unlocked
  update of `num_peers` has overwritten; `stray` (`HomaSock`) marks a scan that has
  followed the pointer of a removed socket to a freed one. The properties except
  exactly these (section 6).
- **HomaSock.** Chains are modelled by their pointers: `hlist_del_rcu` leaves
  the `next` pointer of the removed node in place, and readers follow it.
- **HomaPrio.** One administrator writes the cutoffs, and one core at a time puts a
  CUTOFFS packet together; `torn` marks a packet during which the version changed.
  `num_priorities` is at least 1.
- **HomaMetrics.** A line is one unit; `failed` marks a buffer that could not be
  grown.
- **RCU** (`HomaQdev`, `HomaPeer`, `HomaRoute`, `HomaSock`). A structure given to
  `call_rcu` or `kfree_rcu` records the readers that were active then, and is
  freed when they have left.

## 3. The runs

`MCReceive`, `MCTransmit`, `MCHost` and `MCLive` put the components of a host side
by side. Their variable `focus`, chosen by Init and never changed, says which
component is explored; the components share no state, so this explores each of
them completely and none of their products. Components with proofs
(`HomaMsgIn`, `HomaPool`, `HomaXmit`, `HomaQdev`, `HomaRoute`) are extended, so that
a run checks the very definitions that the theorems are about; the part stays in
its initial state, where its invariants are checked too, while another is
explored. The other components are instances. `HomaProtocol` is where hosts
interact.

| run | component: instance | shows |
|---|---|---|
| `receive` | `HomaMsgIn`: 5 bytes, all byte ranges up to one byte past the end, batches of 2 | `ArrivalsExact`, `KeptOnce`, `RetransExact`: gaps, counters and RESENDs are exact and no byte is lost or stored twice; `PacketsAttended`: no packet waits for a wakeup that does not come; `ImplementsAssembly` |
| | `HomaPool`: 2 bpages of 3 units, 2 cores, messages of 2, 2 and 4 units | `DistinctBytes`, `BpageRefsExact`, `ClaimsCovered` |
| | `HomaWait`: 2 threads; a client and a server RPC with aborts and scans; a private and a shared RPC with aborts and shutdown; the in-kernel path with failing copies, nonblocking receivers and shutdown | `Attended`: nothing to do is overlooked; `RpcRefsExact`; `ReturnedOnce` |
| `live` | `HomaMsgIn`: 7 bytes in 4 segments; `HomaPool`: 3 bpages, 1 core, 3 messages that do not all fit; `HomaWait`: 2 threads, 1 RPC, aborts, shutdown | `EventuallyReturned`, `WaitersServed`, `ReceiversServed` |
| | `HomaXmit`: 2 messages, a sender, the pacer; `HomaQdisc`: 2 qdiscs, Homa and TCP packets; `HomaPrio`: 3 levels, a change of the cutoffs, a lost packet | `SentInTheEnd`, `DeferredSent`, `CutoffsLearned`: a sender always finds a level and learns the current version |
| `rpc` | `HomaProtocol`: 1 or 2 calls, messages of 1 or 2 packets, five settings | `ResponseKept`, `AckOnlyWhenDone`, `OnceWhilePending` |
| `rpc_live` | 1 call, up to 2 losses besides overload, aborts, closed sockets | `CallCompletes`, `ServerForgets` |
| `transmit` | `HomaSend`: 2 senders, memory for one message, 3 RPCs | `SendConsistent`: memory, buffers and references are accounted for |
| | `HomaSegment`: lengths, unscheduled limits, segment and GSO sizes up to 5 | `SegmentsExact`: each byte is sent once, arrives in its place, and no more than the limit without a grant |
| | `HomaSkb`: 2 cores, 3 pages of Homa and 3 of a caller, 3 packets | `PagesConsistent`: no page is lost, or reused while a packet refers to it |
| | `HomaXmit`: messages of 2 packets and 1, 2 senders, pacer thread and helper, one retransmission | `ThrottledExact`: a message with packets to send is on the throttled list or with a thread, and the NIC queue stays short |
| | `HomaQdisc`: 2 qdiscs, 2 RPCs, four workloads | `DeferralConsistent`: queues, `last_defer` and the pacer's position agree; an RPC with deferred packets is not reaped |
| | `HomaQdev`: 3 structures, 2 qdiscs, a scanner | `QdevConsistent` |
| `host` | `HomaGrant`: 2 cores, up to 4 messages of 2 senders, five settings | `GrantStateExact`, `IncomingBound`, `NoneForgotten`, `GrantsAdvance` |
| | `HomaPeer`: 3 keys in 2 namespaces, a namespace that ends, up to 2 users; `HomaRoute`: 2 senders, 3 routes | `PeersConsistent`, `DstRefsExact` |
| | `HomaSock`: 3 sockets in 2 chains, two of which close or are bound, a finder, a scan | `SocktabConsistent` |
| | `HomaOffload`: 3 to 5 packets, 3 cores, each load balancer | `GroConsistent` |
| | `HomaTimetrace`, `HomaMetrics`, `HomaLoad` | `TraceConsistent`, `MetricsConsistent`, `LoadConsistent` |

Why the bounds are enough. Five bytes allow two gaps at once, and gaps that are
split, trimmed at either end and filled; ranges past the end cover packets that
must be rejected. In the pool two small messages compete for a bpage and a
third needs a full one besides, so sharing, giving up, stealing and waiting all
occur. Two threads and two packets with batches of one let packets, aborts and
a second thread arrive during a copy. `MaxRefs` bounds the references that
calls for a private RPC leave behind (see `wait_leak`). Four messages of two
senders fill two slots and both grantable lists; the candidate array has room for
as many RPCs as are active at once, as with the default settings (section 6). Four
ticks are the fewest with which the sign of a wrapped difference means anything.
A message of two packets, one of them unscheduled, and a short one make the
sender, a grant, a RESEND and the pacer meet in `HomaXmit`. In the network a
capacity of 2 or 3 makes overload happen; the setting with 30 never overloads, so
that every reordering of repeated packets of a call occurs. Settings are small records because their
product would be too large; each combines the events that meet in the code. The
proofs of section 5 lift the bounds for six components.

Deadlock checking is off where everything may have finished; `receive` has it
on, with an explicit step for the two parts that may stop.

Six runs show where the code departs from what the repository says of it
(`findings` in `PROJECT.json` quotes the lines):

| run | property | what happens |
|---|---|---|
| `pool_count` | `FreeCountExact` | a release between test and decrement leaves a free bpage uncounted |
| `wait_leak` | `DeadReaped` | receiving a private RPC leaves a reference behind |
| `wait_dead` | `DeadUnlinked` | an abort during `homa_rpc_end` queues the dead RPC |
| `rpc_once` | `AtMostOnce` | a late copy of a request is executed after the server has forgotten the RPC |
| `grant_stall` | `GrantedInTheEnd` | a stalled RPC that moves to a better rank is never granted again |
| `send_wait` | `SenderWoken` | a sender that was woken too late to get memory sleeps again without SOCK_NOSPACE, and no release wakes it |

## 4. Fairness

All fairness is weak: kernel code that can go on does so. The properties of `live`
say that a state in which something is owed is left again and again (`[]<>`),
for each message, thread or packet by itself.

- `HomaMsgIn`: the timer asks for missing ranges again and the sender answers,
  so a missing packet keeps arriving; receiving threads run; bpages are freed.
- `HomaPool`: a core inside the pool goes on, leases expire, the application
  returns its buffers, and some thread keeps calling `homa_pool_check_waiting`,
  as `homa_interest_wait` does through `homa_rpc_reap`. The last is an assumption
  about the load: with no receiving thread and no packet nobody calls it.
- `HomaWait`: threads run and call `recvmsg` again, scans and shutdown end, the
  reaper gets its turn. No packet, signal or abort is assumed.
- `HomaProtocol`: threads run, both timers tick, and while packets for a host
  are in flight one of them, any one, arrives in the end. Losses without a
  reason are bounded by `losses`; overload may drop packets for ever.
- `HomaXmit`, `HomaQdisc`: senders, the pacer thread and its helpers run, the NIC
  transmits. Retransmissions stop in the end (`MaxResent`).
- `HomaSend` (`send_wait`): senders run, RPCs that have been sent end and are reaped,
  so that the sleeping sender cannot be blamed on the load.
- `HomaPrio`: a sender keeps sending, packets arrive, the clock advances, the
  administrator and the core that answers finish what they have begun.
- `HomaGrant` (`grant_stall`): cores run and granted packets arrive, so that the
  missing grant cannot be blamed on the environment.

## 5. The proofs

Every theorem has the form `Spec => []P` (or a step or refinement property) and
is proved by TLAPS for every value of the constants that satisfies the stated
assumptions. Where a run checks the property, the run shows it on an instance
and the theorem for all. TLC evaluates the assumptions of every component on the
instance of its run (the ASSUMEs of `HomaMsgIn` and `HomaProtocol`, and
`ReceiveAssumptions`, `TransmitAssumptions` and `HostAssumptions` in the MC
modules).

| theorem | states | for any |
|---|---|---|
| `HomaMsgInProofs!TypeCorrect`, `ReassemblyExact`, `KeptOnceHolds`, `Delivery`, `NoLostPackets`, `RetransCorrect` | `TypeOK`, `ArrivalsExact`, `KeptOnce`, `DeliveredWhole`, `PacketsAttended`, `RetransExact` | message length, set of nonempty packets, batch size, unscheduled bytes |
| `HomaMsgInProofs!Monotone` | no step forgets a byte that was received or stored | the same |
| `HomaMsgInProofs!Refinement` | `HomaMsgIn` implements `MessageAssembly` | the same |
| `HomaPoolProofs!PoolType`, `BpageRefs`, `EnoughFreePages`, `Waiters`, `BytesDistinct` | `PoolTypeOK`, `BpageRefsExact`, `ClaimsCovered`, `WaitersVisible`, `DistinctBytes` | finite sets of bpages, cores and RPCs, lengths of messages, size of a bpage |
| `HomaRouteProofs!DstRefs` | `DstRefsExact` | number of routes, senders and changes |
| `HomaXmitProofs!ThrottledList` | `ThrottledExact` | number and lengths of messages, senders, unscheduled packets, retransmissions, limits |
| `HomaQdevProofs!QdevLife` | `QdevConsistent` | number of structures, qdiscs and scanners |
| `HomaProtocolProofs!ProtocolType`, `AcksDone`, `ResponsesKept`, `ExecutedOnce` | `TypeOK`, `AckOnlyWhenDone`, `ResponseKept`, `OnceWhilePending` | number of RPCs, lengths, ticks, timeouts, capacity, losses and faults |

The assumptions are about sizes and kinds: sets are finite where they are
counted, lengths and limits are natural numbers, "no RPC" is not an RPC, a
message is at most `HOMA_MAX_MESSAGE_LENGTH` long (`homa_message_in_init` rejects
others). `HomaProtocol` assumes that `MaxExec`, where its counter of executions
stops, is more than 1, so that the cap does not hide a second execution.

None of the properties is inductive as it stands. The inductive invariants:

- **HomaMsgIn, `IndInv`.** That a packet which fits in a gap can be kept needs
  the gaps to be disjoint and below `recv_end`; that `bytes_remaining` stays a
  count needs the packet's bytes to be exactly bytes that were missing; that
  delivery is complete needs every received byte to be in the queue, in the
  batch or in the buffers. `IndInv` is their conjunction with facts about the
  batch and the result. Preservation first treats `homa_add_packet` as a function
  of `msgin` (rejected, in sequence, after a hole, into a gap) and then goes
  through the actions.
- **HomaPool, `PoolInv`** (in `HomaPoolSteps`). `StepsInv` says where every core is
  in `homa_pool_alloc_msg`, how many buffers its message then has, and that no
  two cores allocate for one RPC. `PagesInv` says that buffers lie apart inside
  their bpages, that the owner of a bpage has allocated past every buffer in it,
  so that what it allocates next is free, and that references are exact.
  `ClaimsCovered` is inductive only in its second form: `free_bpages`, plus what
  is claimed, plus what was subtracted too much, plus the releases that are under
  way, is at most the number of bpages without a reference. It is an inequality
  because of the lost bpage that `pool_count` shows. `WaitersVisible` covers the
  queue. `HomaPoolSteps` holds the steps that leave the bpages alone and
  `HomaPoolProofs` those that take, share or release one; sums over cores are
  cardinalities of sets of pairs.
- **HomaRoute, `RouteInv`.** An entry's references are its holders, and a sender
  between `rcu_dereference` and `dst_hold_safe` is a reader of the entry it has
  read if that is being freed.
- **HomaXmit, `XmitInv`.** One pacer at a time holds the mutex; only it forces a
  packet, and from its look at the NIC queue until then other threads can have
  added one packet more than the limit, which gives the bound of two, besides what
  RESENDs have forced. Messages are filled by senders only, so that a packet which
  is linked after the pacer has dropped the RPC is still with a thread.
- **HomaQdev, `QdevInv`.** The list holds exactly the structures that are not
  being freed, and at most one of them has references; one without references
  is with the thread that dropped the last of them and is about to unlink it; a
  reader looks at a live structure or at one that waits for this reader.
- **HomaProtocol, `Inv`.** Two facts are stable: the client has started an RPC
  (`Known`), and the client is done with it (`Done`). Every packet in flight is
  true for ever in these terms: acks, wherever they are, name RPCs that are done;
  an UNKNOWN packet for the server names an RPC that is done; response packets of
  a call that waits come from its first execution. From this follows what
  handlers may do: each is shown to make one of a few moves on the client's and
  on the server's side of an RPC (`ClientMove`, `ServerMove`), and the moves
  preserve `Inv`. `homa_timer`, which visits all RPCs, is treated RPC by RPC.

`ListLemmas` has the facts about insertion into and removal from lists, and
about cardinalities of sets that gain or lose an element.

In the larger proof modules Zenon is the default backend and the leaves that need
arithmetic, records or function updates name SMT: preparing an obligation for
SMT becomes slower with each one that precedes it in a module, and has a time
limit.

Only model-checked:

- liveness (`live`, `rpc_live`, `grant_stall`, `send_wait`), which is
  outside the prover's reach with its fairness and ENABLED;
- `HomaGrant`, `HomaQdisc`, `HomaSend`, `HomaSkb`, `HomaPeer`, `HomaOffload`: they
  sum over sets or fold over sequences (`FiniteSetsExt`, `SequencesExt`), and
  facts about folds need an induction over data that the prover cannot
  instantiate;
- `HomaSegment`: its geometry is nonlinear arithmetic (products and quotients of
  segment counts and sizes). TLC checks it for all small sizes;
- `HomaWait`, `HomaSock`, `HomaTimetrace`, `HomaMetrics`, `HomaLoad`, `HomaPrio`:
  no proof has been written.

## 6. Departures without a run

The findings of section 3 have runs. The following were met while modelling. Some
occur only in a setting that the passing runs leave out; it is named. Others occur
in the passing runs: the model marks them with a history variable, and the
properties except what is marked.

Receiving and the pool

- With `RegionFirst = FALSE`, `EventuallyReturned` fails: a response that arrives
  after `sendmsg` but before SO_HOMA_RCVBUF leaves the RPC in RPC_INCOMING without
  a message (`homa_incoming.c:866`); `man/homa.7:152` only asks for the option to
  be set before the first `recvmsg`.
- `WaitersServed` fails when a message needs more bpages than the cores leave
  unowned (two bpages, one core, a message of two bpages): a bpage that a core
  owns and no message uses is not in `free_bpages`, and it is stolen only after a
  claim has succeeded. `man/homa.7:478` says that transmission restarts when
  space becomes available.
- With aborts on the in-kernel path `ReturnedWhole` fails: the result of the copy
  overwrites the error of an abort (`homa_incoming.c:1449`), and a second thread
  returns the message while the first still copies.
- `homa_wait_private` returns an RPC's error as its own result
  (`homa_incoming.c:1285`); its comment and the unit test
  `homa_wait_private__rpc_has_error` expect 0 with the error in `rpc->error`.
- `homa_sock_shutdown` walks `active_rpcs` without `homa_protect_rpcs`
  (`homa_sock.c:327`): between `ShutPick` and `ShutEnd` the RPC can be freed. It
  does not wake threads that wait for transmit memory.

Client and server

- With the fault "crash" `ServerForgets` fails: a server that holds a response for
  a host that has crashed sends NEED_ACK for ever (`homa_timer.c:73`).
- `homa_xmit_unknown` (`homa_outgoing.c:721-724`) releases the peer also when
  `homa_peer_get` has returned an error.

Sending, queueing and offload

- Of two competing senders one can be overtaken for ever, apart from what
  `send_wait` shows. `homa_poll` sets SOCK_NOSPACE without looking at the memory
  again.
- The array of candidates for grants has 8 entries (HOMA_MAX_CAND_RPCS), as many as
  `max_overcommit` by default, but `max_overcommit` may be raised to 10
  (HOMA_MAX_GRANTS). With `MaxCand` smaller than `max_overcommit`, `NoneForgotten`
  fails: an RPC that is dropped from the array is not considered again until
  another event.
- With qdiscs that are destroyed while they have deferred packets
  (`destroy = "any"`) `DeferralConsistent` fails: `homa_qdisc_destroy`
  (`homa_qdisc.c:362-373`) leaves `cur_tcp_qdisc` and `last_defer` as they were. A
  qdisc can also be destroyed between the moment the pacer takes its last deferred
  packet and the moment it queues that packet (`homa_qdisc.c:673-682`); the model
  has both steps but not the qdisc's memory.
- `homa_skb_stash_pages` (`homa_skb.c:145`) uses `smp_processor_id` with preemption
  enabled.
- The backlog count of an offload core (`homa_offload.h:27-31`) is raised only by the
  Gen2 balancer (`homa_offload.c:548`) and lowered after every batch, whoever chose
  the core (`homa_plumbing.c:2855`); the hook for
  IPv6 TCP falls back on the IPv4 offload; unhooking does not wait for readers. The
  model takes the two assignments of `homa_gro_unhook_tcp` as one step and has no
  IPv6 hook: between them a running `homa_tcp_gro_receive` can find
  `tcp_net_offload` NULL.
- A fresh peer has no cutoff but that of level HOMA_MAX_PRIORITIES - 2
  (`homa_peer.c:376-377`): before the first CUTOFFS packet a sender with fewer than
  HOMA_MAX_PRIORITIES - 1 levels finds none, and the loop of `homa_unsched_priority`
  (`homa_peer.c:598-601`) runs below the array. `PriorityFound` excepts this. With
  `num_priorities` 0, which the sysctl allows, the loop of `homa_prios_changed`
  (`homa_utils.c:212-226`) does the same; the model has values from 1.
- `homa_data_pkt` reads the cutoffs and then the version without a lock
  (`homa_incoming.c:926-930`) while `homa_dointvec` changes them
  (`homa_plumbing.c:3003-3019`): a packet can carry old cutoffs with the new version,
  which `homa_wire.h:484` calls their "unique identifier", and the sender then keeps
  them until the next change (`torn`). `cutoff_version` is an int that travels in 16
  bits.

Peers and sockets

- `homa_peer_get` takes its reference with `refcount_inc` after an RCU lookup
  (`homa_peer.c:431-433`): if the collector has dropped the last one in between, the
  peer is freed although `homa_peer.h:350-352` says that the reference prevents it
  (`late`).
- `homa_peer_free_net` counts peers down without the lock of the table
  (`homa_peer.c:146-147`; `homa_impl.h:532-533` says "Managed by homa_peer.c under the
  peertab lock"), so that an insertion of another namespace can be lost to
  `num_peers` (`lost`).
- The comment of `homa_peer_prefer_evict` differs from its code.
- When two sockets close during a scan, the one it stands on can keep a pointer to
  one that is freed before the scan follows it (`stray`); `homa_sock.c:68-69` calls it
  "safe to remove sockets from the table while the scan is in progress". A bind can
  move a socket to another chain under a reader.
- `homa_sock_find` and `homa_socktab_next` use `sock_hold` on a socket whose count may
  already be zero (`late`; `homa_sock.c:119`, `464`).

Loading, traces and metrics

- A failure inside `homa_init` leaves `init_homa` false, so that `homa_destroy` is not
  called (`homa_plumbing.c:741`, `homa_utils.c:24-26`); the error path does not call
  `tt_destroy`; the pacer's error path stops a thread that was not created; protocols
  are registered before `register_pernet_subsys`, and `homa_destroy` runs before
  `inet_del_protocol`; `homa_offload_init` and `homa_skb_init` leave parts behind when
  they fail half way.
- `tt_print_file` lowers `tt_freeze_count` also when its file could not be opened, and
  leaves `active` set when tracing is not initialised; `tt_destroy` holds `tt_mutex`
  during `proc_remove`.
- `homa_metric_append` doubles `capacity` before an allocation that can fail
  (`homa_metrics.c:84-87`); `homa_metrics.h:797` calls it the number of bytes
  available, and the next lines are written past the end of the old buffer
  (`failed`).

## 7. Not modelled

- Header layouts, ioctl numbers and other declarations (`homa_wire.h`, `homa.h`):
  the models use their fields.
- Socket options and sysctl are configuration; HOMAIOCINFO, debugfs statistics,
  `homa_devel.c`, `homa_tx_lat_*` and hashing only read or print.
- `homa_plumbing.c:1992-2450` repeats older definitions of functions that the
  compiled ones replace.
- The receiver library (`homa_receiver.cc`) is a single-threaded wrapper around
  `recvmsg`; `HomaPool` models what it does to bpages.
- `homa_pool_free`, `homa_pool_get_rcvbuf`, `homa_pool_avail_bytes`: destruction and
  statistics. `homa_rpc_alloc_server` failing after `homa_message_in_init`
  (`homa_rpc.c:200`) would need the pool, the grants and the RPC's memory in one
  model, which is out of TLC's reach.
- Programs for testing and benchmarking (`util`, `test`, `cloudlab`, `HomaKBench`).

## 8. Running the tools

    tlc -workers 2 -config receive.cfg MCReceive     # and likewise for the others
    tlapm HomaPoolProofs.tla

`PROJECT.json` names the module of each configuration. Each passing run takes less
than five minutes with two workers. A proof module takes between one and about
twenty minutes from nothing; tlapm remembers what it has proved.
