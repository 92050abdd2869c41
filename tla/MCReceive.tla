----------------------------- MODULE MCReceive ------------------------------
(***************************************************************************)
(* The receiving host for TLC: the reassembly of one message (HomaMsgIn),  *)
(* the buffer pool (HomaPool) and the receiving threads (HomaWait, in      *)
(* three instances).  Init chooses the one that is explored; the others    *)
(* stay as they are. HomaMsgIn and HomaPool, about which there are proofs, *)
(* are extended: their constants are given in the cfg.                     *)
(***************************************************************************)
EXTENDS HomaMsgIn, HomaPool, TLC

CONSTANTS t1, t2, a, p, s, b0, b1, c1, c2, r1, r2, r3, none

VARIABLES focus, rpc, thr, ready_rpcs, interests, shut, scan

waitVars == <<rpc, thr, ready_rpcs, interests, shut, scan>>
allVars == <<focus, vars, poolVars, waitVars>>

\* All byte ranges of a 5-byte message, and ranges that run one byte past its
\* end: packets of any size, in any order, overlapping in every way.
AnyRange == {r \in [start : 0 .. 5, end : 1 .. 6] : r.start < r.end}

\* With 3 units to a bpage: two messages of which a bpage holds only one, and
\* one that needs a full bpage and part of another, on two cores: not enough
\* bpages for all.
TwoBpages == {b0, b1}
TwoCores == {c1, c2}
ThreeRpcs == {r1, r2, r3}
Uneven == r1 :> 2 @@ r2 :> 2 @@ r3 :> 4

\* A client and a server RPC of two packets, and aborts, also by a scan of the
\* socket.
Shared == INSTANCE HomaWait WITH
       Threads <- {t1, t2}, Client <- {a}, Private <- {}, Server <- {s},
       NumPkts <- 2, MaxSkbs <- 1, Actor <- FALSE, MaxRefs <- 4,
       NoRpc <- none, NoThread <- none, Events <- {"abort", "scan"}

\* A private and a shared client RPC, aborts and shutdown.
Priv == INSTANCE HomaWait WITH
       Threads <- {t1, t2}, Client <- {a, p}, Private <- {p}, Server <- {},
       NumPkts <- 1, MaxSkbs <- 1, Actor <- FALSE, MaxRefs <- 4,
       NoRpc <- none, NoThread <- none,
       Events <- {"abort", "shutdown"}

\* The in-kernel receive path, with failing copies, nonblocking receivers and
\* shutdown, without aborts.
Kernel == INSTANCE HomaWait WITH
       Threads <- {t1, t2}, Client <- {a}, Private <- {}, Server <- {s},
       NumPkts <- 2, MaxSkbs <- 1, Actor <- TRUE, MaxRefs <- 4,
       NoRpc <- none, NoThread <- none, Events <- {"shutdown", "fault", "nonblocking"}

ASSUME ReceiveAssumptions ==
    /\ PoolAssumptions
    /\ Shared!WaitAssumptions /\ Priv!WaitAssumptions /\ Kernel!WaitAssumptions

ReceiveInit ==
    /\ focus \in {"msgin", "pool", "shared", "private", "kernel"}
    /\ Init
    /\ PoolInit
    /\ CASE focus = "private" -> Priv!Init
         [] focus = "kernel" -> Kernel!Init
         [] OTHER -> Shared!Init

\* The message and the pool may stop; the threads may not.
Stops == focus \in {"msgin", "pool"} /\ UNCHANGED allVars

ReceiveNext ==
    \/ focus = "msgin" /\ Next /\ UNCHANGED <<focus, poolVars, waitVars>>
    \/ focus = "pool" /\ PoolNext /\ UNCHANGED <<focus, vars, waitVars>>
    \/ focus = "shared" /\ Shared!Next /\ UNCHANGED <<focus, vars, poolVars>>
    \/ focus = "private" /\ Priv!Next /\ UNCHANGED <<focus, vars, poolVars>>
    \/ focus = "kernel" /\ Kernel!Next /\ UNCHANGED <<focus, vars, poolVars>>
    \/ Stops

ReceiveSpec == ReceiveInit /\ [][ReceiveNext]_allVars

\* Threads are alike.
Symmetry == Permutations({t1, t2})

-----------------------------------------------------------------------------
(* The properties of HomaWait; those of HomaMsgIn and HomaPool are checked *)
(* as they stand.                                                          *)

\* Packets and errors are attended to by somebody, and no handoff is missed.
Attended ==
    CASE focus = "shared" -> Shared!Attended
      [] focus = "private" -> Priv!Attended
      [] focus = "kernel" -> Kernel!Attended
      [] OTHER -> TRUE

\* An RPC's reference count is the number of its users, and it is not freed
\* while it has any.
RpcRefsExact ==
    CASE focus = "shared" -> Shared!RpcRefsExact
      [] focus = "private" -> Priv!RpcRefsExact
      [] focus = "kernel" -> Kernel!RpcRefsExact
      [] OTHER -> TRUE

\* A message is returned once, and by the in-kernel receive path as a whole.
ReturnedOnce ==
    [][/\ focus = "shared" => Shared!ReturnsOnce
       /\ focus = "kernel" => Kernel!ReturnsOnce]_waitVars
=============================================================================
