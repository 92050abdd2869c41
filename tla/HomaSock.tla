------------------------------ MODULE HomaSock ------------------------------
(***************************************************************************)
(* The socket table: homa_sock.c's hash table of sockets by port, the      *)
(* choice of default ports, bind, lookups by incoming packets, scans of    *)
(* the whole table (homa_timer, homa_abort_rpcs) and the end of a socket.  *)
(*                                                                         *)
(* The table is modified under write_lock and read under RCU only.  The    *)
(* bucket chains are modelled by their pointers (head and next), because   *)
(* hlist_del_rcu leaves the next pointer of the removed node in place and  *)
(* a reader that stands on that node follows it.                           *)
(*                                                                         *)
(* A lookup (a finder) walks one node per step and stays in its RCU read   *)
(* section for the whole walk.  A scan is in one during homa_socktab_next; *)
(* between calls it has only a reference on its socket.  Both take their   *)
(* reference one step after they have found the socket.  A thread that     *)
(* does so when no reference is left is late: refcount_inc saturates, the  *)
(* socket is freed all the same, and its later sock_put has no effect.     *)
(* A freed socket is not allocated again and keeps its contents; what a    *)
(* reader would find there otherwise is undefined and left out.            *)
(*                                                                         *)
(* A setting (an element of SockConfigs) says how the sockets are spread   *)
(* over namespaces (net), which sockets may be closed (closes), which may  *)
(* be bound (binds), which finders run (finders), and whether the table is *)
(* scanned (scan).                                                         *)
(***************************************************************************)
EXTENDS Naturals, FiniteSets

CONSTANTS Socks,        \* the sockets, as numbers from 1 on
          Finders,      \* cores that look sockets up (homa_dispatch_pkts)
          MaxPort,      \* largest port number: ports wrap after it
          MinDefault,   \* HOMA_MIN_DEFAULT_PORT
          Bucket,       \* the bucket of a port
          SockConfigs   \* the settings

VARIABLES sconf,        \* the setting
          sock,         \* the homa_sock objects
          head,         \* first socket of each bucket, or None
          prev_default_port,
          write_lock,   \* the bind that holds socktab->write_lock, or None
          finder,       \* lookups in progress
          scan          \* the homa_socktab_scan

sockVars == <<sconf, sock, head, prev_default_port, write_lock, finder, scan>>

None == 0
Ports == 0 .. MaxPort
Buckets == {Bucket[p] : p \in Ports}
LastBucket == CHOOSE b \in Buckets : \A c \in Buckets : c <= b

NoSock == [st |-> "none", port |-> 0, refs |-> 0, shutdown |-> FALSE, linked |-> FALSE,
           next |-> None, start |-> 0, is_server |-> FALSE, grace |-> {}]
NoLock == [sock |-> None, port |-> 0]
NoFind == [pc |-> "idle", port |-> 0, at |-> None, owned |-> None, moved |-> FALSE,
           late |-> FALSE]
NoScan == [pc |-> "idle", hsk |-> None, bucket |-> 0, present |-> {}, seen |-> {},
           moved |-> FALSE, late |-> FALSE, stray |-> FALSE]

Init == /\ sconf \in SockConfigs
        /\ sock = [s \in Socks |-> NoSock]
        /\ head = [b \in Buckets |-> None]
        /\ prev_default_port = [s \in Socks |-> MinDefault - 1]
        /\ write_lock = NoLock
        /\ finder = [f \in Finders |-> NoFind]
        /\ scan = NoScan

(***************************************************************************)
(* References.  When the last one goes the socket is freed (SOCK_RCU_FREE) *)
(* once every RCU reader of that moment has left its read section.         *)
(***************************************************************************)
Scanner == "scan"
Readers == {f \in Finders : finder[f].pc \in {"walk", "hold"}}
           \cup {x \in {Scanner} : scan.pc = "hold"}

sock_put(k) == [k EXCEPT !.refs = @ - 1, !.grace = IF k.refs = 1 THEN Readers ELSE @]

sock_hold(k) == [k EXCEPT !.refs = IF @ = 0 THEN 0 ELSE @ + 1]

\* The sockets after a thread that may be late has released s.
PutSock(s, late) == IF late THEN sock ELSE [sock EXCEPT ![s] = sock_put(@)]

LeaveRcu(f, sk) == [s \in Socks |-> [sk[s] EXCEPT !.grace = @ \ {f}]]

SkFree(s) ==
    /\ sock[s].st = "closed"
    /\ sock[s].refs = 0
    /\ sock[s].grace = {}
    /\ sock' = [sock EXCEPT ![s].st = "freed"]
    /\ UNCHANGED <<sconf, head, prev_default_port, write_lock, finder, scan>>

(***************************************************************************)
(* The chains: hlist_add_head_rcu and hlist_del_rcu.  A removed node keeps *)
(* its next pointer.                                                       *)
(***************************************************************************)
Owner(n, p) == {s \in Socks : sock[s].linked /\ sock[s].port = p /\ sconf.net[s] = n}

LinkSock(s, p, k) ==
    /\ sock' = [sock EXCEPT ![s] = [k EXCEPT !.st = "open", !.port = p, !.linked = TRUE,
                                             !.next = head[Bucket[p]]]]
    /\ head' = [head EXCEPT ![Bucket[p]] = s]

(* Mutant: the removal cuts the chain before the removed socket.           *)
UnlinkedCuts(s, k) ==
    [q \in Socks |-> IF q = s THEN [k EXCEPT !.linked = FALSE]
                     ELSE IF sock[q].linked /\ sock[q].next = s
                          THEN [sock[q] EXCEPT !.next = None]
                          ELSE sock[q]]

Unlinked(s, k) ==
    [q \in Socks |-> IF q = s THEN [k EXCEPT !.linked = FALSE]
                     ELSE IF sock[q].linked /\ sock[q].next = s
                          THEN [sock[q] EXCEPT !.next = sock[s].next]
                          ELSE sock[q]]

UnlinkSock(s, k) ==
    /\ sock' = Unlinked(s, k)
    /\ head' = [b \in Buckets |-> IF head[b] = s THEN sock[s].next ELSE head[b]]

Disowned(s, moves) ==
    finder' = [f \in Finders |->
        [finder[f] EXCEPT !.owned = IF @ = s THEN None ELSE @, !.moved = @ \/ moves]]

Gone(s, moves) ==
    scan' = [scan EXCEPT !.present = @ \ {s}, !.moved = @ \/ moves]

(***************************************************************************)
(* homa_sock_init: write_lock is dropped after each port that is taken.    *)
(***************************************************************************)
NextPort(p) == LET q == (p + 1) % (MaxPort + 1) IN IF q < MinDefault THEN MinDefault ELSE q

PortTaken(n, p) == Owner(n, p) # {}

TryPort(s, start) ==
    LET n == sconf.net[s]
        p == NextPort(prev_default_port[n])
        new == [NoSock EXCEPT !.refs = 1, !.start = start]
    IN /\ write_lock = NoLock
       /\ prev_default_port' = [prev_default_port EXCEPT ![n] = p]
       /\ \/ /\ ~PortTaken(n, p)
             /\ LinkSock(s, p, new)
          \/ /\ PortTaken(n, p)
             /\ sock' = [sock EXCEPT ![s] = IF p = start THEN [new EXCEPT !.st = "failed"]
                                            ELSE [new EXCEPT !.st = "init"]]
             /\ UNCHANGED head
       /\ UNCHANGED <<sconf, write_lock, finder, scan>>

homa_socket(s) ==
    /\ sock[s].st = "none"
    /\ TryPort(s, prev_default_port[sconf.net[s]])

homa_sock_init(s) ==
    /\ sock[s].st = "init"
    /\ TryPort(s, sock[s].start)

(***************************************************************************)
(* homa_sock_bind: the socket leaves its chain, changes its port and       *)
(* enters another, with the socket lock and write_lock held; readers see   *)
(* the steps.                                                              *)
(***************************************************************************)
Bindable(s, p) == Owner(sconf.net[s], p) = {}

homa_sock_bind(s, p) ==
    /\ s \in sconf.binds
    /\ sock[s].st = "open"
    /\ write_lock = NoLock
    /\ ~sock[s].shutdown
    /\ Bindable(s, p)
    /\ write_lock' = [sock |-> s, port |-> p]
    /\ UnlinkSock(s, sock[s])
    /\ Disowned(s, TRUE)
    /\ Gone(s, TRUE)
    /\ UNCHANGED <<sconf, prev_default_port>>

BindLink ==
    /\ write_lock # NoLock
    /\ LET s == write_lock.sock
       IN LinkSock(s, write_lock.port, [sock[s] EXCEPT !.is_server = TRUE])
    /\ write_lock' = NoLock
    /\ UNCHANGED <<sconf, prev_default_port, finder, scan>>

(***************************************************************************)
(* homa_sock_shutdown and homa_close.  Ending the RPCs and waking the      *)
(* waiting threads is HomaWait's part.                                     *)
(***************************************************************************)
homa_sock_shutdown(s) ==
    /\ s \in sconf.closes
    /\ sock[s].st = "open"
    /\ ~sock[s].shutdown
    /\ write_lock = NoLock
    /\ UnlinkSock(s, [sock[s] EXCEPT !.shutdown = TRUE])
    /\ Disowned(s, FALSE)
    /\ Gone(s, FALSE)
    /\ UNCHANGED <<sconf, prev_default_port, write_lock>>

homa_close(s) ==
    /\ sock[s].st = "open"
    /\ sock[s].shutdown
    /\ sock' = [sock EXCEPT ![s] = [sock_put(@) EXCEPT !.st = "closed"]]
    /\ UNCHANGED <<sconf, head, prev_default_port, write_lock, finder, scan>>

SetServer(s) ==
    /\ sock[s].st = "open"
    /\ s \in sconf.binds
    /\ sock' = [sock EXCEPT ![s].is_server = TRUE]
    /\ UNCHANGED <<sconf, head, prev_default_port, write_lock, finder, scan>>

(***************************************************************************)
(* homa_sock_find, called by homa_dispatch_pkts: it walks a chain and      *)
(* takes a reference on the socket it returns.                             *)
(***************************************************************************)
StartFind(f, p) ==
    /\ f \in sconf.finders
    /\ finder[f].pc = "idle"
    /\ LET own == Owner(1, p)
       IN finder' = [finder EXCEPT ![f] =
              [pc |-> "walk", port |-> p, at |-> head[Bucket[p]],
               owned |-> IF own = {} THEN None ELSE CHOOSE s \in own : TRUE,
               moved |-> write_lock # NoLock, late |-> FALSE]]
    /\ UNCHANGED <<sconf, sock, head, prev_default_port, write_lock, scan>>

Matches(f) == LET s == finder[f].at
              IN sock[s].port = finder[f].port /\ sconf.net[s] = 1

homa_sock_find(f) ==
    /\ finder[f].pc = "walk"
    /\ \/ /\ finder[f].at = None
          /\ finder' = [finder EXCEPT ![f].pc = "unknown"]
          /\ sock' = LeaveRcu(f, sock)
       \/ /\ finder[f].at # None
          /\ ~Matches(f)
          /\ finder' = [finder EXCEPT ![f].at = sock[finder[f].at].next]
          /\ UNCHANGED sock
       \/ /\ finder[f].at # None
          /\ Matches(f)
          /\ finder' = [finder EXCEPT ![f].pc = "hold"]
          /\ UNCHANGED sock
    /\ UNCHANGED <<sconf, head, prev_default_port, write_lock, scan>>

FindHold(f) ==
    LET s == finder[f].at
    IN /\ finder[f].pc = "hold"
       /\ finder' = [finder EXCEPT ![f].pc = "use", ![f].late = sock[s].refs = 0]
       /\ sock' = LeaveRcu(f, [sock EXCEPT ![s] = sock_hold(@)])
       /\ UNCHANGED <<sconf, head, prev_default_port, write_lock, scan>>

(***************************************************************************)
(* The end of homa_dispatch_pkts: the reference on the socket is released. *)
(* Without a socket the packet is answered with an ICMP message.           *)
(***************************************************************************)
FindDone(f) ==
    /\ finder[f].pc \in {"use", "unknown"}
    /\ sock' = IF finder[f].pc = "use" THEN PutSock(finder[f].at, finder[f].late) ELSE sock
    /\ finder' = [finder EXCEPT ![f] = NoFind]
    /\ UNCHANGED <<sconf, head, prev_default_port, write_lock, scan>>

(***************************************************************************)
(* A scan: homa_socktab_next releases the previous socket, follows its     *)
(* next pointer or goes on to the next bucket, and takes a reference on    *)
(* what it finds (ScanHold).                                               *)
(***************************************************************************)
FirstFrom(b) == {c \in Buckets : c >= b /\ head[c] # None}

NextSock(hsk, b) ==
    LET nxt == IF hsk = None THEN None ELSE sock[hsk].next
    IN IF nxt # None THEN [hsk |-> nxt, bucket |-> b]
       ELSE IF FirstFrom(b + 1) = {} THEN [hsk |-> None, bucket |-> LastBucket + 1]
            ELSE LET c == CHOOSE c \in FirstFrom(b + 1) : \A d \in FirstFrom(b + 1) : c <= d
                 IN [hsk |-> head[c], bucket |-> c]

\* The scan moves to the socket that follows hsk, or the first of a bucket
\* after b.  It goes astray if hsk has left the table and its next pointer
\* leads to a socket that is freed or about to be.
ScanTo(to, sc) ==
    scan' = [sc EXCEPT !.pc = IF to.hsk = None THEN "end" ELSE "hold",
                       !.hsk = to.hsk, !.bucket = to.bucket, !.late = FALSE,
                       !.stray = @ \/ /\ sc.hsk # None /\ ~sock[sc.hsk].linked
                                      /\ to.hsk # None /\ sock[to.hsk].refs = 0]

homa_socktab_start_scan ==
    LET b == CHOOSE b \in Buckets : \A c \in Buckets : b <= c
        start == [NoScan EXCEPT !.present = {s \in Socks : sock[s].linked},
                                !.moved = write_lock # NoLock]
    IN /\ sconf.scan
       /\ scan.pc = "idle"
       /\ ScanTo(IF head[b] # None THEN [hsk |-> head[b], bucket |-> b]
                 ELSE NextSock(None, b), start)
       /\ UNCHANGED <<sconf, sock, head, prev_default_port, write_lock, finder>>

homa_socktab_next ==
    /\ scan.pc = "at"
    /\ sock' = PutSock(scan.hsk, scan.late)
    /\ ScanTo(NextSock(scan.hsk, scan.bucket), scan)
    /\ UNCHANGED <<sconf, head, prev_default_port, write_lock, finder>>

ScanHold ==
    /\ scan.pc = "hold"
    /\ scan' = [scan EXCEPT !.pc = "at", !.late = sock[scan.hsk].refs = 0,
                            !.seen = @ \cup {scan.hsk}]
    /\ sock' = LeaveRcu(Scanner, [sock EXCEPT ![scan.hsk] = sock_hold(@)])
    /\ UNCHANGED <<sconf, head, prev_default_port, write_lock, finder>>

\* At the end of the table or, for a caller that has seen enough, before.
homa_socktab_end_scan ==
    /\ scan.pc \in {"at", "end"}
    /\ sock' = IF scan.pc = "at" THEN PutSock(scan.hsk, scan.late) ELSE sock
    /\ scan' = NoScan
    /\ UNCHANGED <<sconf, head, prev_default_port, write_lock, finder>>

SockStep(s) == \/ homa_socket(s)
               \/ homa_sock_init(s)
               \/ \E p \in 1 .. MinDefault - 1 : homa_sock_bind(s, p)
               \/ SetServer(s)
               \/ homa_sock_shutdown(s)
               \/ homa_close(s)
               \/ SkFree(s)

FinderStep(f) == \/ \E p \in Ports \ {0} : StartFind(f, p)
                 \/ homa_sock_find(f)
                 \/ FindHold(f)
                 \/ FindDone(f)

Next == \/ \E s \in Socks : SockStep(s)
        \/ BindLink
        \/ \E f \in Finders : FinderStep(f)
        \/ homa_socktab_start_scan
        \/ homa_socktab_next
        \/ ScanHold
        \/ homa_socktab_end_scan

Spec == Init /\ [][Next]_sockVars

(***************************************************************************)
(* Properties                                                              *)
(***************************************************************************)

(* No two sockets of a namespace that are in the table have the same port: *)
(* write_lock covers the check and the insertion in homa_sock_init, which  *)
(* drops it between ports, and in homa_sock_bind.                          *)
PortsUnique ==
    \A s, q \in Socks : /\ s # q
                        /\ sock[s].linked
                        /\ sock[q].linked
                        /\ sconf.net[s] = sconf.net[q]
                        => sock[s].port # sock[q].port

(* A socket's references are those of its open file, of the finders that   *)
(* use it and of the scan that stands on it, but for late ones.            *)
SockRefsExact ==
    \A s \in Socks :
        sock[s].refs = (IF sock[s].st \in {"open", "init", "failed"} THEN 1 ELSE 0)
                       + Cardinality({f \in Finders : /\ finder[f].pc = "use"
                                                      /\ finder[f].at = s /\ ~finder[f].late})
                       + (IF scan.pc = "at" /\ scan.hsk = s /\ ~scan.late THEN 1 ELSE 0)

(* No lookup walks over a freed socket.  A packet handler that got its     *)
(* socket from a lookup, or a scan, stands on a freed one only if it was   *)
(* late; a scan finds a freed one only by the next pointer of a socket     *)
(* that was removed under it.                                              *)
SockAlive ==
    /\ \A f \in Finders : /\ finder[f].at # None
                           /\ \/ finder[f].pc \in {"walk", "hold"}
                              \/ finder[f].pc = "use" /\ ~finder[f].late
                           => sock[finder[f].at].st # "freed"
    /\ scan.pc = "at" /\ ~scan.late => sock[scan.hsk].st # "freed"
    /\ scan.pc = "hold" /\ ~scan.stray => sock[scan.hsk].st # "freed"

(* A lookup finds the socket that owned its port during the whole lookup,  *)
(* unless a bind moved some socket meanwhile.                              *)
FindsOwner ==
    \A f \in Finders : finder[f].pc = "unknown" /\ ~finder[f].moved => finder[f].owned = None

(* A scan returns every socket that was in the table when it started and   *)
(* was not removed, unless a bind moved some socket meanwhile or it went   *)
(* astray.                                                                 *)
ScanComplete ==
    scan.pc = "end" /\ ~scan.moved /\ ~scan.stray => scan.present \subseteq scan.seen

(* Lookups, scans, packet handlers and references see one consistent table *)
(* although sockets come, are bound and go while they look.                *)
SocktabConsistent ==
    PortsUnique /\ SockRefsExact /\ SockAlive /\ FindsOwner /\ ScanComplete
=============================================================================
