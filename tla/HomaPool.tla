------------------------------ MODULE HomaPool ------------------------------
(***************************************************************************)
(* The buffer pool of one socket (homa_pool.c): bpages with reference      *)
(* counts and per-core owners, the free_bpages count that allocators claim *)
(* from, and the queue of RPCs that wait for space.                        *)
(*                                                                         *)
(* Each core runs homa_pool_alloc_msg (from homa_data_pkt or from          *)
(* homa_pool_check_waiting) with bottom halves disabled, one atomic        *)
(* operation or lock-protected region per step.  Buffers are released by   *)
(* application threads and the reaper, without any lock, on a core that is *)
(* not inside homa_pool_alloc_msg.                                         *)
(***************************************************************************)
EXTENDS Integers, Sequences, FiniteSets, Lists

CONSTANTS
    Bpages,      \* indices of pool->descriptors
    Bpage0,      \* the index 0, which every core's page_hint starts with
    BpageSize,   \* HOMA_BPAGE_SIZE, in allocation units
    Cores,       \* CPUs
    Rpcs,        \* RPCs with incoming messages
    NoRpc,       \* no RPC
    MsgLen,      \* msgin.length of each of them, in allocation units
    Recycle      \* a finished RPC is followed by another of the same length

\* Longer messages are not accepted (homa_message_in_init).
HOMA_MAX_MESSAGE_LENGTH == 1400000

\* What the constants must satisfy.
PoolAssumptions ==
    /\ IsFiniteSet(Bpages) /\ Bpage0 \in Bpages
    /\ BpageSize \in Nat \ {0}
    /\ IsFiniteSet(Cores) /\ -1 \notin Cores
    /\ IsFiniteSet(Rpcs) /\ NoRpc \notin Rpcs
    /\ MsgLen \in [Rpcs -> 1 .. HOMA_MAX_MESSAGE_LENGTH]
    /\ Recycle \in BOOLEAN

NumBpages == Cardinality(Bpages)
NoOwner == -1

\* More bpages than any message can need.
INT_MAX == 2147483647

VARIABLES
    bpages,         \* pool->descriptors: refs, owner, expired, locked
    cores,          \* pool->cores: page_hint, allocated
    free_bpages,    \* pool->free_bpages
    bpages_needed,  \* pool->bpages_needed
    waiting_for_bufs, \* hsk->waiting_for_bufs
    ctx,            \* where each core is in homa_pool_alloc_msg
    phase,          \* where each RPC's buffers are in their life
    bufs,           \* msgin.bpage_offsets, until released
    pend            \* a released bpage is not yet counted as free

poolVars == <<bpages, cores, free_bpages, bpages_needed, waiting_for_bufs, ctx, phase, bufs, pend>>

Partial(r) == MsgLen[r] % BpageSize
FullPages(r) == MsgLen[r] \div BpageSize
PagesNeeded(r) == (MsgLen[r] + BpageSize - 1) \div BpageSize

Buffer(b, off, len) == [bpage |-> b, offset |-> off, len |-> len]

Idle == [pc |-> "idle", rpc |-> NoRpc, left |-> 0,
         set_owner |-> FALSE, ret |-> "idle"]

\* homa_pool_set_region.
PoolInit ==
    /\ bpages = [b \in Bpages |-> [refs |-> 0, owner |-> NoOwner,
                                   expired |-> FALSE, locked |-> FALSE]]
    /\ cores = [c \in Cores |-> [page_hint |-> Bpage0, allocated |-> 0]]
    /\ free_bpages = NumBpages
    /\ bpages_needed = INT_MAX
    /\ waiting_for_bufs = <<>>
    /\ ctx = [c \in Cores |-> Idle]
    /\ phase = [r \in Rpcs |-> "new"]
    /\ bufs = [r \in Rpcs |-> <<>>]
    /\ pend = [r \in Rpcs |-> FALSE]

-----------------------------------------------------------------------------
(* homa_pool_alloc_msg and homa_pool_get_pages *)

\* Where core c goes once rpc has all of its full bpages.
AfterFull(c, r) == [ctx[c] EXCEPT !.pc = IF Partial(r) = 0 THEN "success" ELSE "partial"]

\* homa_pool_get_pages is called for n bpages.
GetPages(k, n, set_owner) ==
    [k EXCEPT !.pc = "claim", !.left = n, !.set_owner = set_owner]

\* Entry of homa_pool_alloc_msg for RPC r on core c; ret tells the caller.
AllocMsg(c, r, ret) ==
    LET k == [ctx[c] EXCEPT !.rpc = r, !.ret = ret]
    IN  /\ ctx' = [ctx EXCEPT ![c] =
              IF FullPages(r) > 0 THEN GetPages(k, FullPages(r), FALSE)
              ELSE [k EXCEPT !.pc = "partial"]]
        /\ phase' = [phase EXCEPT ![r] = "alloc"]

\* The first DATA packet of r arrives: homa_message_in_init calls
\* homa_pool_alloc_msg.
InitMessageIn(c, r) ==
    /\ ctx[c].pc = "idle" /\ phase[r] = "new"
    /\ AllocMsg(c, r, "idle")
    /\ UNCHANGED <<bpages, cores, free_bpages, bpages_needed, waiting_for_bufs, bufs, pend>>

\* Mutant: the claim is not checked against what is left.
Claim_Unchecked(c) ==
    /\ ctx[c].pc = "claim"
    /\ free_bpages' = free_bpages - ctx[c].left
    /\ ctx' = [ctx EXCEPT ![c].pc = "find"]
    /\ UNCHANGED <<bpages, cores, bpages_needed, waiting_for_bufs, phase, bufs, pend>>

\* atomic_sub_return(num_pages, &pool->free_bpages) < 0
Claim(c) ==
    /\ ctx[c].pc = "claim"
    /\ free_bpages' = free_bpages - ctx[c].left
    /\ ctx' = [ctx EXCEPT ![c].pc = IF free_bpages - ctx[c].left < 0 THEN "unclaim" ELSE "find"]
    /\ UNCHANGED <<bpages, cores, bpages_needed, waiting_for_bufs, phase, bufs, pend>>

\* atomic_add(num_pages, &pool->free_bpages); homa_pool_get_pages fails.  If it
\* was called for the partial bpage, the full ones are released first.
Unclaim(c) ==
    /\ ctx[c].pc = "unclaim"
    /\ free_bpages' = free_bpages + ctx[c].left
    /\ ctx' = [ctx EXCEPT ![c].pc = IF ctx[c].set_owner THEN "undo" ELSE "queue"]
    /\ phase' = IF ctx[c].set_owner THEN [phase EXCEPT ![ctx[c].rpc] = "undo"] ELSE phase
    /\ UNCHANGED <<bpages, cores, bpages_needed, waiting_for_bufs, bufs, pend>>

homa_bpage_available(b) ==
    \/ bpages[b].refs = 0
    \/ bpages[b].refs = 1 /\ bpages[b].owner # NoOwner /\ bpages[b].expired

\* What core c records for the bpage b that it just allocated.
TakePage(c, r, b) ==
    IF ctx[c].set_owner
    THEN /\ bpages' = [bpages EXCEPT ![b].refs = 2, ![b].owner = c, ![b].expired = FALSE]
         /\ cores' = [cores EXCEPT ![c] = [page_hint |-> b, allocated |-> Partial(r)]]
         /\ bufs' = [bufs EXCEPT ![r] = Append(@, Buffer(b, 0, Partial(r)))]
    ELSE /\ bpages' = [bpages EXCEPT ![b] = [@ EXCEPT !.refs = 1, !.owner = NoOwner, !.expired = FALSE]]
         /\ bufs' = [bufs EXCEPT ![r] = Append(@, Buffer(b, 0, BpageSize))]
         /\ UNCHANGED cores

\* Where core c goes once it has found a bpage.
AfterFind(c, r) ==
    IF ctx[c].left > 1 THEN [ctx[c] EXCEPT !.left = @ - 1]
    ELSE IF ctx[c].set_owner THEN [ctx[c] EXCEPT !.pc = "success"] ELSE AfterFull(c, r)

\* One success of the loop in homa_pool_get_pages.  The order in which
\* candidates are tried (next_candidate, limit) only affects locality, so any
\* available bpage may be chosen.
FindPage(c, b) ==
    LET r == ctx[c].rpc
    IN  /\ ctx[c].pc = "find"
        /\ homa_bpage_available(b) /\ ~bpages[b].locked
        /\ free_bpages' = IF bpages[b].owner # NoOwner THEN free_bpages + 1 ELSE free_bpages
        /\ TakePage(c, r, b)
        /\ ctx' = [ctx EXCEPT ![c] = AfterFind(c, r)]
        /\ UNCHANGED <<bpages_needed, waiting_for_bufs, phase, pend>>

\* The space for the last part of the message is taken from bpage b of core c,
\* starting at offset.
AllocatePartial(c, b, offset) ==
    LET r == ctx[c].rpc
    IN  /\ bufs' = [bufs EXCEPT ![r] = Append(@, Buffer(b, offset, Partial(r)))]
        /\ cores' = [cores EXCEPT ![c].allocated = offset + Partial(r)]
        /\ bpages' = [bpages EXCEPT ![b].refs = @ + 1, ![b].expired = FALSE]
        /\ ctx' = [ctx EXCEPT ![c].pc = "success"]

\* Mutant: the bpage is reused from its start even if messages still use it.
PartialPage_ReuseBusy(c) ==
    LET b == cores[c].page_hint
    IN  /\ ctx[c].pc = "partial" /\ ~bpages[b].locked
        /\ \/ /\ bpages[b].owner # c
              /\ ctx' = [ctx EXCEPT ![c] = GetPages(@, 1, TRUE)]
              /\ UNCHANGED <<bpages, cores, bufs>>
           \/ /\ bpages[b].owner = c
              /\ AllocatePartial(c, b, IF cores[c].allocated + Partial(ctx[c].rpc) > BpageSize
                                       THEN 0 ELSE cores[c].allocated)
        /\ UNCHANGED <<free_bpages, bpages_needed, waiting_for_bufs, phase, pend>>

\* Under the lock of the bpage that core c allocates from: not its owner, room
\* left, no room but nobody uses the bpage, or no room (the lock stays held).
PartialPage(c) ==
    LET b == cores[c].page_hint
        fits == cores[c].allocated + Partial(ctx[c].rpc) <= BpageSize
    IN  /\ ctx[c].pc = "partial" /\ ~bpages[b].locked
        /\ \/ /\ bpages[b].owner # c
              /\ ctx' = [ctx EXCEPT ![c] = GetPages(@, 1, TRUE)]
              /\ UNCHANGED <<bpages, cores, bufs>>
           \/ /\ bpages[b].owner = c /\ fits
              /\ AllocatePartial(c, b, cores[c].allocated)
           \/ /\ bpages[b].owner = c /\ ~fits /\ bpages[b].refs = 1
              /\ AllocatePartial(c, b, 0)
           \/ /\ bpages[b].owner = c /\ ~fits /\ bpages[b].refs # 1
              /\ bpages' = [bpages EXCEPT ![b].locked = TRUE]
              /\ ctx' = [ctx EXCEPT ![c].pc = "give_up"]
              /\ UNCHANGED <<cores, bufs>>
        /\ UNCHANGED <<free_bpages, bpages_needed, waiting_for_bufs, phase, pend>>

\* Mutant: the core still counts as the owner of the bpage it gave up.
GiveUpPage_OwnerKept(c) ==
    LET b == cores[c].page_hint
    IN  /\ ctx[c].pc = "give_up"
        /\ bpages' = [bpages EXCEPT ![b] = [@ EXCEPT !.refs = @ - 1, !.locked = FALSE]]
        /\ ctx' = [ctx EXCEPT ![c] = GetPages(@, 1, TRUE)]
        /\ UNCHANGED <<cores, free_bpages, bpages_needed, waiting_for_bufs, phase, bufs, pend>>

\* The owner gives the bpage up: owner = -1, atomic_dec_return(&bpage->refs).
GiveUpPage(c) ==
    LET b == cores[c].page_hint
    IN  /\ ctx[c].pc = "give_up"
        /\ bpages' = [bpages EXCEPT ![b] = [refs |-> @.refs - 1, owner |-> NoOwner, expired |-> FALSE, locked |-> FALSE]]
        /\ ctx' = [ctx EXCEPT ![c] = GetPages(@, 1, TRUE)]
        /\ UNCHANGED <<cores, free_bpages, bpages_needed, waiting_for_bufs, phase, bufs, pend>>

\* The "success" label.
AllocDone(c) ==
    /\ ctx[c].pc = "success"
    /\ phase' = [phase EXCEPT ![ctx[c].rpc] = "held"]
    /\ ctx' = [ctx EXCEPT ![c] = [Idle EXCEPT !.pc = ctx[c].ret]]
    /\ UNCHANGED <<bpages, cores, free_bpages, bpages_needed, waiting_for_bufs, bufs, pend>>

\* The queue with r inserted before the first longer message.
InsertWaiting(q, r) ==
    LET shorter == {i \in DOMAIN q : MsgLen[q[i]] > MsgLen[r]}
        pos == IF shorter = {} THEN Len(q) + 1
               ELSE CHOOSE i \in shorter : \A j \in shorter : i <= j
    IN  list_insert(q, pos, r)

set_bpages_needed(q) == PagesNeeded(Head(q))

\* The "out_of_space" label, under the socket lock.
OutOfSpace(c) ==
    LET r == ctx[c].rpc
    IN  /\ ctx[c].pc = "queue"
        /\ waiting_for_bufs' = InsertWaiting(waiting_for_bufs, r)
        /\ bpages_needed' = set_bpages_needed(waiting_for_bufs')
        /\ phase' = [phase EXCEPT ![r] = "waiting"]
        /\ ctx' = [ctx EXCEPT ![c] = [Idle EXCEPT !.pc = ctx[c].ret]]
        /\ UNCHANGED <<bpages, cores, free_bpages, bufs, pend>>

-----------------------------------------------------------------------------
(* homa_pool_release_buffers *)

\* Mutant: a bpage whose last reference is dropped is not counted as free.
ReleaseOne_FreeUncounted(r) ==
    LET b == Head(bufs[r]).bpage
    IN  /\ bufs[r] # <<>> /\ ~pend[r]
        /\ bpages' = [bpages EXCEPT ![b].refs = @ - 1]
        /\ bufs' = [bufs EXCEPT ![r] = Tail(@)]
        /\ UNCHANGED <<cores, free_bpages, bpages_needed, waiting_for_bufs, ctx, phase, pend>>

\* atomic_dec_return(&bpage->refs) for the next buffer of r
ReleaseOne(r) ==
    LET b == Head(bufs[r]).bpage
    IN  /\ bufs[r] # <<>> /\ ~pend[r]
        /\ bpages' = [bpages EXCEPT ![b].refs = @ - 1]
        /\ bufs' = [bufs EXCEPT ![r] = Tail(@)]
        /\ pend' = [pend EXCEPT ![r] = bpages[b].refs = 1]
        /\ UNCHANGED <<cores, free_bpages, bpages_needed, waiting_for_bufs, ctx, phase>>

\* atomic_inc(&pool->free_bpages) after the count has reached zero
CountFree(r) ==
    /\ pend[r]
    /\ free_bpages' = free_bpages + 1
    /\ pend' = [pend EXCEPT ![r] = FALSE]
    /\ UNCHANGED <<bpages, cores, bpages_needed, waiting_for_bufs, ctx, phase, bufs>>

\* homa_pool_alloc_msg releases the full bpages it got, then queues the RPC.
UndoFull(c) ==
    LET r == ctx[c].rpc
    IN  /\ ctx[c].pc = "undo"
        /\ \/ ReleaseOne(r) \/ CountFree(r)
           \/ /\ bufs[r] = <<>> /\ ~pend[r]
              /\ ctx' = [ctx EXCEPT ![c].pc = "queue"]
              /\ phase' = [phase EXCEPT ![r] = "alloc"]
              /\ UNCHANGED <<bpages, cores, free_bpages, bpages_needed, waiting_for_bufs, bufs, pend>>

\* A thread in process context can run: some core is not inside
\* homa_pool_alloc_msg.
CoreAvailable == \E c \in Cores : ctx[c].pc \in {"idle", "check", "check_lock"}

\* The buffers of r are given back: by the application in its next recvmsg, by
\* homa_deliver_skbs, or by homa_rpc_reap.
StartRelease(r) ==
    /\ CoreAvailable /\ phase[r] = "held"
    /\ phase' = [phase EXCEPT ![r] = "releasing"]
    /\ UNCHANGED <<bpages, cores, free_bpages, bpages_needed, waiting_for_bufs, ctx, bufs, pend>>

homa_pool_release_buffers(r) ==
    /\ CoreAvailable /\ phase[r] = "releasing"
    /\ \/ ReleaseOne(r) \/ CountFree(r)
       \/ /\ bufs[r] = <<>> /\ ~pend[r]
          /\ phase' = [phase EXCEPT ![r] = IF Recycle THEN "new" ELSE "done"]
          /\ UNCHANGED <<bpages, cores, free_bpages, bpages_needed, waiting_for_bufs, ctx, bufs, pend>>

\* homa_rpc_end for an RPC that waits for buffers: it leaves the queue, and
\* bpages_needed is not recomputed.
EndRpc(r) ==
    /\ CoreAvailable /\ phase[r] = "waiting"
    /\ waiting_for_bufs' = list_del(waiting_for_bufs, r)
    /\ phase' = [phase EXCEPT ![r] = IF Recycle THEN "new" ELSE "done"]
    /\ UNCHANGED <<bpages, cores, free_bpages, bpages_needed, ctx, bufs, pend>>

-----------------------------------------------------------------------------
(* homa_pool_check_waiting *)

\* Called at the end of every homa_rpc_reap.  While no RPC waits it does
\* nothing (free_bpages never reaches INT_MAX).
homa_pool_check_waiting(c) ==
    /\ ctx[c].pc = "idle" /\ bpages_needed # INT_MAX
    /\ ctx' = [ctx EXCEPT ![c].pc = "check"]
    /\ UNCHANGED <<bpages, cores, free_bpages, bpages_needed, waiting_for_bufs, phase, bufs, pend>>

\* The condition of the while loop, read without a lock.
CheckFree(c) ==
    /\ ctx[c].pc = "check"
    /\ ctx' = [ctx EXCEPT ![c].pc = IF free_bpages >= bpages_needed THEN "check_lock" ELSE "idle"]
    /\ UNCHANGED <<bpages, cores, free_bpages, bpages_needed, waiting_for_bufs, phase, bufs, pend>>

\* The body of the loop under the socket lock: take the first RPC off the
\* queue and retry its allocation.  (When the RPC's lock is busy the code
\* drops the socket lock and tries again, which is no step here.)
CheckLocked(c) ==
    /\ ctx[c].pc = "check_lock"
    /\ \/ /\ waiting_for_bufs = <<>>
          /\ bpages_needed' = INT_MAX
          /\ ctx' = [ctx EXCEPT ![c] = Idle]
          /\ UNCHANGED <<waiting_for_bufs, phase>>
       \/ /\ waiting_for_bufs # <<>>
          /\ waiting_for_bufs' = Tail(waiting_for_bufs)
          /\ bpages_needed' = IF waiting_for_bufs' = <<>> THEN INT_MAX
                              ELSE set_bpages_needed(waiting_for_bufs')
          /\ AllocMsg(c, Head(waiting_for_bufs), "check")
    /\ UNCHANGED <<bpages, cores, free_bpages, bufs, pend>>

\* bpage_lease_cycles pass since core c last used bpage b.
LeaseExpires(b) ==
    /\ bpages[b].owner # NoOwner /\ ~bpages[b].expired
    /\ bpages' = [bpages EXCEPT ![b].expired = TRUE]
    /\ UNCHANGED <<cores, free_bpages, bpages_needed, waiting_for_bufs, ctx, phase, bufs, pend>>

-----------------------------------------------------------------------------

AllocStep(c) ==
    \/ Claim(c) \/ Unclaim(c) \/ \E b \in Bpages : FindPage(c, b)
    \/ PartialPage(c) \/ GiveUpPage(c) \/ AllocDone(c) \/ OutOfSpace(c) \/ UndoFull(c)

CheckStep(c) == CheckFree(c) \/ CheckLocked(c)

PoolNext ==
    \/ \E c \in Cores : AllocStep(c) \/ CheckStep(c) \/ homa_pool_check_waiting(c)
                        \/ \E r \in Rpcs : InitMessageIn(c, r)
    \/ \E r \in Rpcs : StartRelease(r) \/ homa_pool_release_buffers(r) \/ EndRpc(r)
    \/ \E b \in Bpages : LeaseExpires(b)

PoolSpec == PoolInit /\ [][PoolNext]_poolVars

\* Fairness.  Kernel code that runs keeps running; time passes; the application
\* returns the buffers it was given; threads that wait for messages call
\* homa_rpc_reap, and with it homa_pool_check_waiting, again and again.
PoolFairness ==
    /\ \A c \in Cores : WF_poolVars(AllocStep(c)) /\ WF_poolVars(CheckStep(c))
                        /\ WF_poolVars(homa_pool_check_waiting(c))
    /\ \A r \in Rpcs : WF_poolVars(StartRelease(r)) /\ WF_poolVars(homa_pool_release_buffers(r))
    /\ \A b \in Bpages : WF_poolVars(LeaseExpires(b))

PoolFairSpec == PoolSpec /\ PoolFairness

-----------------------------------------------------------------------------
(* Correctness *)

\* homa_pool_get_buffer: where byte offset of the message of r is stored.
homa_pool_get_buffer(r, offset) ==
    LET i == (offset \div BpageSize) + 1
        o == offset % BpageSize
    IN  [bpage |-> bufs[r][i].bpage,
         offset |-> bufs[r][i].offset + o,
         available |-> IF i < Len(bufs[r]) THEN BpageSize - o ELSE MsgLen[r] - offset]

BpageType == [refs : Nat, owner : Cores \cup {NoOwner}, expired : BOOLEAN, locked : BOOLEAN]
CoreType == [page_hint : Bpages, allocated : 0 .. BpageSize]
BufferType == [bpage : Bpages, offset : 0 .. BpageSize, len : 1 .. BpageSize]
AllocPcs == {"claim", "unclaim", "find", "partial", "give_up", "success", "undo", "queue"}
ContextType ==
    [pc : AllocPcs \cup {"idle", "check", "check_lock"}, rpc : Rpcs \cup {NoRpc},
     left : 0 .. HOMA_MAX_MESSAGE_LENGTH, set_owner : BOOLEAN, ret : {"idle", "check"}]

\* Every variable keeps its type.  free_bpages may be negative for a moment
\* (homa_pool_get_pages subtracts before it looks) but it never exceeds the
\* number of bpages.
PoolTypeOK ==
    /\ bpages \in [Bpages -> BpageType]
    /\ cores \in [Cores -> CoreType]
    /\ free_bpages \in Int /\ free_bpages <= NumBpages
    /\ bpages_needed \in Nat
    /\ waiting_for_bufs \in Seq(Rpcs)
    /\ ctx \in [Cores -> ContextType]
    /\ phase \in [Rpcs -> {"new", "alloc", "held", "undo", "waiting", "releasing", "done"}]
    /\ bufs \in [Rpcs -> Seq(BufferType)]
    /\ pend \in [Rpcs -> BOOLEAN]

\* homa_pool_get_buffer gives no byte of the region to two bytes of messages,
\* of the same or of different RPCs, and the space it reports as available lies
\* inside the bpage and ends before the message's own end: homa_copy_to_pool
\* never writes over another message, whichever cores share the bpage.
DistinctBytes ==
    LET held == UNION {{r} \X (0 .. MsgLen[r] - 1) : r \in {q \in Rpcs : phase[q] = "held"}}
        at(x) == homa_pool_get_buffer(x[1], x[2])
    IN  \A x \in held :
           /\ at(x).available \in 1 .. (MsgLen[x[1]] - x[2])
           /\ at(x).offset + at(x).available <= BpageSize
           /\ \A y \in held \ {x} : <<at(x).bpage, at(x).offset>> # <<at(y).bpage, at(y).offset>>

\* The messages that use bpage b.
Users(b) == {r \in Rpcs : \E i \in DOMAIN bufs[r] : bufs[r][i].bpage = b}

\* The documentation of homa_bpage.refs: one tick for each message that uses
\* the bpage and one for its owner, through allocation, sharing, stealing,
\* giving up and release; no message uses a bpage twice.  The owner is a core
\* whose page_hint is the bpage, so the core's allocated count, which nothing
\* but the core protects, describes the bpage.
BpageRefsExact ==
    /\ \A b \in Bpages :
        /\ bpages[b].refs = Cardinality(Users(b))
                            + (IF bpages[b].owner # NoOwner THEN 1 ELSE 0)
        /\ bpages[b].owner # NoOwner => cores[bpages[b].owner].page_hint = b
    /\ \A r \in Rpcs : \A i, j \in DOMAIN bufs[r] :
          i # j => bufs[r][i].bpage # bufs[r][j].bpage

\* The bpages, numbered per core, that calls of homa_pool_get_pages which have
\* reached pc have subtracted from free_bpages and not yet found.
Subtracted(pc) ==
    UNION {{c} \X (1 .. ctx[c].left) : c \in {x \in Cores : ctx[x].pc = pc}}

\* Bpages claimed by cores that are still looking for them.
Claimed == Cardinality(Subtracted("find"))

\* Bpages that a failing call has subtracted and not yet added back.
Overdrawn == Cardinality(Subtracted("unclaim"))

\* Bpages whose count has reached zero and is about to be added.
Uncounted == Cardinality({r \in Rpcs : pend[r]})

FreePages == {b \in Bpages : bpages[b].refs = 0}

\* "Once we get to this point we know we will be able to find enough free
\* pages" (homa_pool_get_pages): the claims that cores hold never exceed the
\* bpages with no reference, so the search loop ends.
ClaimsCovered ==
    /\ Claimed <= Cardinality(FreePages)
    /\ free_bpages + Claimed + Overdrawn + Uncounted <= Cardinality(FreePages)

\* The documentation of free_bpages: "This equals the number of pages with
\* zero reference counts, minus the number of pages that have been claimed".
\* Looked at when no core is inside the pool and no release is under way.
FreeCountExact ==
    (\A c \in Cores : ctx[c].pc = "idle") /\ (\A r \in Rpcs : ~pend[r])
        => free_bpages = Cardinality(FreePages)

\* The queue of waiting RPCs holds each waiting RPC once, shortest message
\* first, and bpages_needed is never above what its first RPC needs: a stale
\* value may cost a useless retry but never hides that the first RPC fits.
WaitersVisible ==
    /\ Range(waiting_for_bufs) = {r \in Rpcs : phase[r] = "waiting"}
    /\ \A i, j \in DOMAIN waiting_for_bufs :
          i < j => /\ waiting_for_bufs[i] # waiting_for_bufs[j]
                   /\ MsgLen[waiting_for_bufs[i]] <= MsgLen[waiting_for_bufs[j]]
    /\ waiting_for_bufs # <<>> => bpages_needed <= PagesNeeded(Head(waiting_for_bufs))

\* An RPC that waits for buffer space gets it (or ends), provided that the
\* application returns its buffers and threads keep calling homa_rpc_reap.
WaitersServed ==
    /\ []WaitersVisible
    /\ \A r \in Rpcs : []<>(phase[r] # "waiting")
=============================================================================
