------------------------------ MODULE HomaSkb -------------------------------
(***************************************************************************)
(* The memory of outgoing packets (homa_skb.c): per-core pages that are    *)
(* filled from front to back, per-core stashes and per-NUMA-node pools of  *)
(* free pages, and packets whose fragments point into pages.               *)
(*                                                                         *)
(* A page is never written again while a packet's fragment points to the   *)
(* bytes; what protects it is its reference count, which counts a core's   *)
(* skb_page, each fragment, and a place in a stash or pool.  mem records,  *)
(* for every byte of a page, the packet whose data was last written there. *)
(* A fragment written by homa_skb_append_from_skb shares its bytes with    *)
(* the packet it was copied from (of).                                     *)
(***************************************************************************)
EXTENDS Integers, Sequences, FiniteSetsExt, SequencesExt

CONSTANTS Cores,        \* cores, as numbers
          Nodes,        \* NUMA nodes: 0 .. max_numa
          CoreNode,     \* cpu_to_node
          BigPages,     \* pages of HOMA_SKB_PAGE_SIZE
          SmallPages,   \* ordinary pages
          ForeignPages, \* pages of in-kernel callers that send without copying;
                        \* consecutive numbers are contiguous memory
          CompoundHead, \* for each of those, the page that holds its reference count
          Iters,        \* what such callers send: sequences of pieces of pages, each
                        \* with whether it begins and ends where the page does
          PageNode,     \* page_to_nid
          BigSize, SmallSize,   \* sizes, in units of data
          Skbs,         \* packets
          MaxData,      \* units of data in a packet
          MaxFrags,     \* HOMA_MAX_SKB_FRAGS
          PoolLimit,    \* HOMA_PAGE_POOL_SIZE
          CacheBatch,   \* MAX_PAGES_AT_ONCE
          MinPages, ReleaseMax, \* from skb_page_pool_min_kb, skb_page_frees_per_sec
          MaxReleases,  \* bound on the calls of homa_skb_release_pages
          SkbConfigs    \* records: cores, packets, and what happens to packets (does:
                        \* a subset of {"copy", "zerocopy", "transmit", "stash"})

VARIABLES kconf,        \* the setting
          page_refs,    \* page_ref_count
          mem,          \* what each byte of a page holds
          skb_core,     \* struct homa_skb_core
          page_pool,    \* struct homa_page_pool
          skb,          \* packets
          freeing,      \* homa_skb_free_many_tx in progress on each core
          releases      \* calls of homa_skb_release_pages so far

skbVars == <<kconf, page_refs, mem, skb_core, page_pool, skb, freeing, releases>>

Pages == BigPages \cup SmallPages \cup ForeignPages
NoPage == 0
SizeOf(p) == IF p \in BigPages THEN BigSize ELSE SmallSize

NoFree == [skb |-> 0, todo |-> <<>>, verdict |-> "none", batch |-> <<>>]

Init == /\ kconf \in SkbConfigs
        /\ page_refs = [p \in Pages |-> IF p \in Range(CompoundHead) THEN 1 ELSE 0]
        /\ mem = [p \in Pages |-> [i \in 0 .. BigSize - 1 |-> 0]]
        /\ skb_core = [c \in Cores |-> [skb_page |-> NoPage, page_inuse |-> 0, page_size |-> 0,
                                        stashed |-> <<>>]]
        /\ page_pool = [n \in Nodes |-> [pages |-> <<>>, low_mark |-> 0]]
        /\ skb = [s \in Skbs |-> [st |-> "none", frags |-> <<>>, users |-> 0, len |-> 0]]
        /\ freeing = [c \in Cores |-> NoFree]
        /\ releases = 0

Counted(p) == IF p \in ForeignPages THEN CompoundHead[p] ELSE p
put_page(refs, p) == [refs EXCEPT ![Counted(p)] = @ - 1]
get_page(refs, p) == [refs EXCEPT ![Counted(p)] = @ + 1]

homa_skb_alloc_tx(s) ==
    /\ s \in kconf.packets
    /\ skb[s].st = "none"
    /\ \A q \in Skbs : skb[q].st = "none" => s <= q
    /\ skb' = [skb EXCEPT ![s].st = "live", ![s].users = 1]
    /\ UNCHANGED <<page_refs, mem, skb_core, page_pool, freeing, releases>>

(***************************************************************************)
(* homa_skb_stash_pages: moves pages from the pool to the core.            *)
(***************************************************************************)
Popped(pool, k) == LET left == Len(pool.pages) - k
                   IN [pages |-> SubSeq(pool.pages, 1, left),
                       low_mark |-> IF left < pool.low_mark THEN left ELSE pool.low_mark]

homa_skb_stash_pages(c, needed) ==
    LET n == CoreNode[c]
        pool == page_pool[n]
        k == Min({Len(pool.pages), needed - Len(skb_core[c].stashed)})
    IN /\ needed >= 2
       /\ k > 0
       /\ page_pool' = [page_pool EXCEPT ![n] = Popped(pool, k)]
       /\ skb_core' = [skb_core EXCEPT ![c].stashed =
              @ \o Reverse(SubSeq(pool.pages, Len(pool.pages) - k + 1, Len(pool.pages)))]
       /\ UNCHANGED <<page_refs, mem, skb, freeing, releases>>

(***************************************************************************)
(* homa_skb_page_alloc: reuse the core's page if nobody else refers to it, *)
(* else take one from the stash, the pool, or the kernel.                  *)
(***************************************************************************)
Reusable(k) == k.skb_page # NoPage /\ page_refs[k.skb_page] = 1

Fresh(c, p, size) == [skb_core[c] EXCEPT !.skb_page = p, !.page_inuse = 0, !.page_size = size]

homa_skb_page_alloc(c) ==
    LET k == skb_core[c]
        n == CoreNode[c]
        put == IF k.skb_page = NoPage THEN page_refs ELSE put_page(page_refs, k.skb_page)
        got(core, refs, pools) == {[core |-> core, refs |-> refs, pools |-> pools]}
        free(set) == {p \in set : put[p] = 0}
        any == IF free(BigPages) # {} THEN free(BigPages) ELSE free(SmallPages)
        kernel == {p \in any : \A q \in any : p <= q}
    IN IF Reusable(k) THEN got([k EXCEPT !.page_inuse = 0], page_refs, page_pool)
       ELSE IF k.stashed # <<>>
            THEN got([Fresh(c, Last(k.stashed), BigSize) EXCEPT !.stashed = Front(@)], put,
                     page_pool)
       ELSE IF page_pool[n].pages # <<>>
            THEN got(Fresh(c, Last(page_pool[n].pages), BigSize), put,
                     [page_pool EXCEPT ![n] = Popped(@, 1)])
       ELSE UNION {got(Fresh(c, p, SizeOf(p)), get_page(put, p), page_pool) : p \in kernel}

OutOfMemory(c) == homa_skb_page_alloc(c) = {}

(***************************************************************************)
(* homa_skb_extend_frags, called by homa_skb_append_from_iter and          *)
(* homa_skb_append_to_frag: the data goes right behind the last fragment   *)
(* if that is where the free part of the core's page begins, else into a   *)
(* new fragment.                                                           *)
(***************************************************************************)
Written(p, off, len, s) ==
    mem' = [mem EXCEPT ![p] = [i \in DOMAIN @ |-> IF i \in off .. off + len - 1 THEN s ELSE @[i]]]

Extensible(s, k) ==
    /\ skb[s].frags # <<>>
    /\ LET f == Last(skb[s].frags)
       IN f.page = k.skb_page /\ k.page_inuse < k.page_size /\ f.off + f.len = k.page_inuse

Busy(s) == \E c \in Cores : freeing[c].skb = s

(* Nothing is added to the copy that homa_resend_data makes with           *)
(* homa_skb_append_from_skb, and copied data never to a zero-copy packet.  *)
IsCopy(s) == \E i \in DOMAIN skb[s].frags : skb[s].frags[i].of # s

Writable(s, len) == /\ skb[s].st = "live"
                    /\ ~IsCopy(s)
                    /\ skb[s].users = 1
                    /\ ~Busy(s)
                    /\ skb[s].len + len <= MaxData

ExtendLast(s, c, len) ==
    LET k == skb_core[c]
        n == Len(skb[s].frags)
        actual == Min({len, k.page_size - k.page_inuse})
    IN /\ Writable(s, len)
       /\ Extensible(s, k)
       /\ skb' = [skb EXCEPT ![s].frags[n].len = @ + actual, ![s].len = @ + actual]
       /\ skb_core' = [skb_core EXCEPT ![c].page_inuse = @ + actual]
       /\ Written(k.skb_page, k.page_inuse, actual, s)
       /\ UNCHANGED <<page_refs, page_pool, freeing, releases>>

AddFrag(s, c, k, len, refs) ==
    LET actual == Min({len, k.page_size - k.page_inuse})
        frag == [page |-> k.skb_page, off |-> k.page_inuse, len |-> actual, of |-> s]
    IN /\ skb' = [skb EXCEPT ![s].frags = Append(@, frag), ![s].len = @ + actual]
       /\ page_refs' = get_page(refs, k.skb_page)
       /\ skb_core' = [skb_core EXCEPT ![c] = [k EXCEPT !.page_inuse = @ + actual]]
       /\ Written(k.skb_page, k.page_inuse, actual, s)

NewFrag(s, c, len) ==
    LET k == skb_core[c]
    IN /\ Writable(s, len)
       /\ ~Extensible(s, k)
       /\ \/ /\ k.page_inuse < k.page_size
             /\ AddFrag(s, c, k, len, page_refs)
             /\ UNCHANGED page_pool
          \/ /\ k.page_inuse >= k.page_size
             /\ \E a \in homa_skb_page_alloc(c) : /\ AddFrag(s, c, a.core, len, a.refs)
                                                  /\ page_pool' = a.pools
       /\ UNCHANGED <<freeing, releases>>

AllocFails(s, c) ==
    LET k == skb_core[c]
    IN /\ Writable(s, 1)
       /\ ~Extensible(s, k)
       /\ k.page_inuse >= k.page_size
       /\ OutOfMemory(c)
       /\ page_refs' = IF k.skb_page = NoPage THEN page_refs ELSE put_page(page_refs, k.skb_page)
       /\ skb_core' = [skb_core EXCEPT ![c] = Fresh(c, NoPage, 0)]
       /\ UNCHANGED <<mem, page_pool, skb, freeing, releases>>

(***************************************************************************)
(* homa_skb_append_from_iter_zerocopy: the packet's fragments point to the *)
(* caller's pages.  Each page gets a reference; a page that continues the  *)
(* last fragment joins it and gives its reference back.  With too many     *)
(* fragments the rest is given back, and homa_tx_data_pkt_alloc frees the  *)
(* packet.                                                                 *)
(***************************************************************************)
Pinned(refs, pages) == FoldSeq(LAMBDA x, acc : get_page(acc, x.page), refs, pages)

Continues(a, x) ==
    /\ a.frags # <<>> /\ a.full /\ x.first
    /\ Last(a.frags).page + Last(a.frags).len = x.page

AppendPiece(a, x) ==
    IF ~a.ok THEN [a EXCEPT !.refs = put_page(@, x.page)]
    ELSE IF Continues(a, x)
    THEN [a EXCEPT !.frags[Len(a.frags)].len = @ + 1, !.refs = put_page(@, x.page),
                   !.full = x.last]
    ELSE IF Len(a.frags) >= MaxFrags
    THEN [a EXCEPT !.ok = FALSE, !.refs = put_page(@, x.page)]
    ELSE [a EXCEPT !.frags = Append(@, [page |-> x.page, off |-> 0, len |-> 1, of |-> 0]),
                   !.full = x.last]

(* The fragments that begin in the pages counted by p, and the pages that  *)
(* a fragment covers.                                                      *)
FragsIn(p) == {x \in Skbs \X (1 .. MaxFrags) :
                 /\ x[2] \in DOMAIN skb[x[1]].frags
                 /\ Counted(skb[x[1]].frags[x[2]].page) = p}

Covered(f) == f.page .. f.page + f.len - 1

(* Whether the caller has a reference of its own.                          *)
CallerHolds(p) == page_refs[p] > Cardinality(FragsIn(p))

homa_skb_append_from_iter_zerocopy(s, c, iter) ==
    LET a == FoldLeft(AppendPiece, [frags |-> <<>>, refs |-> Pinned(page_refs, iter),
                                    full |-> FALSE, ok |-> TRUE], iter)
    IN /\ Writable(s, 1)
       /\ skb[s].frags = <<>>
       /\ freeing[c] = NoFree
       /\ \A i \in DOMAIN iter : CallerHolds(CompoundHead[iter[i].page])
       /\ skb' = [skb EXCEPT ![s].frags = a.frags, ![s].len = Len(iter)]
       /\ page_refs' = a.refs
       /\ freeing' = IF a.ok THEN freeing
                     ELSE [freeing EXCEPT ![c] = [NoFree EXCEPT !.skb = s, !.todo = a.frags]]
       /\ UNCHANGED <<mem, skb_core, page_pool, releases>>

(* The caller drops its own reference.  "The caller must keep the          *)
(* underlying pages valid until the skb is freed": it matters for a page   *)
(* that joined a fragment that began in another one.                       *)
ForeignDone(p) ==
    /\ CallerHolds(p)
    /\ \A s \in Skbs : \A i \in DOMAIN skb[s].frags :
         LET f == skb[s].frags[i]
         IN f.of = 0 /\ p \in {CompoundHead[q] : q \in Covered(f)} => CompoundHead[f.page] = p
    /\ page_refs' = put_page(page_refs, p)
    /\ UNCHANGED <<mem, skb_core, page_pool, skb, freeing, releases>>

(***************************************************************************)
(* homa_skb_append_from_skb: the fragments of another packet.              *)
(***************************************************************************)
Referenced(frags) == FoldSeq(LAMBDA f, refs : get_page(refs, f.page), page_refs, frags)

homa_skb_append_from_skb(s, from) ==
    /\ s # from
    /\ Writable(s, skb[from].len)
    /\ skb[s].frags = <<>>
    /\ skb[from].st = "live"
    /\ skb[from].frags # <<>>
    /\ ~Busy(from)
    /\ skb' = [skb EXCEPT ![s].frags = skb[from].frags, ![s].len = skb[from].len]
    /\ page_refs' = Referenced(skb[from].frags)
    /\ UNCHANGED <<mem, skb_core, page_pool, freeing, releases>>

(***************************************************************************)
(* The NIC's reference on a packet that is being transmitted.  Whoever     *)
(* drops the last one releases the pages (skb_release_data).               *)
(***************************************************************************)
Transmit(s) ==
    /\ skb[s].st = "live"
    /\ skb[s].users = 1
    /\ skb[s].len > 0
    /\ ~Busy(s)
    /\ skb' = [skb EXCEPT ![s].users = 2]
    /\ UNCHANGED <<page_refs, mem, skb_core, page_pool, freeing, releases>>

consume_skb(s) ==
    IF skb[s].users > 1
    THEN /\ skb' = [skb EXCEPT ![s].users = @ - 1, ![s].st = "sent"]
         /\ UNCHANGED page_refs
    ELSE /\ skb' = [skb EXCEPT ![s] = [st |-> "gone", frags |-> <<>>, users |-> 0, len |-> 0]]
         /\ page_refs' = FoldSeq(LAMBDA f, refs : put_page(refs, f.page), page_refs, skb[s].frags)

NicDone(s) ==
    /\ \/ skb[s].st = "live" /\ skb[s].users = 2 /\ skb' = [skb EXCEPT ![s].users = 1]
          /\ UNCHANGED page_refs
       \/ skb[s].st = "sent" /\ consume_skb(s)
    /\ UNCHANGED <<mem, skb_core, page_pool, freeing, releases>>

(***************************************************************************)
(* homa_skb_free_many_tx: page by page, the page is set aside for the pool *)
(* if this fragment has the only reference, else the reference is dropped; *)
(* the test and the action on it are two steps.                            *)
(***************************************************************************)
homa_skb_free_many_tx(c, s) ==
    /\ freeing[c] = NoFree
    /\ skb[s].st = "live"
    /\ ~Busy(s)
    /\ \/ /\ skb[s].users > 1
          /\ consume_skb(s)
          /\ UNCHANGED freeing
       \/ /\ skb[s].users = 1
          /\ freeing' = [freeing EXCEPT ![c] = [NoFree EXCEPT !.skb = s, !.todo = skb[s].frags]]
          /\ UNCHANGED <<page_refs, skb>>
    /\ UNCHANGED <<mem, skb_core, page_pool, releases>>

(* Mutant: a page is kept for reuse although other packets refer to it.    *)
CacheableShared(p) == p \in BigPages /\ page_refs[p] >= 1

Cacheable(p) == p \in BigPages /\ page_refs[p] = 1

TestFrag(c) ==
    /\ freeing[c].todo # <<>>
    /\ freeing[c].verdict = "none"
    /\ freeing' = [freeing EXCEPT ![c].verdict =
           IF Cacheable(Head(freeing[c].todo).page) THEN "cache" ELSE "put"]
    /\ UNCHANGED <<page_refs, mem, skb_core, page_pool, skb, releases>>

FreeFrag(c) ==
    LET p == Head(freeing[c].todo).page
        rest == [freeing[c] EXCEPT !.todo = Tail(@), !.verdict = "none"]
    IN /\ freeing[c].verdict # "none"
       /\ \/ /\ freeing[c].verdict = "cache"
             /\ freeing' = [freeing EXCEPT ![c] = [rest EXCEPT !.batch = Append(@, p)]]
             /\ UNCHANGED page_refs
          \/ /\ freeing[c].verdict = "put"
             /\ freeing' = [freeing EXCEPT ![c] = rest]
             /\ page_refs' = put_page(page_refs, p)
       /\ skb' = [skb EXCEPT ![freeing[c].skb].frags = Tail(@)]
       /\ UNCHANGED <<mem, skb_core, page_pool, releases>>

(***************************************************************************)
(* homa_skb_cache_pages, called when the batch is full and at the end.     *)
(***************************************************************************)
HasRoom(n) == Len(page_pool[n].pages) < PoolLimit

homa_skb_cache_pages(c) ==
    LET p == Head(freeing[c].batch)
        n == PageNode[p]
    IN /\ freeing[c].batch # <<>>
       /\ freeing[c].todo = <<>> \/ Len(freeing[c].batch) = CacheBatch
       /\ \/ /\ HasRoom(n)
             /\ page_pool' = [page_pool EXCEPT ![n].pages = Append(@, p)]
             /\ UNCHANGED page_refs
          \/ /\ ~HasRoom(n)
             /\ page_refs' = put_page(page_refs, p)
             /\ UNCHANGED page_pool
       /\ freeing' = [freeing EXCEPT ![c].batch = Tail(@)]
       /\ UNCHANGED <<mem, skb_core, skb, releases>>

FreeDone(c) ==
    /\ freeing[c].skb # 0
    /\ freeing[c].todo = <<>>
    /\ freeing[c].batch = <<>>
    /\ skb' = [skb EXCEPT ![freeing[c].skb] = [st |-> "gone", frags |-> <<>>, users |-> 0,
                                               len |-> 0]]
    /\ freeing' = [freeing EXCEPT ![c] = NoFree]
    /\ UNCHANGED <<page_refs, mem, skb_core, page_pool, releases>>

(***************************************************************************)
(* homa_skb_release_pages: every half second the pool with the largest low *)
(* water mark gives pages back to the kernel.                              *)
(***************************************************************************)
MostIdle == CHOOSE n \in Nodes :
                \A m \in Nodes : \/ page_pool[n].low_mark > page_pool[m].low_mark
                                 \/ page_pool[n].low_mark = page_pool[m].low_mark /\ n <= m

ToRelease == LET r == Min({page_pool[MostIdle].low_mark - MinPages, ReleaseMax})
             IN IF r < 0 THEN 0 ELSE r

homa_skb_release_pages ==
    LET old == page_pool[MostIdle].pages
        left == Len(old) - ToRelease
    IN /\ releases < MaxReleases
       /\ releases' = releases + 1
       /\ page_pool' = [n \in Nodes |->
              IF n = MostIdle THEN [pages |-> SubSeq(old, 1, left), low_mark |-> left]
              ELSE [page_pool[n] EXCEPT !.low_mark = Len(page_pool[n].pages)]]
       /\ page_refs' = [p \in Pages |-> IF \E i \in left + 1 .. Len(old) : old[i] = p
                                        THEN page_refs[p] - 1 ELSE page_refs[p]]
       /\ UNCHANGED <<mem, skb_core, skb, freeing>>

Fill(s, c) == \E len \in 1 .. 2 : ExtendLast(s, c, len) \/ NewFrag(s, c, len)

CoreStep(c) == \/ /\ "stash" \in kconf.does
                  /\ \E needed \in 1 .. 2 : homa_skb_stash_pages(c, needed)
               \/ \E s \in Skbs : \/ Fill(s, c)
                                 \/ AllocFails(s, c)
                                 \/ homa_skb_free_many_tx(c, s)
                                 \/ /\ "zerocopy" \in kconf.does
                                    /\ \E iter \in Iters :
                                         homa_skb_append_from_iter_zerocopy(s, c, iter)
               \/ TestFrag(c)
               \/ FreeFrag(c)
               \/ homa_skb_cache_pages(c)
               \/ FreeDone(c)

PacketStep(s) == \/ homa_skb_alloc_tx(s)
                 \/ "transmit" \in kconf.does /\ Transmit(s)
                 \/ NicDone(s)
                 \/ /\ "copy" \in kconf.does
                    /\ \E from \in Skbs : homa_skb_append_from_skb(s, from)

Next == /\ \/ \E c \in kconf.cores : CoreStep(c)
           \/ \E s \in Skbs : PacketStep(s)
           \/ \E p \in Range(CompoundHead) : "zerocopy" \in kconf.does /\ ForeignDone(p)
           \/ homa_skb_release_pages
        /\ UNCHANGED kconf

Spec == Init /\ [][Next]_skbVars

(***************************************************************************)
(* Properties                                                              *)
(***************************************************************************)

(* How often a page occurs in a sequence.                                  *)
Occurs(p, seq) == Cardinality({i \in DOMAIN seq : seq[i] = p})

PagesOf(s) == [i \in DOMAIN skb[s].frags |-> skb[s].frags[i].page]

(* The references on a page are those of the cores that fill it, of        *)
(* fragments, of stashes, of pools and of pages on their way to a pool: no *)
(* page is given back twice, or kept by nobody.                            *)
PageRefsExact ==
    \A p \in BigPages \cup SmallPages :
        page_refs[p] = Cardinality({c \in Cores : skb_core[c].skb_page = p})
                       + MapThenSumSet(LAMBDA c : Occurs(p, skb_core[c].stashed)
                                                  + Occurs(p, freeing[c].batch), Cores)
                       + MapThenSumSet(LAMBDA n : Occurs(p, page_pool[n].pages), Nodes)
                       + MapThenSumSet(LAMBDA s : Occurs(p, PagesOf(s)), Skbs)

(* A caller's pages have a reference for each fragment that begins there,  *)
(* and none besides that and the caller's own, also after packets that     *)
(* failed; whatever a fragment covers has not been freed.                  *)
ForeignKept ==
    /\ \A p \in Range(CompoundHead) : page_refs[p] - Cardinality(FragsIn(p)) \in {0, 1}
    /\ \A s \in Skbs : \A i \in DOMAIN skb[s].frags :
         LET f == skb[s].frags[i]
         IN f.of = 0 => \A q \in Covered(f) : page_refs[CompoundHead[q]] > 0

(* What a packet's fragments point to is still the data written for it (or *)
(* for the packet it is a copy of), until the packet is freed.             *)
DataIntact ==
    \A s \in Skbs : \A i \in DOMAIN skb[s].frags :
        LET f == skb[s].frags[i]
        IN f.of # 0 => \A b \in f.off .. f.off + f.len - 1 : mem[f.page][b] = f.of

(* The pools respect their limit, and a low water mark never exceeds the   *)
(* pages available, so homa_skb_release_pages cannot take more than there  *)
(* are.                                                                    *)
PoolsBounded ==
    \A n \in Nodes : /\ Len(page_pool[n].pages) <= PoolLimit
                      /\ page_pool[n].low_mark <= Len(page_pool[n].pages)

(* A page is reused only when nobody refers to it, and is not lost.        *)
PagesConsistent == PageRefsExact /\ ForeignKept /\ DataIntact /\ PoolsBounded
=============================================================================
