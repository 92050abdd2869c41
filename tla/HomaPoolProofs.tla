--------------------------- MODULE HomaPoolProofs ---------------------------
(***************************************************************************)
(* Proofs about HomaPool, for every number of bpages, cores and RPCs and   *)
(* every length of messages: the steps that take, share or release bpages, *)
(* and the theorems.                                                       *)
(***************************************************************************)
EXTENDS HomaPoolSteps

\* The steps are first-order and go to Zenon; the others are marked SMT.
USE ZenonT(60)

-----------------------------------------------------------------------------
(* Steps that allocate or release bpages                                   *)

\* The users of a bpage are a finite set.
LEMMA UsersFinite ==
  ASSUME PoolAssumptions, NEW b
  PROVE  IsFiniteSet(Users(b)) /\ Cardinality(Users(b)) \in Nat
<1>1. IsFiniteSet(Users(b))
  BY FS_Subset DEF Users, PoolAssumptions
<1> QED BY <1>1, FS_CardinalityType

\* Every buffer in the bpage of f ends before f starts.
BuffersBefore(f) == \A q \in Rpcs : \A i \in DOMAIN bufs[q] :
                       bufs[q][i].bpage = f.bpage => BufEnd(bufs[q][i]) <= f.offset

\* The step leaves the other bpages and their owners alone.
OtherPagesKept(b) == \A x \in Bpages \ {b} :
                       /\ bpages'[x].owner = bpages[x].owner /\ bpages'[x].refs = bpages[x].refs
                       /\ bpages[x].owner # NoOwner => cores'[bpages[x].owner] = cores[bpages[x].owner]

\* The step counts f as one more user of its bpage, and an owner allocates
\* behind f.
BufferCounted(f) == /\ bpages'[f.bpage].refs = Cardinality(Users(f.bpage)) + 1
                                               + (IF bpages'[f.bpage].owner # NoOwner THEN 1 ELSE 0)
                    /\ bpages'[f.bpage].owner # NoOwner =>
                          /\ cores'[bpages'[f.bpage].owner].page_hint = f.bpage
                          /\ cores'[bpages'[f.bpage].owner].allocated = BufEnd(f)

\* Buffer f of r is added behind everything in its bpage.
LEMMA AppendPages ==
  ASSUME PoolAssumptions, PoolTypeOK, PagesInv, NEW r \in Rpcs, NEW f \in BufferType,
         bufs' = [bufs EXCEPT ![r] = Append(@, f)],
         BufEnd(f) <= BpageSize, r \notin Users(f.bpage), BuffersBefore(f),
         OtherPagesKept(f.bpage), BufferCounted(f)
  PROVE  PagesInv'
<1> USE DEF BuffersBefore, OtherPagesKept, BufferCounted
<1>1. PICK n \in Nat : n = Len(bufs[r]) + 1
  BY SMTT(60) DEF PoolTypeOK
<1>2. /\ DOMAIN bufs'[r] = DOMAIN bufs[r] \cup {n} /\ n \notin DOMAIN bufs[r]
      /\ \A i \in DOMAIN bufs[r] : bufs'[r][i] = bufs[r][i]
      /\ bufs'[r][n] = f
      /\ \A q \in Rpcs \ {r} : bufs'[q] = bufs[q]
  BY <1>1, AppendFacts, SMTT(60) DEF PoolTypeOK
<1>3. f.bpage \in Bpages /\ f.offset \in Nat /\ f.len \in Nat /\ BufEnd(f) \in Nat
  BY SMTT(60) DEF BufferType, BufEnd, PoolAssumptions
<1>4. \A q \in Rpcs : \A i \in DOMAIN bufs[q] : /\ bufs[q][i] \in BufferType
                                               /\ BufEnd(bufs[q][i]) \in Nat
  <2> SUFFICES ASSUME NEW q \in Rpcs, NEW i \in DOMAIN bufs[q]
               PROVE  bufs[q][i] \in BufferType /\ BufEnd(bufs[q][i]) \in Nat
    OBVIOUS
  <2>1. bufs[q][i] \in BufferType
    BY SMTT(60) DEF PoolTypeOK
  <2> QED BY <2>1, SMTT(60) DEF BufferType, BufEnd, PoolAssumptions
<1>5. BufsApart'
  <2>1. ASSUME NEW q \in Rpcs, NEW i \in DOMAIN bufs'[q]  PROVE  BufEnd(bufs'[q][i]) <= BpageSize
    BY <1>2, <2>1 DEF PagesInv, BufsApart
  <2>2. ASSUME NEW q \in Rpcs, NEW i \in DOMAIN bufs[q]
        PROVE  Apart(bufs[q][i], f) /\ Apart(f, bufs[q][i])
    BY DEF Apart
  <2>3. ASSUME NEW q \in Rpcs, NEW u \in Rpcs, NEW i \in DOMAIN bufs'[q], NEW j \in DOMAIN bufs'[u],
               <<q, i>> # <<u, j>>
        PROVE  Apart(bufs'[q][i], bufs'[u][j])
    <3>1. CASE q = r /\ i = n
      <4>1. bufs'[u][j] = bufs[u][j] /\ j \in DOMAIN bufs[u]
        BY <1>2, <2>3, <3>1
      <4> QED BY <1>2, <2>2, <3>1, <4>1, SMTT(60)
    <3>2. CASE u = r /\ j = n
      <4>1. bufs'[q][i] = bufs[q][i] /\ i \in DOMAIN bufs[q]
        BY <1>2, <2>3, <3>2, SMTT(60)
      <4> QED BY <1>2, <2>2, <3>2, <4>1
    <3>3. CASE ~(q = r /\ i = n) /\ ~(u = r /\ j = n)
      <4>1. /\ bufs'[q][i] = bufs[q][i] /\ i \in DOMAIN bufs[q]
            /\ bufs'[u][j] = bufs[u][j] /\ j \in DOMAIN bufs[u]
        BY <1>2, <3>3
      <4> QED BY <2>3, <4>1 DEF PagesInv, BufsApart
    <3> QED BY <3>1, <3>2, <3>3
  <2> QED BY <2>1, <2>3 DEF BufsApart, BufEnd, Apart
<1>6. OwnerInv'
  <2> SUFFICES ASSUME NEW b \in Bpages, bpages'[b].owner # NoOwner, NEW q \in Rpcs,
                      NEW i \in DOMAIN bufs'[q], bufs'[q][i].bpage = b
               PROVE  BufEnd(bufs'[q][i]) <= cores'[bpages'[b].owner].allocated
    BY DEF OwnerInv, BufEnd
  <2>1. CASE q = r /\ i = n
    <3>1. b = f.bpage /\ bufs'[q][i] = f
      BY <1>2, <2>1
    <3> QED BY <1>3, <3>1, SMTT(60)
  <2>2. CASE ~(q = r /\ i = n)
    <3>1. i \in DOMAIN bufs[q] /\ bufs'[q][i] = bufs[q][i]
      BY <1>2, <2>2, SMTT(60)
    <3>2. CASE b = f.bpage
      <4>1. BufEnd(bufs[q][i]) <= f.offset /\ f.offset <= BufEnd(f)
        BY <1>3, <3>1, <3>2, SMTT(60) DEF BufEnd
      <4> QED BY <1>3, <1>4, <3>1, <3>2, <4>1, SMTT(60)
    <3>3. CASE b # f.bpage
      BY <3>1, <3>3, SMTT(60) DEF PagesInv, OwnerInv
    <3> QED BY <3>2, <3>3
  <2> QED BY <2>1, <2>2
<1>7. BpageRefsExact'
  <2>1. /\ Users(f.bpage)' = Users(f.bpage) \cup {r}
        /\ \A b \in Bpages \ {f.bpage} : Users(b)' = Users(b)
    BY AppendUsers DEF PoolTypeOK
  <2>2. Cardinality(Users(f.bpage)') = Cardinality(Users(f.bpage)) + 1
    BY <2>1, UsersFinite, FS_AddElement
  <2>3. ASSUME NEW b \in Bpages
        PROVE  /\ bpages'[b].refs = Cardinality(Users(b)')
                                    + (IF bpages'[b].owner # NoOwner THEN 1 ELSE 0)
               /\ bpages'[b].owner # NoOwner => cores'[bpages'[b].owner].page_hint = b
    <3>1. CASE b = f.bpage
      BY <2>2, <3>1
    <3>2. CASE b # f.bpage
      BY <2>1, <3>2, SMTT(60) DEF PagesInv, BpageRefsExact
    <3> QED BY <3>1, <3>2
  <2>4. ASSUME NEW q \in Rpcs, NEW i \in DOMAIN bufs'[q], NEW j \in DOMAIN bufs'[q], i # j
        PROVE  bufs'[q][i].bpage # bufs'[q][j].bpage
    <3>1. \A k \in DOMAIN bufs[r] : bufs[r][k].bpage # f.bpage
      BY DEF Users
    <3> QED BY <1>2, <2>4, <3>1, SMTT(60) DEF PagesInv, BpageRefsExact
  <2> QED BY <2>3, <2>4 DEF BpageRefsExact
<1> QED BY <1>5, <1>6, <1>7 DEF PagesInv

\* A bpage gets new values.
LEMMA SetPage ==
  ASSUME NEW m \in [Bpages -> BpageType], NEW b \in Bpages, NEW k \in BpageType
  PROVE  /\ [m EXCEPT ![b] = k] \in [Bpages -> BpageType]
         /\ [m EXCEPT ![b] = k][b] = k
         /\ \A x \in Bpages \ {b} : [m EXCEPT ![b] = k][x] = m[x]
BY DEF BpageType

\* TakePage gives core c the bpage b, or a message all of it.
LEMMA TakePageFields ==
  ASSUME PoolTypeOK, NEW c \in Cores, NEW r \in Rpcs, NEW b \in Bpages, TakePage(c, r, b),
         PoolAssumptions
  PROVE  /\ bpages' \in [Bpages -> BpageType]
         /\ \A x \in Bpages \ {b} : bpages'[x] = bpages[x]
         /\ bpages'[b].refs = IF ctx[c].set_owner THEN 2 ELSE 1
         /\ bpages'[b].owner = IF ctx[c].set_owner THEN c ELSE NoOwner
         /\ cores' = IF ctx[c].set_owner
                     THEN [cores EXCEPT ![c] = [page_hint |-> b, allocated |-> Partial(r)]]
                     ELSE cores
         /\ bufs' = [bufs EXCEPT ![r] = Append(@, Buffer(b, 0, IF ctx[c].set_owner THEN Partial(r) ELSE BpageSize))]
<1>1. bpages \in [Bpages -> BpageType] /\ bpages[b] \in BpageType /\ ctx[c].set_owner \in BOOLEAN
  BY DEF PoolTypeOK, ContextType
<1>2. CASE ctx[c].set_owner
  <2>1. PICK k : k = [[[bpages[b] EXCEPT !.refs = 2] EXCEPT !.owner = c] EXCEPT !.expired = FALSE]
    OBVIOUS
  <2>2. bpages' = [bpages EXCEPT ![b] = k]
    BY <1>1, <1>2, <2>1 DEF TakePage
  <2>3. k \in BpageType /\ k.refs = 2 /\ k.owner = c
    BY <1>1, <2>1 DEF BpageType
  <2>4. /\ bpages' \in [Bpages -> BpageType] /\ bpages'[b] = k
        /\ \A x \in Bpages \ {b} : bpages'[x] = bpages[x]
    BY ONLY <1>1, <2>2, <2>3, SetPage, b \in Bpages, SMTT(60)
  <2> QED BY <1>2, <2>3, <2>4 DEF TakePage
<1>3. CASE ~ctx[c].set_owner
  <2>1. PICK k : k = [bpages[b] EXCEPT !.refs = 1, !.owner = NoOwner, !.expired = FALSE]
    OBVIOUS
  <2>2. bpages' = [bpages EXCEPT ![b] = k]
    BY <1>1, <1>3, <2>1 DEF TakePage
  <2>3. k \in BpageType /\ k.refs = 1 /\ k.owner = NoOwner
    BY <1>1, <2>1 DEF BpageType
  <2>4. /\ bpages' \in [Bpages -> BpageType] /\ bpages'[b] = k
        /\ \A x \in Bpages \ {b} : bpages'[x] = bpages[x]
    BY ONLY <1>1, <2>2, <2>3, SetPage, b \in Bpages, SMTT(60)
  <2> QED BY <1>3, <2>3, <2>4 DEF TakePage
<1> QED BY <1>1, <1>2, <1>3

\* The context of core c after it found a bpage.
LEMMA FoundContext ==
  ASSUME PoolTypeOK, NEW c \in Cores, NEW r, ctx[c].left \in 1 .. HOMA_MAX_MESSAGE_LENGTH,
         ctx[c].pc = "find",
         ctx' = [ctx EXCEPT ![c] = AfterFind(c, r)]
  PROVE  /\ ctx' \in [Cores -> ContextType] /\ \A d \in Cores \ {c} : ctx'[d] = ctx[d]
         /\ ctx'[c].rpc = ctx[c].rpc /\ ctx'[c].set_owner = ctx[c].set_owner
         /\ ctx[c].left > 1 => ctx'[c].pc = "find" /\ ctx'[c].left = ctx[c].left - 1
         /\ ctx[c].left = 1 =>
               ctx'[c].pc = IF ctx[c].set_owner \/ Partial(r) = 0 THEN "success" ELSE "partial"
<1>1. ctx[c] \in ContextType
  BY DEF PoolTypeOK
<1>2. PICK k : k = ctx'[c]
  OBVIOUS
<1>3. ctx' = [ctx EXCEPT ![c] = k]
  BY <1>2 DEF PoolTypeOK
<1>a. k = AfterFind(c, r)
  BY <1>2 DEF PoolTypeOK
<1>4. CASE ctx[c].left > 1
  <2>1. k = [ctx[c] EXCEPT !.left = ctx[c].left - 1]
    BY <1>a, <1>4 DEF AfterFind
  <2>2. k \in ContextType /\ k.rpc = ctx[c].rpc /\ k.set_owner = ctx[c].set_owner
        /\ k.pc = "find" /\ k.left = ctx[c].left - 1
    BY <1>1, <1>4, <2>1, Limits, SMTT(60) DEF ContextType
  <2> QED BY <1>2, <1>3, <1>4, <2>2, SMTT(60) DEF PoolTypeOK
<1>5. CASE ctx[c].left = 1
  <2> DEFINE pc == IF ctx[c].set_owner \/ Partial(r) = 0 THEN "success" ELSE "partial"
  <2>1. k = [ctx[c] EXCEPT !.pc = pc]
    BY <1>a, <1>5, SMTT(60) DEF AfterFind, AfterFull
  <2>2. pc \in AllocPcs
    BY DEF AllocPcs
  <2> HIDE DEF pc
  <2>3. k \in ContextType /\ k.rpc = ctx[c].rpc /\ k.set_owner = ctx[c].set_owner /\ k.pc = pc
    BY <1>1, <2>1, <2>2 DEF ContextType
  <2> QED BY <1>2, <1>3, <1>5, <2>3, SMTT(60) DEF PoolTypeOK, pc
<1> QED BY <1>4, <1>5, Limits, SMTT(60)

\* A bpage that may be taken has no user.
LEMMA AvailableUnused ==
  ASSUME PoolAssumptions, PoolTypeOK, PagesInv, NEW b \in Bpages,
         bpages[b].refs = (IF bpages[b].owner # NoOwner THEN 1 ELSE 0)
  PROVE  /\ Users(b) = {} /\ Cardinality(Users(b)) = 0
         /\ \A q \in Rpcs : \A i \in DOMAIN bufs[q] : bufs[q][i].bpage # b
<1>1. Cardinality(Users(b)) = 0
  BY UsersFinite, SMTT(60) DEF PagesInv, BpageRefsExact
<1>2. Users(b) = {}
  BY <1>1, UsersFinite, FS_EmptySet
<1> QED BY <1>1, <1>2 DEF Users

\* The length of the message of r grows by a buffer of the right kind.
LEMMA GrowRpc ==
  ASSUME PoolAssumptions, PoolTypeOK, NEW r \in Rpcs, NEW f \in BufferType, RpcInv(r),
         phase[r] = "alloc", phase' = phase, pend' = pend,
         bufs' = [bufs EXCEPT ![r] = Append(@, f)],
         IF Len(bufs[r]) < FullPages(r) THEN f.offset = 0 /\ f.len = BpageSize
         ELSE f.len = Partial(r)
  PROVE  /\ RpcInv(r)' /\ Len(bufs[r]) \in Nat /\ Len(bufs'[r]) = Len(bufs[r]) + 1
         /\ \A q \in Rpcs \ {r} : bufs'[q] = bufs[q]
<1>1. PICK n \in Nat : n = Len(bufs[r])
  BY SMTT(60) DEF PoolTypeOK
<1>2. /\ DOMAIN bufs'[r] = DOMAIN bufs[r] \cup {n + 1}
      /\ \A i \in DOMAIN bufs[r] : bufs'[r][i] = bufs[r][i]
      /\ bufs'[r][n + 1] = f /\ Len(bufs'[r]) = n + 1
      /\ \A q \in Rpcs \ {r} : bufs'[q] = bufs[q]
  BY <1>1, AppendFacts DEF PoolTypeOK
<1>3. FullPages(r) \in Nat /\ Partial(r) \in Nat
  BY MessageSize, SMTT(60)
<1>4. ASSUME NEW i \in DOMAIN bufs'[r]
      PROVE  IF i <= FullPages(r) THEN bufs'[r][i].offset = 0 /\ bufs'[r][i].len = BpageSize
             ELSE bufs'[r][i].len = Partial(r)
  <2>1. CASE i = n + 1
    <3>1. i <= FullPages(r) <=> Len(bufs[r]) < FullPages(r)
      BY <1>1, <1>3, <2>1, SMTT(60)
    <3> QED BY <1>2, <2>1, <3>1
  <2>2. CASE i # n + 1
    BY <1>2, <2>2 DEF RpcInv
  <2> QED BY <2>1, <2>2
<1>5. RpcInv(r)'
  <2>1. /\ FullPages(r)' = FullPages(r) /\ Partial(r)' = Partial(r) /\ phase'[r] = "alloc"
        /\ ~pend'[r]
    BY DEF FullPages, Partial, RpcInv
  <2> QED BY <1>4, <2>1 DEF RpcInv
<1> QED BY <1>1, <1>2, <1>5

\* homa_pool_get_pages finds a bpage.
LEMMA FindPageInv ==
  ASSUME PoolAssumptions, PoolInv, NEW c \in Cores, NEW b \in Bpages, FindPage(c, b)
  PROVE  PoolInv'
<1> USE DEF PoolInv
<1>1. /\ ctx[c].pc = "find" /\ homa_bpage_available(b) /\ ~bpages[b].locked
      /\ free_bpages' = IF bpages[b].owner # NoOwner THEN free_bpages + 1 ELSE free_bpages
      /\ TakePage(c, ctx[c].rpc, b) /\ ctx' = [ctx EXCEPT ![c] = AfterFind(c, ctx[c].rpc)]
      /\ bpages_needed' = bpages_needed /\ waiting_for_bufs' = waiting_for_bufs
      /\ phase' = phase /\ pend' = pend
  BY DEF FindPage
<1>2. PICK r \in Rpcs : r = ctx[c].rpc
  BY <1>1 DEF StepsInv, CoreInv, Allocating, AllocPcs
<1>3. PICK so \in BOOLEAN : so = ctx[c].set_owner
  BY DEF PoolTypeOK, ContextType
<1>4. /\ CoreInv(c) /\ RpcInv(r) /\ phase[r] = "alloc"
      /\ ctx[c].left \in 1 .. HOMA_MAX_MESSAGE_LENGTH
      /\ so => /\ Partial(r) > 0 /\ Len(bufs[r]) = FullPages(r) /\ ctx[c].left = 1
               /\ \A x \in Bpages : bpages[x].owner # c
      /\ ~so => Len(bufs[r]) + ctx[c].left = FullPages(r)
  BY <1>1, <1>2, <1>3 DEF StepsInv, CoreInv, Allocating, AllocPcs
<1>5. /\ FullPages(r) \in Nat /\ Partial(r) \in 0 .. BpageSize - 1 /\ BpageSize \in Nat \ {0}
      /\ Len(bufs[r]) \in Nat
  BY MessageSize, SMTT(60) DEF PoolTypeOK
<1>6. PICK len \in 1 .. BpageSize : len = IF so THEN Partial(r) ELSE BpageSize
  BY <1>4, <1>5, SMTT(60)
<1>7. PICK f : f = Buffer(b, 0, len)
  OBVIOUS
<1>8. f \in BufferType /\ f.bpage = b /\ f.offset = 0 /\ f.len = len /\ BufEnd(f) = len
  BY <1>5, <1>7, SMTT(60) DEF BufferType, Buffer, BufEnd
<1>9. /\ bpages' \in [Bpages -> BpageType] /\ \A x \in Bpages \ {b} : bpages'[x] = bpages[x]
      /\ bpages'[b].refs = IF so THEN 2 ELSE 1
      /\ bpages'[b].owner = IF so THEN c ELSE NoOwner
      /\ cores' = IF so THEN [cores EXCEPT ![c] = [page_hint |-> b, allocated |-> Partial(r)]]
                  ELSE cores
      /\ bufs' = [bufs EXCEPT ![r] = Append(@, f)]
  <2>1. TakePage(c, r, b)
    BY <1>1, <1>2
  <2> QED BY <1>3, <1>6, <1>7, <2>1, TakePageFields, SMTT(60)
<1>10. /\ ctx' \in [Cores -> ContextType] /\ \A d \in Cores \ {c} : ctx'[d] = ctx[d]
       /\ ctx'[c].rpc = r /\ ctx'[c].set_owner = so
       /\ ctx[c].left > 1 => ctx'[c].pc = "find" /\ ctx'[c].left = ctx[c].left - 1
       /\ ctx[c].left = 1 =>
             ctx'[c].pc = IF so \/ Partial(r) = 0 THEN "success" ELSE "partial"
  BY <1>1, <1>2, <1>3, <1>4, FoundContext
<1>11. /\ bpages[b].refs = (IF bpages[b].owner # NoOwner THEN 1 ELSE 0)
       /\ bpages[b].owner \in Cores \cup {NoOwner}
  <2>1. /\ bpages[b].refs = Cardinality(Users(b)) + (IF bpages[b].owner # NoOwner THEN 1 ELSE 0)
        /\ bpages[b].owner \in Cores \cup {NoOwner}
    BY DEF PagesInv, BpageRefsExact, PoolTypeOK, BpageType
  <2> QED BY <1>1, <2>1, UsersFinite, SMTT(60) DEF homa_bpage_available
<1>12. /\ Users(b) = {} /\ Cardinality(Users(b)) = 0
       /\ \A q \in Rpcs : \A i \in DOMAIN bufs[q] : bufs[q][i].bpage # b
  BY <1>11, AvailableUnused
<1>13. /\ cores' \in [Cores -> CoreType] /\ \A d \in Cores \ {c} : cores'[d] = cores[d]
       /\ so => cores'[c].page_hint = b /\ cores'[c].allocated = Partial(r)
       /\ ~so => cores' = cores
  BY <1>5, <1>9, SMTT(60) DEF PoolTypeOK, CoreType
<1>14. NoOwner \notin Cores
  BY DEF PoolAssumptions, NoOwner
<1>15. PagesInv'
  <2>1. ASSUME NEW x \in Bpages \ {b}, bpages[x].owner # NoOwner
        PROVE  cores'[bpages[x].owner] = cores[bpages[x].owner]
    <3>1. bpages[x].owner \in Cores
      BY <2>1 DEF PoolTypeOK, BpageType
    <3> QED BY <1>4, <1>13, <3>1
  <2>2. bpages'[b].refs = Cardinality(Users(b)) + 1 + (IF bpages'[b].owner # NoOwner THEN 1 ELSE 0)
    BY <1>9, <1>12, <1>14, SMTT(60)
  <2>3. bpages'[b].owner # NoOwner => /\ cores'[bpages'[b].owner].page_hint = b
                                      /\ cores'[bpages'[b].owner].allocated = BufEnd(f)
    BY <1>6, <1>8, <1>9, <1>13
  <2>4. OtherPagesKept(f.bpage) /\ BufferCounted(f)
    BY <1>8, <1>9, <2>1, <2>2, <2>3 DEF OtherPagesKept, BufferCounted
  <2>5. BufEnd(f) <= BpageSize /\ r \notin Users(f.bpage) /\ BuffersBefore(f)
    BY <1>5, <1>8, <1>12, SMTT(60) DEF BuffersBefore
  <2>6. PoolTypeOK /\ PagesInv /\ f \in BufferType /\ bufs' = [bufs EXCEPT ![r] = Append(@, f)]
    BY <1>8, <1>9
  <2> QED BY ONLY PoolAssumptions, r \in Rpcs, <2>4, <2>5, <2>6, AppendPages, ZenonT(60)
<1>16. /\ RpcInv(r)' /\ Len(bufs'[r]) = Len(bufs[r]) + 1
       /\ \A q \in Rpcs \ {r} : bufs'[q] = bufs[q]
  <2>1. IF Len(bufs[r]) < FullPages(r) THEN f.offset = 0 /\ f.len = BpageSize
        ELSE f.len = Partial(r)
    BY <1>3, <1>4, <1>5, <1>6, <1>8, Limits, SMTT(60)
  <2> QED BY <1>1, <1>4, <1>8, <1>9, <2>1, GrowRpc
<1>17. CoreInv(c)'
  <2>1. /\ FullPages(r)' = FullPages(r) /\ Partial(r)' = Partial(r) /\ WholeLen(r)' = WholeLen(r)
        /\ phase'[r] = "alloc"
    BY <1>1, <1>4 DEF FullPages, Partial, WholeLen
  <2>2. CASE ctx[c].left > 1
    <3>1. ~so /\ Len(bufs'[r]) + ctx'[c].left = FullPages(r)
             /\ ctx'[c].left \in 1 .. HOMA_MAX_MESSAGE_LENGTH
      <4>1. ~so /\ ctx'[c].left = ctx[c].left - 1
        BY <1>3, <1>4, <1>10, <2>2
      <4>2. Len(bufs[r]) + ctx[c].left = FullPages(r) /\ ctx[c].left \in Nat
        BY <1>4, <4>1, Limits, SMTT(60)
      <4>3. ctx'[c].left \in 1 .. HOMA_MAX_MESSAGE_LENGTH
        BY <1>4, <2>2, <4>1, Limits, SMTT(60)
      <4> QED BY <1>5, <1>16, <4>1, <4>2, <4>3, SMTT(60)
    <3> QED BY <1>10, <2>1, <2>2, <3>1 DEF CoreInv, Allocating, AllocPcs
  <2>3. CASE ctx[c].left = 1
    <3>1. CASE so
      <4>1. Len(bufs'[r]) = WholeLen(r)
        BY <1>4, <1>5, <1>16, <3>1, SMTT(60) DEF WholeLen
      <4> QED BY <1>10, <2>1, <2>3, <3>1, <4>1 DEF CoreInv, Allocating, AllocPcs
    <3>2. CASE ~so /\ Partial(r) = 0
      <4>1. Len(bufs'[r]) = WholeLen(r)
        BY <1>4, <1>5, <1>16, <2>3, <3>2, SMTT(60) DEF WholeLen
      <4> QED BY <1>10, <2>1, <2>3, <3>2, <4>1 DEF CoreInv, Allocating, AllocPcs
    <3>3. CASE ~so /\ Partial(r) # 0
      <4>1. Len(bufs'[r]) = FullPages(r) /\ Partial(r) > 0
        BY <1>4, <1>5, <1>16, <2>3, <3>3, SMTT(60)
      <4> QED BY <1>10, <2>1, <2>3, <3>3, <4>1 DEF CoreInv, Allocating, AllocPcs
    <3> QED BY <1>3, <3>1, <3>2, <3>3
  <2> QED BY <1>4, <2>2, <2>3, Limits, SMTT(60)
<1>18. StepsInv'
  <2>1. ASSUME NEW d \in Cores \ {c}, NEW x \in Bpages
        PROVE  /\ bpages[x].owner # d => bpages'[x].owner # d
               /\ bpages[x].owner = d /\ bpages[x].locked =>
                     bpages'[x].owner = d /\ bpages'[x].locked
    BY <1>1, <1>9, <1>14
  <2> QED BY <1>1, <1>2, <1>10, <1>13, <1>16, <1>17, <2>1, CoreStep DEF AllocPcs
<1>19. ClaimsCovered'
  <2>1. ctx \in [Cores -> ContextType] /\ free_bpages \in Int
    BY DEF PoolTypeOK
  <2>2. PICK m \in Nat : /\ Claimed = m + Share(ctx[c], "find")
                         /\ Claimed' = m + Share(ctx'[c], "find")
    BY ONLY <1>10, <2>1, PoolAssumptions, ClaimShare, SMTT(60)
  <2>3. PICK n \in Nat : /\ Overdrawn = n + Share(ctx[c], "unclaim")
                         /\ Overdrawn' = n + Share(ctx'[c], "unclaim")
    BY ONLY <1>10, <2>1, PoolAssumptions, ClaimShare, SMTT(60)
  <2>4. PICK z \in Nat :
           /\ Cardinality(FreePages) = z + (IF bpages[b].refs = 0 THEN 1 ELSE 0)
           /\ Cardinality(FreePages)' = z + (IF bpages'[b].refs = 0 THEN 1 ELSE 0)
    BY <1>9, FreeShare
  <2>5. Uncounted' = Uncounted /\ Uncounted \in Nat
    BY <1>1, Counts DEF Uncounted
  <2>6. /\ Share(ctx[c], "find") = ctx[c].left /\ Share(ctx'[c], "find") = ctx[c].left - 1
        /\ Share(ctx[c], "unclaim") = 0 /\ Share(ctx'[c], "unclaim") = 0
    BY <1>1, <1>4, <1>10, Limits, SMTT(60) DEF Share
  <2>7. ctx[c].left \in Nat
    BY <1>4, Limits, SMTT(60)
  <2>8. Cardinality(FreePages)' = z
    BY <1>9, <2>4, SMTT(60)
  <2>9. CASE bpages[b].owner # NoOwner
    <3>1. free_bpages' = free_bpages + 1 /\ Cardinality(FreePages) = z
      BY <1>1, <1>11, <2>4, <2>9, SMTT(60)
    <3> QED BY <2>1, <2>2, <2>3, <2>5, <2>6, <2>7, <2>8, <3>1, SMTT(60) DEF ClaimsCovered
  <2>10. CASE bpages[b].owner = NoOwner
    <3>1. free_bpages' = free_bpages /\ Cardinality(FreePages) = z + 1
      BY <1>1, <1>11, <2>4, <2>10
    <3> QED BY <2>1, <2>2, <2>3, <2>5, <2>6, <2>7, <2>8, <3>1, SMTT(60) DEF ClaimsCovered
  <2> QED BY <2>9, <2>10
<1>20. PoolTypeOK'
  <2>1. free_bpages' \in Int
    BY <1>1, SMTT(60) DEF PoolTypeOK
  <2>2. free_bpages' <= NumBpages
    BY <1>10, <1>19, <2>1, FreeBound DEF PoolTypeOK
  <2>3. bufs' \in [Rpcs -> Seq(BufferType)]
    BY <1>8, <1>9, AppendFacts DEF PoolTypeOK
  <2> QED BY <1>1, <1>9, <1>10, <1>13, <2>1, <2>2, <2>3 DEF PoolTypeOK
<1>21. WaitersVisible'
  BY <1>1 DEF WaitersVisible
<1> QED BY <1>15, <1>18, <1>19, <1>20, <1>21

\* The owner of a bpage is the only core whose page_hint it is.
LEMMA HintOnly ==
  ASSUME PagesInv, NEW c \in Cores, NEW x \in Bpages, x # cores[c].page_hint, NoOwner \notin Cores
  PROVE  bpages[x].owner # c
BY DEF PagesInv, BpageRefsExact

\* Core c asks for a bpage of its own.
LEMMA OwnPageContext ==
  ASSUME PoolTypeOK, NEW c \in Cores, ctx' = [ctx EXCEPT ![c] = GetPages(@, 1, TRUE)]
  PROVE  /\ ctx' \in [Cores -> ContextType] /\ \A d \in Cores \ {c} : ctx'[d] = ctx[d]
         /\ ctx'[c].pc = "claim" /\ ctx'[c].rpc = ctx[c].rpc
         /\ ctx'[c].left = 1 /\ ctx'[c].set_owner
<1>1. ctx[c] \in ContextType
  BY DEF PoolTypeOK
<1>2. PICK k : k = GetPages(ctx[c], 1, TRUE)
  OBVIOUS
<1>3. /\ k \in ContextType /\ k.pc = "claim" /\ k.rpc = ctx[c].rpc
      /\ k.left = 1 /\ k.set_owner
  <2>1. k = [pc |-> "claim", rpc |-> ctx[c].rpc, left |-> 1, set_owner |-> TRUE, ret |-> ctx[c].ret]
    BY <1>1, <1>2 DEF GetPages, ContextType
  <2>2. 1 \in 0 .. HOMA_MAX_MESSAGE_LENGTH
    BY Limits, SMTT(60)
  <2> QED BY <1>1, <2>1, <2>2 DEF ContextType, AllocPcs
<1>4. ctx' = [ctx EXCEPT ![c] = k]
  BY <1>2
<1> QED BY <1>3, <1>4 DEF PoolTypeOK

\* Core c no longer owns the bpage of its page_hint, or gives it up.
LEMMA LeavePageInv ==
  ASSUME PoolAssumptions, PoolInv, NEW c \in Cores,
         ctx[c].pc \in {"partial", "give_up"},
         ctx' = [ctx EXCEPT ![c] = GetPages(@, 1, TRUE)],
         UNCHANGED <<cores, free_bpages, bpages_needed, waiting_for_bufs, phase, bufs, pend>>,
         PoolTypeOK', PagesInv', ClaimsCovered',
         \A x \in Bpages : /\ bpages'[x].owner # c
                           /\ x # cores[c].page_hint => bpages'[x] = bpages[x],
         \/ bpages' = bpages
         \/ bpages[cores[c].page_hint].owner = c /\ bpages'[cores[c].page_hint].owner = NoOwner
  PROVE  PoolInv'
<1> USE DEF PoolInv
<1>0. PICK r \in Rpcs : r = ctx[c].rpc
  BY DEF StepsInv, CoreInv, Allocating, AllocPcs
<1>1. /\ CoreInv(c) /\ RpcInv(r) /\ phase[r] = "alloc"
      /\ Partial(r) > 0 /\ Len(bufs[r]) = FullPages(r)
  BY <1>0, SMTT(60) DEF StepsInv, CoreInv, Allocating, AllocPcs
<1>2. /\ ctx' \in [Cores -> ContextType] /\ \A d \in Cores \ {c} : ctx'[d] = ctx[d]
      /\ ctx'[c].pc = "claim" /\ ctx'[c].rpc = r
      /\ ctx'[c].left = 1 /\ ctx'[c].set_owner
  BY <1>0, OwnPageContext
<1>3. CoreInv(c)'
  <2>1. /\ FullPages(r)' = FullPages(r) /\ Partial(r)' = Partial(r)
        /\ phase'[r] = "alloc" /\ Len(bufs'[r]) = FullPages(r)
    BY <1>1 DEF FullPages, Partial
  <2>2. 1 \in 1 .. HOMA_MAX_MESSAGE_LENGTH
    BY Limits, SMTT(60)
  <2> QED BY <1>1, <1>2, <2>1, <2>2 DEF CoreInv, Allocating, AllocPcs
<1>4. RpcInv(r)'
  BY <1>1 DEF RpcInv, FullPages, Partial, WholeLen
<1>5. StepsInv'
  <2>1. NoOwner \notin Cores
    BY DEF PoolAssumptions, NoOwner
  <2>2. ASSUME NEW d \in Cores \ {c}, NEW x \in Bpages
        PROVE  /\ bpages[x].owner # d => bpages'[x].owner # d
               /\ bpages[x].owner = d /\ bpages[x].locked =>
                     bpages'[x].owner = d /\ bpages'[x].locked
    BY <2>1
  <2> QED BY <1>0, <1>2, <1>3, <1>4, <2>2, CoreStep DEF AllocPcs
<1>6. WaitersVisible'
  BY DEF WaitersVisible
<1> QED BY <1>5, <1>6

\* Core c does not own the bpage of its page_hint.
LEMMA NotOwnerInv ==
  ASSUME PoolAssumptions, PoolInv, NEW c \in Cores, ctx[c].pc = "partial",
         bpages[cores[c].page_hint].owner # c,
         ctx' = [ctx EXCEPT ![c] = GetPages(@, 1, TRUE)],
         UNCHANGED <<bpages, cores, bufs, free_bpages, bpages_needed, waiting_for_bufs, phase, pend>>
  PROVE  PoolInv'
<1>1. PoolTypeOK /\ PagesInv /\ ClaimsCovered
  BY DEF PoolInv
<1>2. /\ ctx' \in [Cores -> ContextType] /\ \A d \in Cores \ {c} : ctx'[d] = ctx[d]
      /\ ctx'[c].pc = "claim"
  BY <1>1, OwnPageContext
<1>3. PoolTypeOK'
  BY <1>1, <1>2 DEF PoolTypeOK
<1>4. PagesInv' /\ ClaimsCovered'
  BY <1>1, <1>2, SamePages, SameClaims DEF PoolTypeOK
<1>5. \A x \in Bpages : bpages'[x].owner # c
  BY <1>1, HintOnly DEF PoolAssumptions, NoOwner
<1> QED BY <1>3, <1>4, <1>5, LeavePageInv

\* Core c gives its bpage up.
LEMMA GiveUpPageInv ==
  ASSUME PoolAssumptions, PoolInv, NEW c \in Cores, GiveUpPage(c)
  PROVE  PoolInv'
<1>1. PoolTypeOK /\ PagesInv /\ ClaimsCovered /\ CoreInv(c)
  BY DEF PoolInv, StepsInv
<1>2. PICK b \in Bpages : b = cores[c].page_hint
  BY <1>1 DEF PoolTypeOK, CoreType
<1>3. /\ ctx[c].pc = "give_up" /\ ctx' = [ctx EXCEPT ![c] = GetPages(@, 1, TRUE)]
      /\ bpages' = [bpages EXCEPT ![b] = [refs |-> @.refs - 1, owner |-> NoOwner, expired |-> FALSE, locked |-> FALSE]]
      /\ cores' = cores /\ free_bpages' = free_bpages /\ bpages_needed' = bpages_needed
      /\ waiting_for_bufs' = waiting_for_bufs /\ phase' = phase /\ bufs' = bufs /\ pend' = pend
  BY <1>2 DEF GiveUpPage
<1>4. bpages[b].owner = c /\ NoOwner \notin Cores
  BY <1>1, <1>2, <1>3 DEF CoreInv, PoolAssumptions, NoOwner
<1>5. /\ bpages[b].refs = Cardinality(Users(b)) + 1 /\ Cardinality(Users(b)) \in Nat
      /\ bpages[b] \in BpageType /\ bpages \in [Bpages -> BpageType]
  BY <1>1, <1>4, UsersFinite DEF PagesInv, BpageRefsExact, PoolTypeOK
<1>6. PICK k : k = [refs |-> bpages[b].refs - 1, owner |-> NoOwner, expired |-> FALSE, locked |-> FALSE]
  OBVIOUS
<1>7. k \in BpageType /\ k.owner = NoOwner /\ k.refs = Cardinality(Users(b))
  BY <1>5, <1>6, SMTT(60) DEF BpageType
<1>8. /\ bpages' \in [Bpages -> BpageType] /\ bpages'[b] = k
      /\ \A x \in Bpages \ {b} : bpages'[x] = bpages[x]
  <2>1. bpages' = [bpages EXCEPT ![b] = k]
    BY <1>3, <1>6
  <2> QED BY ONLY <1>5, <1>7, <2>1, SetPage, b \in Bpages, SMTT(60)
<1>9. /\ ctx' \in [Cores -> ContextType] /\ \A d \in Cores \ {c} : ctx'[d] = ctx[d]
      /\ ctx'[c].pc = "claim"
  BY <1>1, <1>3, OwnPageContext
<1>10. PoolTypeOK'
  BY <1>1, <1>3, <1>8, <1>9 DEF PoolTypeOK
<1>11. PagesInv'
  <2>1. BufsApart'
    BY <1>1, <1>3 DEF PagesInv, BufsApart
  <2>2. OwnerInv'
    BY <1>1, <1>3, <1>7, <1>8 DEF PagesInv, OwnerInv
  <2>3. BpageRefsExact'
    <3>1. \A x : Users(x)' = Users(x)
      BY <1>3 DEF Users
    <3>2. ASSUME NEW x \in Bpages
          PROVE  /\ bpages'[x].refs = Cardinality(Users(x))
                                      + (IF bpages'[x].owner # NoOwner THEN 1 ELSE 0)
                 /\ bpages'[x].owner # NoOwner => cores'[bpages'[x].owner].page_hint = x
      <4>1. CASE x = b
        BY <1>5, <1>7, <1>8, <4>1, SMTT(60)
      <4>2. CASE x # b
        BY <1>1, <1>3, <1>8, <4>2 DEF PagesInv, BpageRefsExact
      <4> QED BY <4>1, <4>2
    <3> QED BY <1>1, <1>3, <3>1, <3>2, SMTT(60) DEF PagesInv, BpageRefsExact
  <2> QED BY <2>1, <2>2, <2>3 DEF PagesInv
<1>12. ClaimsCovered'
  <2>1. Claimed' = Claimed /\ Overdrawn' = Overdrawn
    <3>1. ctx \in [Cores -> ContextType]
      BY <1>1 DEF PoolTypeOK
    <3>2. ctx[c].pc = "give_up"
      BY <1>3
    <3> QED BY <1>9, <3>1, <3>2, ClaimShare DEF Share
  <2>2. Uncounted' = Uncounted
    BY <1>3 DEF Uncounted
  <2>3. Cardinality(FreePages)' >= Cardinality(FreePages) /\ Cardinality(FreePages)' \in Nat
           /\ Cardinality(FreePages) \in Nat
    BY <1>5, <1>7, <1>8, FreeShare, SMTT(60)
  <2>4. Claimed \in Nat /\ Overdrawn \in Nat /\ Uncounted \in Nat /\ free_bpages \in Int
    <3>1. ctx \in [Cores -> ContextType] /\ free_bpages \in Int
      BY <1>1 DEF PoolTypeOK
    <3>2. Share(ctx[c], "find") = 0 /\ Share(ctx[c], "unclaim") = 0
      BY <1>3 DEF Share
    <3> QED BY <1>9, <3>1, <3>2, ClaimShare, Counts, SMTT(60)
  <2> QED BY <1>1, <1>3, <2>1, <2>2, <2>3, <2>4, SMTT(60) DEF ClaimsCovered
<1>13. \A x \in Bpages : /\ bpages'[x].owner # c
                         /\ x # cores[c].page_hint => bpages'[x] = bpages[x]
  BY <1>1, <1>2, <1>4, <1>7, <1>8, HintOnly
<1> QED BY <1>2, <1>3, <1>4, <1>7, <1>8, <1>10, <1>11, <1>12, <1>13, LeavePageInv

\* Core c finds no room in its bpage and keeps it locked.
LEMMA NoRoomInv ==
  ASSUME PoolAssumptions, PoolInv, NEW c \in Cores, ctx[c].pc = "partial", NEW b \in Bpages,
         b = cores[c].page_hint, bpages[b].owner = c,
         bpages' = [bpages EXCEPT ![b].locked = TRUE],
         ctx' = [ctx EXCEPT ![c].pc = "give_up"],
         UNCHANGED <<cores, bufs, free_bpages, bpages_needed, waiting_for_bufs, phase, pend>>
  PROVE  PoolInv'
<1> USE DEF PoolInv
<1>0. PICK r \in Rpcs : r = ctx[c].rpc
  BY DEF StepsInv, CoreInv, Allocating, AllocPcs
<1>1. /\ CoreInv(c) /\ RpcInv(r) /\ phase[r] = "alloc"
      /\ Partial(r) > 0 /\ Len(bufs[r]) = FullPages(r)
  BY <1>0 DEF StepsInv, CoreInv, Allocating, AllocPcs
<1>2. /\ ctx' \in [Cores -> ContextType] /\ \A d \in Cores \ {c} : ctx'[d] = ctx[d]
      /\ ctx'[c].pc = "give_up" /\ ctx'[c].rpc = r
  BY <1>0, PcStep DEF AllocPcs
<1>3. bpages \in [Bpages -> BpageType] /\ bpages[b] \in BpageType
  BY DEF PoolTypeOK
<1>4. PICK k : k = [bpages[b] EXCEPT !.locked = TRUE]
  OBVIOUS
<1>5. k \in BpageType /\ k.refs = bpages[b].refs /\ k.owner = c /\ k.locked
  BY <1>3, <1>4 DEF BpageType
<1>6. bpages' = [bpages EXCEPT ![b] = k]
  BY <1>4
<1>7. /\ bpages' \in [Bpages -> BpageType] /\ bpages'[b] = k
      /\ \A x \in Bpages \ {b} : bpages'[x] = bpages[x]
  BY ONLY <1>3, <1>5, <1>6, SetPage, b \in Bpages, SMTT(60)
<1>8. \A x \in Bpages : bpages'[x].refs = bpages[x].refs /\ bpages'[x].owner = bpages[x].owner
  BY <1>5, <1>7
<1>9. PoolTypeOK'
  BY <1>2, <1>7 DEF PoolTypeOK
<1>10. PagesInv'
  <2>1. BufsApart'
    BY DEF PagesInv, BufsApart
  <2>2. OwnerInv'
    BY <1>8 DEF PagesInv, OwnerInv
  <2>3. BpageRefsExact'
    <3>1. \A x : Users(x)' = Users(x)
      BY DEF Users
    <3> QED BY <1>8, <3>1, SMTT(60) DEF PagesInv, BpageRefsExact
  <2> QED BY <2>1, <2>2, <2>3 DEF PagesInv
<1>11. ClaimsCovered'
  <2>1. Claimed' = Claimed /\ Overdrawn' = Overdrawn
    BY <1>2, ClaimShare DEF Share, PoolTypeOK
  <2>2. Uncounted' = Uncounted /\ FreePages' = FreePages
    BY <1>8 DEF Uncounted, FreePages
  <2> QED BY <2>1, <2>2 DEF ClaimsCovered
<1>12. CoreInv(c)'
  <2>1. /\ FullPages(r)' = FullPages(r) /\ Partial(r)' = Partial(r)
        /\ phase'[r] = "alloc" /\ Len(bufs'[r]) = FullPages(r)
    BY <1>1 DEF FullPages, Partial
  <2>2. cores'[c].page_hint = b /\ bpages'[b].owner = c /\ bpages'[b].locked
    BY <1>5, <1>7
  <2> QED BY <1>1, <1>2, <2>1, <2>2 DEF CoreInv, Allocating, AllocPcs
<1>13. RpcInv(r)'
  BY <1>1 DEF RpcInv, FullPages, Partial, WholeLen
<1>14. StepsInv'
  BY <1>0, <1>2, <1>5, <1>7, <1>12, <1>13, CoreStep, SMTT(60) DEF AllocPcs
<1>15. WaitersVisible'
  BY DEF WaitersVisible
<1> QED BY <1>9, <1>10, <1>11, <1>14, <1>15

\* The last part of a message is placed in the bpage that core c owns.
LEMMA AllocatePartialInv ==
  ASSUME PoolAssumptions, PoolInv, NEW c \in Cores, ctx[c].pc = "partial", NEW b \in Bpages,
         b = cores[c].page_hint, bpages[b].owner = c,
         NEW offset, AllocatePartial(c, b, offset),
         \/ offset = cores[c].allocated /\ offset + Partial(ctx[c].rpc) <= BpageSize
         \/ offset = 0 /\ bpages[b].refs = 1,
         UNCHANGED <<free_bpages, bpages_needed, waiting_for_bufs, phase, pend>>
  PROVE  PoolInv'
<1> USE DEF PoolInv
<1>0. PICK r \in Rpcs : r = ctx[c].rpc
  BY DEF StepsInv, CoreInv, Allocating, AllocPcs
<1>1. /\ CoreInv(c) /\ RpcInv(r) /\ phase[r] = "alloc"
      /\ Partial(r) > 0 /\ Len(bufs[r]) = FullPages(r)
  BY <1>0 DEF StepsInv, CoreInv, Allocating, AllocPcs
<1>2. /\ FullPages(r) \in Nat /\ Partial(r) \in 1 .. BpageSize - 1 /\ BpageSize \in Nat \ {0}
      /\ cores[c].allocated \in 0 .. BpageSize
  BY <1>1, MessageSize, SMTT(60) DEF PoolTypeOK, CoreType
<1>3. offset \in 0 .. BpageSize /\ offset + Partial(r) <= BpageSize
  BY <1>0, <1>2, SMTT(60)
<1>4. PICK f : f = Buffer(b, offset, Partial(r))
  OBVIOUS
<1>5. /\ f \in BufferType /\ f.bpage = b /\ f.offset = offset /\ f.len = Partial(r)
      /\ BufEnd(f) = offset + Partial(r)
  BY <1>2, <1>3, <1>4, SMTT(60) DEF BufferType, Buffer, BufEnd
<1>6. /\ bufs' = [bufs EXCEPT ![r] = Append(@, f)]
      /\ cores' = [cores EXCEPT ![c].allocated = offset + Partial(r)]
      /\ bpages' = [bpages EXCEPT ![b].refs = @ + 1, ![b].expired = FALSE]
      /\ ctx' = [ctx EXCEPT ![c].pc = "success"]
  BY <1>0, <1>4 DEF AllocatePartial
<1>7. /\ ctx' \in [Cores -> ContextType] /\ \A d \in Cores \ {c} : ctx'[d] = ctx[d]
      /\ ctx'[c].pc = "success" /\ ctx'[c].rpc = r
  BY <1>0, <1>6, PcStep DEF AllocPcs
<1>8. bpages \in [Bpages -> BpageType] /\ bpages[b] \in BpageType
  BY DEF PoolTypeOK
<1>9. PICK k : k = [[bpages[b] EXCEPT !.refs = bpages[b].refs + 1] EXCEPT !.expired = FALSE]
  OBVIOUS
<1>10. /\ k \in BpageType /\ k.refs = bpages[b].refs + 1 /\ k.owner = c
       /\ k.locked = bpages[b].locked /\ bpages[b].refs \in Nat
  <2>1. k = [refs |-> bpages[b].refs + 1, owner |-> bpages[b].owner, expired |-> FALSE,
             locked |-> bpages[b].locked]
    BY <1>8, <1>9 DEF BpageType
  <2>2. /\ bpages[b].refs \in Nat /\ bpages[b].refs + 1 \in Nat /\ bpages[b].locked \in BOOLEAN
        /\ bpages[b].owner \in Cores \cup {NoOwner}
    BY <1>8, SMTT(60) DEF BpageType
  <2> QED BY <2>1, <2>2 DEF BpageType
<1>11. bpages' = [bpages EXCEPT ![b] = k]
  BY <1>6, <1>8, <1>9
<1>12. /\ bpages' \in [Bpages -> BpageType] /\ bpages'[b] = k
       /\ \A x \in Bpages \ {b} : bpages'[x] = bpages[x]
  BY ONLY <1>8, <1>10, <1>11, SetPage, b \in Bpages, SMTT(60)
<1>13. /\ cores' \in [Cores -> CoreType] /\ \A d \in Cores \ {c} : cores'[d] = cores[d]
       /\ cores'[c].page_hint = b /\ cores'[c].allocated = BufEnd(f)
  <2>1. cores[c] \in CoreType /\ cores \in [Cores -> CoreType]
    BY DEF PoolTypeOK
  <2>2. PICK g : g = [cores[c] EXCEPT !.allocated = offset + Partial(r)]
    OBVIOUS
  <2>3. offset + Partial(r) \in 0 .. BpageSize
    BY <1>2, <1>3, SMTT(60)
  <2>4. g \in CoreType /\ g.page_hint = b /\ g.allocated = BufEnd(f)
    BY <1>5, <2>1, <2>2, <2>3 DEF CoreType
  <2>5. cores' = [cores EXCEPT ![c] = g]
    BY <1>6, <2>2
  <2> QED BY <2>1, <2>4, <2>5
<1>14. NoOwner \notin Cores
  BY DEF PoolAssumptions, NoOwner
<1>15. /\ bpages[b].refs = Cardinality(Users(b)) + 1 /\ Cardinality(Users(b)) \in Nat
  BY <1>14, UsersFinite DEF PagesInv, BpageRefsExact
<1>16. /\ r \notin Users(b)
       /\ \A q \in Rpcs : \A i \in DOMAIN bufs[q] :
             bufs[q][i].bpage = b => BufEnd(bufs[q][i]) <= offset
  <2>1. CASE offset = cores[c].allocated /\ offset + Partial(r) <= BpageSize
    <3>1. \A q \in Rpcs : \A i \in DOMAIN bufs[q] :
             bufs[q][i].bpage = b => BufEnd(bufs[q][i]) <= offset
      BY <1>14, <2>1 DEF PagesInv, OwnerInv
    <3>2. ASSUME NEW i \in DOMAIN bufs[r], bufs[r][i].bpage = b  PROVE  FALSE
      <4>1. DOMAIN bufs[r] = 1 .. Len(bufs[r])
        BY SMTT(60) DEF PoolTypeOK
      <4>2. i <= FullPages(r)
        BY <1>1, <1>2, <4>1, SMTT(60)
      <4>3. bufs[r][i].offset = 0 /\ bufs[r][i].len = BpageSize
        BY <1>1, <4>2 DEF RpcInv
      <4>4. BpageSize <= offset
        BY <1>2, <3>1, <3>2, <4>3, SMTT(60) DEF BufEnd
      <4> QED BY <1>2, <1>3, <4>4, SMTT(60)
    <3> QED BY <3>1, <3>2 DEF Users
  <2>2. CASE bpages[b].refs = 1
    <3>1. bpages[b].refs = (IF bpages[b].owner # NoOwner THEN 1 ELSE 0)
      BY <1>14, <2>2
    <3> QED BY <3>1, AvailableUnused
  <2> QED BY <1>0, <2>1, <2>2
<1>17. PagesInv'
  <2>1. ASSUME NEW x \in Bpages \ {b}, bpages[x].owner # NoOwner
        PROVE  cores'[bpages[x].owner] = cores[bpages[x].owner]
    <3>1. bpages[x].owner \in Cores
      BY <2>1 DEF PoolTypeOK, BpageType
    <3>2. bpages[x].owner # c
      BY <1>14, HintOnly
    <3> QED BY <1>13, <3>1, <3>2
  <2>2. bpages'[b].refs = Cardinality(Users(b)) + 1 + (IF bpages'[b].owner # NoOwner THEN 1 ELSE 0)
    BY <1>10, <1>12, <1>14, <1>15
  <2>3. bpages'[b].owner # NoOwner => /\ cores'[bpages'[b].owner].page_hint = b
                                      /\ cores'[bpages'[b].owner].allocated = BufEnd(f)
    BY <1>10, <1>12, <1>13
  <2>4. OtherPagesKept(f.bpage) /\ BufferCounted(f)
    BY <1>5, <1>12, <2>1, <2>2, <2>3 DEF OtherPagesKept, BufferCounted
  <2>5. BufEnd(f) <= BpageSize /\ r \notin Users(f.bpage) /\ BuffersBefore(f)
    BY <1>3, <1>5, <1>16 DEF BuffersBefore
  <2>6. PoolTypeOK /\ PagesInv /\ f \in BufferType /\ bufs' = [bufs EXCEPT ![r] = Append(@, f)]
    BY <1>5, <1>6
  <2> QED BY ONLY PoolAssumptions, r \in Rpcs, <2>4, <2>5, <2>6, AppendPages, ZenonT(60)
<1>18. /\ RpcInv(r)' /\ Len(bufs'[r]) = Len(bufs[r]) + 1
       /\ \A q \in Rpcs \ {r} : bufs'[q] = bufs[q]
  <2>1. IF Len(bufs[r]) < FullPages(r) THEN f.offset = 0 /\ f.len = BpageSize
        ELSE f.len = Partial(r)
    BY <1>1, <1>2, <1>5, SMTT(60)
  <2> QED BY <1>1, <1>5, <1>6, <2>1, GrowRpc
<1>19. CoreInv(c)'
  <2>1. WholeLen(r)' = WholeLen(r) /\ phase'[r] = "alloc"
    BY <1>1 DEF FullPages, Partial, WholeLen
  <2>2. Len(bufs'[r]) = WholeLen(r)
    BY <1>1, <1>2, <1>18, SMTT(60) DEF WholeLen
  <2> QED BY <1>7, <2>1, <2>2 DEF CoreInv, Allocating, AllocPcs
<1>20. StepsInv'
  BY <1>0, <1>7, <1>10, <1>12, <1>13, <1>18, <1>19, CoreStep, SMTT(60) DEF AllocPcs
<1>21. ClaimsCovered'
  <2>1. Claimed' = Claimed /\ Overdrawn' = Overdrawn
    BY <1>7, ClaimShare DEF Share, PoolTypeOK
  <2>2. FreePages' = FreePages
    BY <1>10, <1>12, <1>15, SMTT(60) DEF FreePages
  <2>3. Uncounted' = Uncounted
    BY DEF Uncounted
  <2> QED BY <2>1, <2>2, <2>3 DEF ClaimsCovered
<1>22. PoolTypeOK'
  <2>1. bufs' \in [Rpcs -> Seq(BufferType)]
    BY <1>5, <1>6, AppendFacts DEF PoolTypeOK
  <2> QED BY <1>7, <1>12, <1>13, <2>1 DEF PoolTypeOK
<1>23. WaitersVisible'
  BY DEF WaitersVisible
<1> QED BY <1>17, <1>20, <1>21, <1>22, <1>23

\* The step under the lock of the bpage that core c allocates from.
LEMMA PartialPageInv ==
  ASSUME PoolAssumptions, PoolInv, NEW c \in Cores, PartialPage(c)
  PROVE  PoolInv'
<1>1. PICK b \in Bpages : b = cores[c].page_hint
  BY DEF PoolInv, PoolTypeOK, CoreType
<1>2. ctx[c].pc = "partial" /\ UNCHANGED <<free_bpages, bpages_needed, waiting_for_bufs, phase, pend>>
  BY DEF PartialPage
<1>3. CASE /\ bpages[b].owner # c /\ ctx' = [ctx EXCEPT ![c] = GetPages(@, 1, TRUE)]
           /\ UNCHANGED <<bpages, cores, bufs>>
  BY <1>1, <1>2, <1>3, NotOwnerInv
<1>4. CASE /\ bpages[b].owner = c /\ cores[c].allocated + Partial(ctx[c].rpc) <= BpageSize
           /\ AllocatePartial(c, b, cores[c].allocated)
  BY <1>1, <1>2, <1>4, AllocatePartialInv
<1>5. CASE bpages[b].owner = c /\ bpages[b].refs = 1 /\ AllocatePartial(c, b, 0)
  BY <1>1, <1>2, <1>5, AllocatePartialInv
<1>6. CASE /\ bpages[b].owner = c /\ bpages' = [bpages EXCEPT ![b].locked = TRUE]
           /\ ctx' = [ctx EXCEPT ![c].pc = "give_up"]
           /\ UNCHANGED <<cores, bufs>>
  BY <1>1, <1>2, <1>6, NoRoomInv
<1> QED BY <1>1, <1>3, <1>4, <1>5, <1>6 DEF PartialPage

\* The next buffer of r is released.
LEMMA ReleaseOneInv ==
  ASSUME PoolAssumptions, PoolInv, NEW r \in Rpcs, phase[r] \in {"undo", "releasing"}, ReleaseOne(r)
  PROVE  PoolInv'
<1> USE DEF PoolInv
<1>1. bufs \in [Rpcs -> Seq(BufferType)] /\ bufs[r] # <<>> /\ ~pend[r]
  BY DEF ReleaseOne, PoolTypeOK
<1>2. bufs' = [bufs EXCEPT ![r] = Tail(@)]
  BY DEF ReleaseOne
<1>3. /\ bufs' \in [Rpcs -> Seq(BufferType)]
      /\ Head(bufs[r]) = bufs[r][1] /\ 1 \in DOMAIN bufs[r] /\ bufs[r][1] \in BufferType
      /\ \A i \in DOMAIN bufs'[r] : /\ i + 1 \in DOMAIN bufs[r] /\ i + 1 # 1
                                    /\ bufs'[r][i] = bufs[r][i + 1]
      /\ \A q \in Rpcs \ {r} : bufs'[q] = bufs[q]
  BY ONLY <1>1, <1>2, TailFacts, r \in Rpcs, SMTT(60)
<1>4. PICK b \in Bpages : b = Head(bufs[r]).bpage
  BY <1>3 DEF BufferType
<1>5. /\ bpages' = [bpages EXCEPT ![b].refs = @ - 1]
      /\ pend' = [pend EXCEPT ![r] = bpages[b].refs = 1]
      /\ cores' = cores /\ free_bpages' = free_bpages /\ bpages_needed' = bpages_needed
      /\ waiting_for_bufs' = waiting_for_bufs /\ ctx' = ctx /\ phase' = phase
  BY <1>4 DEF ReleaseOne
<1>6. /\ r \notin Users(b)' /\ Users(b) = Users(b)' \cup {r}
      /\ \A x \in Bpages \ {b} : Users(x)' = Users(x)
  BY <1>1, <1>2, <1>4, TailUsers DEF PagesInv, BpageRefsExact
<1>7. /\ Cardinality(Users(b)') \in Nat
      /\ Cardinality(Users(b)) = Cardinality(Users(b)') + 1
  <2>1. IsFiniteSet(Users(b)')
    BY FS_Subset DEF Users, PoolAssumptions
  <2> QED BY <1>6, <2>1, FS_CardinalityType, FS_AddElement
<1>8. /\ bpages[b].refs = Cardinality(Users(b)') + 1 + (IF bpages[b].owner # NoOwner THEN 1 ELSE 0)
      /\ bpages[b] \in BpageType /\ bpages \in [Bpages -> BpageType]
  BY <1>7 DEF PagesInv, BpageRefsExact, PoolTypeOK
<1>9. PICK k : k = [bpages[b] EXCEPT !.refs = bpages[b].refs - 1]
  OBVIOUS
<1>10. /\ k \in BpageType /\ k.refs = bpages[b].refs - 1 /\ k.owner = bpages[b].owner
       /\ k.locked = bpages[b].locked
  <2>1. bpages[b].refs - 1 \in Nat
    BY <1>7, <1>8, SMTT(60)
  <2> QED BY <1>8, <1>9, <2>1 DEF BpageType
<1>11. /\ bpages' \in [Bpages -> BpageType] /\ bpages'[b] = k
       /\ \A x \in Bpages \ {b} : bpages'[x] = bpages[x]
  <2>1. bpages' = [bpages EXCEPT ![b] = k]
    BY <1>5, <1>9
  <2> QED BY ONLY <1>8, <1>10, <2>1, SetPage, b \in Bpages, SMTT(60)
<1>12. \A x \in Bpages : bpages'[x].owner = bpages[x].owner /\ bpages'[x].locked = bpages[x].locked
  BY <1>10, <1>11
<1>13. /\ pend' \in [Rpcs -> BOOLEAN] /\ pend'[r] = (bpages[b].refs = 1)
       /\ \A q \in Rpcs \ {r} : pend'[q] = pend[q]
  BY <1>5 DEF PoolTypeOK
<1>14. PoolTypeOK'
  BY <1>3, <1>5, <1>11, <1>13 DEF PoolTypeOK
<1>15. ASSUME NEW q \in Rpcs, NEW i \in DOMAIN bufs'[q]
       PROVE  \E j \in DOMAIN bufs[q] : /\ bufs[q][j] = bufs'[q][i]
                                        /\ j = IF q = r THEN i + 1 ELSE i
  BY <1>3
<1>16. PagesInv'
  <2>1. BufsApart'
    <3>1. ASSUME NEW q \in Rpcs, NEW i \in DOMAIN bufs'[q]  PROVE  BufEnd(bufs'[q][i]) <= BpageSize
      BY <1>15 DEF PagesInv, BufsApart
    <3>2. ASSUME NEW q \in Rpcs, NEW u \in Rpcs, NEW i \in DOMAIN bufs'[q], NEW j \in DOMAIN bufs'[u],
                 <<q, i>> # <<u, j>>
          PROVE  Apart(bufs'[q][i], bufs'[u][j])
      <4>1. PICK i1 \in DOMAIN bufs[q] : /\ bufs[q][i1] = bufs'[q][i]
                                         /\ i1 = IF q = r THEN i + 1 ELSE i
        BY <1>15
      <4>2. PICK j1 \in DOMAIN bufs[u] : /\ bufs[u][j1] = bufs'[u][j]
                                         /\ j1 = IF u = r THEN j + 1 ELSE j
        BY <1>15
      <4>3. i \in Nat /\ j \in Nat
        BY <1>3, SMTT(60)
      <4>4. <<q, i1>> # <<u, j1>>
        BY <3>2, <4>1, <4>2, <4>3, SMTT(60)
      <4> QED BY <4>1, <4>2, <4>4 DEF PagesInv, BufsApart
    <3> QED BY <3>1, <3>2 DEF BufsApart, BufEnd, Apart
  <2>2. OwnerInv'
    <3> SUFFICES ASSUME NEW x \in Bpages, bpages'[x].owner # NoOwner, NEW q \in Rpcs,
                        NEW i \in DOMAIN bufs'[q], bufs'[q][i].bpage = x
                 PROVE  BufEnd(bufs'[q][i]) <= cores'[bpages'[x].owner].allocated
      BY DEF OwnerInv, BufEnd
    <3>1. PICK j \in DOMAIN bufs[q] : bufs[q][j] = bufs'[q][i]
      BY <1>15
    <3> QED BY <1>5, <1>12, <3>1 DEF PagesInv, OwnerInv
  <2>3. BpageRefsExact'
    <3>1. ASSUME NEW x \in Bpages
          PROVE  /\ bpages'[x].refs = Cardinality(Users(x)')
                                      + (IF bpages'[x].owner # NoOwner THEN 1 ELSE 0)
                 /\ bpages'[x].owner # NoOwner => cores'[bpages'[x].owner].page_hint = x
      <4>1. CASE x = b
        <5>1. bpages'[b].refs = Cardinality(Users(b)') + (IF bpages[b].owner # NoOwner THEN 1 ELSE 0)
          BY <1>7, <1>8, <1>10, <1>11, SMTT(60)
        <5> QED BY <1>5, <1>12, <4>1, <5>1 DEF PagesInv, BpageRefsExact
      <4>2. CASE x # b
        BY <1>5, <1>6, <1>11, <4>2, SMTT(60) DEF PagesInv, BpageRefsExact
      <4> QED BY <4>1, <4>2
    <3>2. ASSUME NEW q \in Rpcs, NEW i \in DOMAIN bufs'[q], NEW j \in DOMAIN bufs'[q], i # j
          PROVE  bufs'[q][i].bpage # bufs'[q][j].bpage
      <4>1. PICK i1 \in DOMAIN bufs[q] : /\ bufs[q][i1] = bufs'[q][i]
                                         /\ i1 = IF q = r THEN i + 1 ELSE i
        BY <1>15
      <4>2. PICK j1 \in DOMAIN bufs[q] : /\ bufs[q][j1] = bufs'[q][j]
                                         /\ j1 = IF q = r THEN j + 1 ELSE j
        BY <1>15
      <4>3. i \in Nat /\ j \in Nat
        BY <1>3, SMTT(60)
      <4>4. i1 # j1
        BY <3>2, <4>1, <4>2, <4>3, SMTT(60)
      <4> QED BY <4>1, <4>2, <4>4 DEF PagesInv, BpageRefsExact
    <3> QED BY <3>1, <3>2 DEF BpageRefsExact
  <2> QED BY <2>1, <2>2, <2>3 DEF PagesInv
<1>17. StepsInv'
  <2>1. ASSUME NEW d \in Cores  PROVE  CoreInv(d)'
    <3>1. CoreInv(d) /\ cores[d].page_hint \in Bpages
      BY DEF StepsInv, PoolTypeOK, CoreType
    <3>2. CASE ctx[d].pc \in AllocPcs /\ ctx[d].rpc = r
      <4>1. ctx[d].pc = "undo" /\ phase[r] = "undo"
        BY <3>1, <3>2 DEF CoreInv, Allocating
      <4> QED BY <1>5, <3>2, <4>1 DEF CoreInv, Allocating, AllocPcs
    <3>3. CASE ~(ctx[d].pc \in AllocPcs /\ ctx[d].rpc = r)
      <4>1. ctx[d].pc \in AllocPcs => ctx[d].rpc \in Rpcs \ {r}
        BY <3>1, <3>3 DEF CoreInv, Allocating
      <4>2. ctx[d].pc = "give_up" => /\ bpages'[cores[d].page_hint].owner = d
                                     /\ bpages'[cores[d].page_hint].locked
        BY <1>12, <3>1 DEF CoreInv
      <4> QED BY <1>3, <1>5, <1>12, <3>1, <4>1, <4>2, OtherCore
    <3> QED BY <3>2, <3>3
  <2>2. OneCore'
    BY <1>5 DEF StepsInv, OneCore, Allocating
  <2>3. ASSUME NEW q \in Rpcs  PROVE  RpcInv(q)'
    <3>1. CASE q = r
      BY <1>5, <3>1 DEF RpcInv
    <3>2. CASE q # r
      BY <1>3, <1>5, <1>13, <3>2, SMTT(60) DEF StepsInv, RpcInv
    <3> QED BY <3>1, <3>2
  <2> QED BY <2>1, <2>2, <2>3 DEF StepsInv
<1>18. ClaimsCovered'
  <2>1. Claimed' = Claimed /\ Overdrawn' = Overdrawn
    BY <1>5 DEF Claimed, Overdrawn, Subtracted
  <2>2. PICK z \in Nat :
           /\ Cardinality(FreePages) = z + (IF bpages[b].refs = 0 THEN 1 ELSE 0)
           /\ Cardinality(FreePages)' = z + (IF bpages'[b].refs = 0 THEN 1 ELSE 0)
    BY <1>11, FreeShare
  <2>3. PICK m \in Nat : /\ Uncounted = m + (IF pend[r] THEN 1 ELSE 0)
                         /\ Uncounted' = m + (IF pend'[r] THEN 1 ELSE 0)
    BY <1>13, PendShare
  <2>4. bpages[b].refs \in Nat \ {0} /\ bpages'[b].refs = bpages[b].refs - 1
    BY <1>7, <1>8, <1>10, <1>11, SMTT(60)
  <2>5. Cardinality(FreePages) = z /\ Uncounted = m
    BY <1>1, <2>2, <2>3, <2>4, SMTT(60)
  <2>6. Claimed <= z /\ free_bpages + Claimed + Overdrawn + m <= z
    BY <2>5 DEF ClaimsCovered
  <2>7. Claimed \in Int /\ Overdrawn \in Int /\ free_bpages \in Int
    <3>1. IsFiniteSet(Cores \X (1 .. HOMA_MAX_MESSAGE_LENGTH))
      <4>1. IsFiniteSet(Cores)
        BY DEF PoolAssumptions
      <4>2. IsFiniteSet(1 .. HOMA_MAX_MESSAGE_LENGTH)
        BY FS_Interval, Limits, SMTT(60)
      <4> QED BY ONLY <4>1, <4>2, FS_Product, ZenonT(60)
    <3>2. ASSUME NEW pc  PROVE  Subtracted(pc) \subseteq Cores \X (1 .. HOMA_MAX_MESSAGE_LENGTH)
      <4>1. \A d \in Cores : ctx[d].left \in 0 .. HOMA_MAX_MESSAGE_LENGTH
        BY DEF PoolTypeOK, ContextType
      <4> QED BY <4>1, Limits, SMTT(60) DEF Subtracted
    <3> QED BY <3>1, <3>2, FS_Subset, FS_CardinalityType, SMTT(60) DEF Claimed, Overdrawn, PoolTypeOK
  <2>8. CASE bpages[b].refs = 1
    <3>1. Cardinality(FreePages)' = z + 1 /\ Uncounted' = m + 1
      BY <1>13, <2>2, <2>3, <2>4, <2>8, SMTT(60)
    <3> QED BY <1>5, <2>1, <2>6, <2>7, <3>1, SMTT(60) DEF ClaimsCovered
  <2>9. CASE bpages[b].refs # 1
    <3>1. Cardinality(FreePages)' = z /\ Uncounted' = m
      BY <1>13, <2>2, <2>3, <2>4, <2>9, SMTT(60)
    <3> QED BY <1>5, <2>1, <2>6, <2>7, <3>1 DEF ClaimsCovered
  <2> QED BY <2>8, <2>9
<1>19. WaitersVisible'
  BY <1>5 DEF WaitersVisible
<1> QED BY <1>14, <1>16, <1>17, <1>18, <1>19

\* A released bpage is counted as free.
LEMMA CountFreeInv ==
  ASSUME PoolAssumptions, PoolInv, NEW r \in Rpcs, NEW c \in Cores, CountFree(r)
  PROVE  PoolInv'
<1> USE DEF PoolInv
<1>1. /\ pend[r] /\ free_bpages' = free_bpages + 1 /\ pend' = [pend EXCEPT ![r] = FALSE]
      /\ bpages' = bpages /\ cores' = cores /\ bpages_needed' = bpages_needed
      /\ waiting_for_bufs' = waiting_for_bufs /\ ctx' = ctx /\ phase' = phase /\ bufs' = bufs
  BY DEF CountFree
<1>2. /\ pend' \in [Rpcs -> BOOLEAN] /\ ~pend'[r]
      /\ \A q \in Rpcs \ {r} : pend'[q] = pend[q]
  BY <1>1 DEF PoolTypeOK
<1>3. StepsInv'
  <2>1. ASSUME NEW d \in Cores  PROVE  CoreInv(d)'
    BY <1>1 DEF StepsInv, CoreInv, Allocating
  <2>2. OneCore'
    BY <1>1 DEF StepsInv, OneCore, Allocating
  <2>3. ASSUME NEW q \in Rpcs  PROVE  RpcInv(q)'
    BY <1>1, <1>2 DEF StepsInv, RpcInv
  <2> QED BY <2>1, <2>2, <2>3 DEF StepsInv
<1>4. ctx \in [Cores -> ContextType] /\ free_bpages \in Int
  BY DEF PoolTypeOK
<1>5. ClaimsCovered'
  <2>1. Claimed' = Claimed /\ Overdrawn' = Overdrawn /\ FreePages' = FreePages
    BY <1>1 DEF Claimed, Overdrawn, Subtracted, FreePages
  <2>2. PICK m \in Nat : /\ Uncounted = m + (IF pend[r] THEN 1 ELSE 0)
                         /\ Uncounted' = m + (IF pend'[r] THEN 1 ELSE 0)
    BY <1>2, PendShare
  <2>3. PICK x \in Nat : Claimed = x + Share(ctx[c], "find")
    BY <1>1, <1>4, ClaimShare
  <2>4. PICK y \in Nat : Overdrawn = y + Share(ctx[c], "unclaim")
    BY <1>1, <1>4, ClaimShare
  <2>5. Share(ctx[c], "find") \in Nat /\ Share(ctx[c], "unclaim") \in Nat
    BY <1>4, Limits, SMTT(60) DEF Share, ContextType
  <2> QED BY <1>1, <1>2, <1>4, <2>1, <2>2, <2>3, <2>4, <2>5, SMTT(60) DEF ClaimsCovered
<1>6. PoolTypeOK'
  <2>1. free_bpages' \in Int
    BY <1>1, <1>4, SMTT(60)
  <2>2. free_bpages' <= NumBpages
    BY <1>1, <1>4, <1>5, <2>1, FreeBound
  <2> QED BY <1>1, <1>2, <2>1, <2>2 DEF PoolTypeOK
<1>7. WaitersVisible'
  BY <1>1 DEF WaitersVisible
<1> QED BY <1>1, <1>3, <1>5, <1>6, <1>7, SamePages

\* Time passes.
LEMMA LeaseExpiresInv ==
  ASSUME PoolAssumptions, PoolInv, NEW b \in Bpages, LeaseExpires(b)
  PROVE  PoolInv'
<1> USE DEF PoolInv
<1>1. /\ bpages' = [bpages EXCEPT ![b].expired = TRUE]
      /\ cores' = cores /\ free_bpages' = free_bpages /\ bpages_needed' = bpages_needed
      /\ waiting_for_bufs' = waiting_for_bufs /\ ctx' = ctx /\ phase' = phase
      /\ bufs' = bufs /\ pend' = pend
  BY DEF LeaseExpires
<1>2. bpages \in [Bpages -> BpageType] /\ bpages[b] \in BpageType
  BY DEF PoolTypeOK
<1>3. PICK k : k = [bpages[b] EXCEPT !.expired = TRUE]
  OBVIOUS
<1>4. /\ k \in BpageType /\ k.refs = bpages[b].refs /\ k.owner = bpages[b].owner
      /\ k.locked = bpages[b].locked
  BY <1>2, <1>3 DEF BpageType
<1>5. bpages' = [bpages EXCEPT ![b] = k]
  BY <1>1, <1>3
<1>6. /\ bpages' \in [Bpages -> BpageType]
      /\ \A x \in Bpages : /\ bpages'[x].refs = bpages[x].refs /\ bpages'[x].owner = bpages[x].owner
                           /\ bpages'[x].locked = bpages[x].locked
  BY <1>2, <1>4, <1>5, SetPage
<1>7. StepsInv'
  <2>1. ASSUME NEW d \in Cores  PROVE  CoreInv(d)'
    <3>1. CoreInv(d) /\ cores[d].page_hint \in Bpages
      BY DEF StepsInv, PoolTypeOK, CoreType
    <3>2. ctx[d].pc = "give_up" => /\ bpages'[cores[d].page_hint].owner = d
                                   /\ bpages'[cores[d].page_hint].locked
      BY <1>6, <3>1 DEF CoreInv
    <3> QED BY <1>1, <1>6, <3>1, <3>2, OtherCore
  <2>2. OneCore'
    BY <1>1 DEF StepsInv, OneCore, Allocating
  <2>3. ASSUME NEW q \in Rpcs  PROVE  RpcInv(q)'
    BY <1>1 DEF StepsInv, RpcInv
  <2> QED BY <2>1, <2>2, <2>3 DEF StepsInv
<1>8. PagesInv'
  <2>1. BufsApart'
    BY <1>1 DEF PagesInv, BufsApart
  <2>2. OwnerInv'
    BY <1>1, <1>6 DEF PagesInv, OwnerInv
  <2>3. BpageRefsExact'
    <3>1. \A x : Users(x)' = Users(x)
      BY <1>1 DEF Users
    <3> QED BY <1>1, <1>6, <3>1, SMTT(60) DEF PagesInv, BpageRefsExact
  <2> QED BY <2>1, <2>2, <2>3 DEF PagesInv
<1>9. ClaimsCovered'
  <2>1. FreePages' = FreePages
    BY <1>6 DEF FreePages
  <2>2. Claimed' = Claimed /\ Overdrawn' = Overdrawn /\ Uncounted' = Uncounted
    BY <1>1 DEF Claimed, Overdrawn, Subtracted, Uncounted
  <2> QED BY <1>1, <2>1, <2>2 DEF ClaimsCovered
<1>10. PoolTypeOK'
  BY <1>1, <1>6 DEF PoolTypeOK
<1>11. WaitersVisible'
  BY <1>1 DEF WaitersVisible
<1> QED BY <1>7, <1>8, <1>9, <1>10, <1>11
-----------------------------------------------------------------------------
(* The specification                                                       *)

\* The pool that homa_pool_set_region has set up.
LEMMA InitPool ==
  ASSUME PoolAssumptions, PoolInit
  PROVE  PoolInv
<1>1. /\ \A b \in Bpages : bpages[b].refs = 0 /\ bpages[b].owner = NoOwner
      /\ \A c \in Cores : ctx[c].pc = "idle"
      /\ \A r \in Rpcs : phase[r] = "new" /\ bufs[r] = <<>> /\ ~pend[r]
      /\ waiting_for_bufs = <<>>
  BY DEF PoolInit, Idle
<1>2. NumBpages \in Nat /\ free_bpages = NumBpages
  BY FS_CardinalityType DEF PoolAssumptions, NumBpages, PoolInit
<1>3. PoolTypeOK
  <2>1. bpages \in [Bpages -> BpageType]
    BY DEF PoolInit, BpageType
  <2>2. cores \in [Cores -> CoreType]
    BY SMTT(60) DEF PoolInit, CoreType, PoolAssumptions
  <2>3. ctx \in [Cores -> ContextType]
    <3>1. Idle \in ContextType
      BY Limits, SMTT(60) DEF Idle, ContextType
    <3> QED BY <3>1 DEF PoolInit
  <2>4. bpages_needed \in Nat
    BY Limits DEF PoolInit
  <2>5. bufs \in [Rpcs -> Seq(BufferType)]
    BY SMTT(60) DEF PoolInit
  <2>6. /\ waiting_for_bufs \in Seq(Rpcs) /\ pend \in [Rpcs -> BOOLEAN]
        /\ phase \in [Rpcs -> {"new", "alloc", "held", "undo", "waiting", "releasing", "done"}]
    BY SMTT(60) DEF PoolInit
  <2> QED BY <1>2, <2>1, <2>2, <2>3, <2>4, <2>5, <2>6, SMTT(60) DEF PoolTypeOK
<1>4. StepsInv
  <2>1. ASSUME NEW c \in Cores  PROVE  CoreInv(c) /\ ~Allocating(c)
    BY <1>1 DEF CoreInv, Allocating, AllocPcs
  <2>2. OneCore
    BY <2>1 DEF OneCore
  <2>3. ASSUME NEW r \in Rpcs  PROVE  RpcInv(r)
    BY <1>1 DEF RpcInv
  <2> QED BY <2>1, <2>2, <2>3 DEF StepsInv
<1>5. \A r \in Rpcs : DOMAIN bufs[r] = {}
  BY <1>1, SMTT(60)
<1>6. PagesInv
  <2>1. BufsApart /\ OwnerInv
    BY <1>1, <1>5 DEF BufsApart, OwnerInv
  <2>2. ASSUME NEW b \in Bpages  PROVE  Cardinality(Users(b)) = 0
    <3>1. Users(b) = {}
      BY <1>5 DEF Users
    <3> QED BY <3>1, FS_EmptySet
  <2> QED BY <1>1, <1>5, <2>1, <2>2, SMTT(60) DEF PagesInv, BpageRefsExact
<1>7. ClaimsCovered
  <2>1. Subtracted("find") = {} /\ Subtracted("unclaim") = {} /\ {r \in Rpcs : pend[r]} = {}
    BY <1>1 DEF Subtracted
  <2>2. Claimed = 0 /\ Overdrawn = 0 /\ Uncounted = 0
    BY <2>1, FS_EmptySet DEF Claimed, Overdrawn, Uncounted
  <2>3. FreePages = Bpages
    BY <1>1 DEF FreePages
  <2> QED BY <1>2, <2>2, <2>3, SMTT(60) DEF ClaimsCovered, NumBpages
<1>8. WaitersVisible
  BY <1>1, SMTT(60) DEF WaitersVisible, Range
<1> QED BY <1>3, <1>4, <1>6, <1>7, <1>8 DEF PoolInv

\* Core c is in homa_pool_alloc_msg and releases the full bpages again.
LEMMA UndoFullInv ==
  ASSUME PoolAssumptions, PoolInv, NEW c \in Cores, UndoFull(c)
  PROVE  PoolInv'
<1>1. PICK r \in Rpcs : r = ctx[c].rpc /\ phase[r] = "undo"
  BY DEF UndoFull, PoolInv, StepsInv, CoreInv, Allocating, AllocPcs
<1>2. CASE ReleaseOne(r)
  BY <1>1, <1>2, ReleaseOneInv
<1>3. CASE CountFree(r)
  BY <1>3, CountFreeInv
<1>4. CASE /\ bufs[r] = <<>> /\ ~pend[r]
           /\ ctx' = [ctx EXCEPT ![c].pc = "queue"]
           /\ phase' = [phase EXCEPT ![r] = "alloc"]
           /\ UNCHANGED <<bpages, cores, free_bpages, bpages_needed, waiting_for_bufs, bufs, pend>>
  BY <1>1, <1>4, UndoDoneInv DEF UndoFull
<1> QED BY <1>1, <1>2, <1>3, <1>4 DEF UndoFull

\* Every step keeps the invariant.
LEMMA StepPool ==
  ASSUME PoolAssumptions, PoolInv, [PoolNext]_poolVars
  PROVE  PoolInv'
<1>1. ASSUME NEW c \in Cores, AllocStep(c)  PROVE  PoolInv'
  BY <1>1, ClaimInv, UnclaimInv, FindPageInv, PartialPageInv, GiveUpPageInv, AllocDoneInv,
     OutOfSpaceInv, UndoFullInv DEF AllocStep
<1>2. ASSUME NEW c \in Cores, CheckStep(c) \/ homa_pool_check_waiting(c)  PROVE  PoolInv'
  BY <1>2, CheckInv, CheckLockedInv DEF CheckStep
<1>3. ASSUME NEW r \in Rpcs, homa_pool_release_buffers(r)  PROVE  PoolInv'
  <2>1. PICK c \in Cores : ctx[c].pc \in {"idle", "check", "check_lock"}
    BY <1>3 DEF homa_pool_release_buffers, CoreAvailable
  <2>2. phase[r] = "releasing"
    BY <1>3 DEF homa_pool_release_buffers
  <2>3. CASE ReleaseOne(r)
    BY <2>2, <2>3, ReleaseOneInv
  <2>4. CASE CountFree(r)
    BY <2>4, CountFreeInv
  <2>5. CASE /\ bufs[r] = <<>> /\ ~pend[r]
             /\ phase' = [phase EXCEPT ![r] = IF Recycle THEN "new" ELSE "done"]
             /\ UNCHANGED <<bpages, cores, free_bpages, bpages_needed, waiting_for_bufs, ctx, bufs, pend>>
    BY <2>2, <2>5, ReleaseDoneInv
  <2> QED BY <1>3, <2>3, <2>4, <2>5 DEF homa_pool_release_buffers
<1>4. ASSUME NEW r \in Rpcs, StartRelease(r) \/ EndRpc(r)  PROVE  PoolInv'
  BY <1>4, StartReleaseInv, RpcEndInv
<1>5. CASE UNCHANGED poolVars
  <2>1. /\ bpages' = bpages /\ cores' = cores /\ free_bpages' = free_bpages
        /\ bpages_needed' = bpages_needed /\ waiting_for_bufs' = waiting_for_bufs
        /\ ctx' = ctx /\ phase' = phase /\ bufs' = bufs /\ pend' = pend
    BY <1>5 DEF poolVars
  <2>2. PoolTypeOK' /\ WaitersVisible'
    BY <2>1 DEF PoolInv, PoolTypeOK, WaitersVisible
  <2>3. StepsInv'
    <3>1. ASSUME NEW c \in Cores  PROVE  CoreInv(c)'
      <4>1. CoreInv(c)
        BY DEF PoolInv, StepsInv
      <4> QED BY ONLY <2>1, <4>1, SMTT(60) DEF CoreInv, Allocating
    <3>2. OneCore'
      BY <2>1 DEF PoolInv, StepsInv, OneCore, Allocating
    <3>3. ASSUME NEW r \in Rpcs  PROVE  RpcInv(r)'
      <4>1. RpcInv(r)
        BY DEF PoolInv, StepsInv
      <4> QED BY ONLY <2>1, <4>1, ZenonT(60) DEF RpcInv
    <3> QED BY <3>1, <3>2, <3>3 DEF StepsInv
  <2>4. PagesInv'
    BY <2>1, SamePages DEF PoolInv
  <2>5. ClaimsCovered'
    BY <2>1 DEF PoolInv, ClaimsCovered, Claimed, Overdrawn, Subtracted, Uncounted, FreePages
  <2> QED BY <2>2, <2>3, <2>4, <2>5 DEF PoolInv
<1> QED BY <1>1, <1>2, <1>3, <1>4, <1>5, MessageInInit, LeaseExpiresInv DEF PoolNext

\* Where homa_pool_get_buffer puts one byte of a message: inside buffer i, m
\* bytes from its start, with the rest of the buffer available.
LEMMA ByteAt ==
  ASSUME PoolAssumptions, PoolInv, NEW r \in Rpcs, phase[r] = "held", NEW o \in 0 .. MsgLen[r] - 1
  PROVE  LET g == homa_pool_get_buffer(r, o)
         IN  \E i \in DOMAIN bufs[r], m \in Nat :
               /\ g.bpage = bufs[r][i].bpage /\ g.offset = bufs[r][i].offset + m
               /\ m < bufs[r][i].len /\ o = BpageSize * (i - 1) + m
               /\ g.available = bufs[r][i].len - m
               /\ g.available \in 1 .. MsgLen[r] - o
               /\ g.offset + g.available <= BpageSize
<1>1. /\ MsgLen[r] \in Nat \ {0} /\ BpageSize \in Nat \ {0} /\ FullPages(r) \in Nat
      /\ Partial(r) \in 0 .. BpageSize - 1 /\ MsgLen[r] = BpageSize * FullPages(r) + Partial(r)
  BY MessageSize, Limits, SMTT(60)
<1>2. o \in Nat /\ o < MsgLen[r]
  BY <1>1, SMTT(60)
<1>3. PICK q \in Nat : q = o \div BpageSize
  BY <1>1, <1>2, DivMod
<1>4. PICK m \in 0 .. BpageSize - 1 : m = o % BpageSize
  BY <1>1, <1>2, DivMod
<1>5. o = BpageSize * q + m
  BY <1>1, <1>2, <1>3, <1>4, DivMod
<1>6. /\ bufs[r] \in Seq(BufferType) /\ Len(bufs[r]) = WholeLen(r)
      /\ \A i \in DOMAIN bufs[r] :
            IF i <= FullPages(r) THEN bufs[r][i].offset = 0 /\ bufs[r][i].len = BpageSize
            ELSE bufs[r][i].len = Partial(r)
  BY DEF PoolInv, PoolTypeOK, StepsInv, RpcInv
<1>7. PICK B \in Nat : B = BpageSize * FullPages(r)
  BY <1>1, SMTT(60)
<1>8. PICK Q \in Nat : Q = BpageSize * q
  BY <1>1, SMTT(60)
<1>9. PICK F \in Nat, P \in 0 .. BpageSize - 1, L \in Nat :
         F = FullPages(r) /\ P = Partial(r) /\ L = MsgLen[r]
  BY <1>1
<1>10. o = Q + m /\ L = B + P /\ o < L
  BY <1>1, <1>2, <1>5, <1>7, <1>8, <1>9
<1>11. q < F => Q + BpageSize <= B
  BY <1>1, <1>7, <1>8, <1>9, TimesMonotone
<1>12. F < q => B + BpageSize <= Q
  BY <1>1, <1>7, <1>8, <1>9, TimesMonotone
<1>13. q = F => Q = B
  BY <1>7, <1>8, <1>9
<1>14. (q < F \/ q = F) /\ (q = F => m < P)
  BY ONLY <1>1, <1>2, <1>10, <1>12, <1>13, q \in Nat, F \in Nat, P \in 0 .. BpageSize - 1,
          Q \in Nat, B \in Nat, m \in 0 .. BpageSize - 1, SMTT(30)
<1>15. PICK n \in Nat : n = Len(bufs[r]) /\ n = F + (IF P = 0 THEN 0 ELSE 1)
  BY <1>6, <1>9, SMTT(60) DEF WholeLen
<1>16. q + 1 \in DOMAIN bufs[r] /\ bufs[r][q + 1] \in BufferType
  <2>1. q + 1 \in 1 .. n
    BY ONLY <1>14, <1>15, q \in Nat, F \in Nat, P \in 0 .. BpageSize - 1, m \in 0 .. BpageSize - 1, <1>1, SMTT(60)
  <2> QED BY <1>6, <1>15, <2>1, SMTT(60)
<1>17. PICK f \in BufferType :
          /\ f = bufs[r][q + 1]
          /\ IF q + 1 <= F THEN f.offset = 0 /\ f.len = BpageSize ELSE f.len = P
  BY <1>6, <1>9, <1>16
<1>18. f.offset \in Nat /\ f.len \in Nat /\ f.offset + f.len <= BpageSize
  <2>1. BufEnd(bufs[r][q + 1]) <= BpageSize
    BY <1>16 DEF PoolInv, PagesInv, BufsApart
  <2> QED BY <1>1, <1>17, <2>1, SMTT(60) DEF BufEnd, BufferType
<1>19. PICK g : g = homa_pool_get_buffer(r, o)
  OBVIOUS
<1>20. /\ g.bpage = f.bpage /\ g.offset = f.offset + m
       /\ g.available = IF q + 1 < n THEN BpageSize - m ELSE L - o
  BY <1>3, <1>4, <1>9, <1>15, <1>17, <1>19 DEF homa_pool_get_buffer
<1>21. /\ m < f.len /\ g.available = f.len - m /\ g.available \in 1 .. L - o
       /\ g.offset + g.available <= BpageSize
  <2>1. CASE q < F
    <3>1. f.offset = 0 /\ f.len = BpageSize
      BY <1>17, <2>1, SMTT(60)
    <3>2. ~(q + 1 < n) => P = 0 /\ q + 1 = F
      BY <1>15, <2>1, SMTT(60)
    <3>3. q + 1 = F => B = Q + BpageSize
      BY <1>1, <1>7, <1>8, <1>9, SMTT(60)
    <3> QED BY <1>1, <1>10, <1>11, <1>18, <1>20, <2>1, <3>1, <3>2, <3>3, SMTT(60)
  <2>2. CASE q = F
    <3>1. f.len = P /\ ~(q + 1 < n) /\ m < P
      BY <1>14, <1>15, <1>17, <2>2, SMTT(60)
    <3> QED BY <1>1, <1>10, <1>13, <1>18, <1>20, <2>2, <3>1, SMTT(60)
  <2> QED BY <1>14, <2>1, <2>2
<1>22. o = BpageSize * ((q + 1) - 1) + m
  <2>1. (q + 1) - 1 = q
    BY SMTT(60)
  <2> QED BY <1>5, <2>1
<1> QED BY <1>9, <1>16, <1>17, <1>19, <1>20, <1>21, <1>22, SMTT(60)

\* The invariant says where the bytes of messages are.
LEMMA BytesApart ==
  ASSUME PoolAssumptions, PoolInv
  PROVE  DistinctBytes
<1> SUFFICES ASSUME NEW r \in Rpcs, phase[r] = "held", NEW o \in 0 .. MsgLen[r] - 1
             PROVE  /\ homa_pool_get_buffer(r, o).available \in 1 .. (MsgLen[r] - o)
                    /\ homa_pool_get_buffer(r, o).offset + homa_pool_get_buffer(r, o).available
                          <= BpageSize
                    /\ \A q \in Rpcs : phase[q] = "held" => \A p \in 0 .. MsgLen[q] - 1 :
                          <<q, p>> # <<r, o>> =>
                             <<homa_pool_get_buffer(r, o).bpage, homa_pool_get_buffer(r, o).offset>>
                             # <<homa_pool_get_buffer(q, p).bpage, homa_pool_get_buffer(q, p).offset>>
  BY SMTT(60) DEF DistinctBytes
<1>1. PICK g : g = homa_pool_get_buffer(r, o)
  OBVIOUS
<1>2. PICK i \in DOMAIN bufs[r], m \in Nat :
         /\ g.bpage = bufs[r][i].bpage /\ g.offset = bufs[r][i].offset + m
         /\ m < bufs[r][i].len /\ o = BpageSize * (i - 1) + m
         /\ g.available \in 1 .. MsgLen[r] - o /\ g.offset + g.available <= BpageSize
  BY <1>1, ByteAt
<1>3. ASSUME NEW q \in Rpcs, phase[q] = "held", NEW p \in 0 .. MsgLen[q] - 1, <<q, p>> # <<r, o>>,
             NEW h, h = homa_pool_get_buffer(q, p), g.bpage = h.bpage, g.offset = h.offset
      PROVE  FALSE
  <2>1. PICK j \in DOMAIN bufs[q], n \in Nat :
           /\ h.bpage = bufs[q][j].bpage /\ h.offset = bufs[q][j].offset + n
           /\ n < bufs[q][j].len /\ p = BpageSize * (j - 1) + n
    BY <1>3, ByteAt
  <2>2. bufs[r][i] \in BufferType /\ bufs[q][j] \in BufferType
    BY SMTT(60) DEF PoolInv, PoolTypeOK
  <2>3. /\ bufs[r][i].offset \in Nat /\ bufs[r][i].len \in Nat
        /\ bufs[q][j].offset \in Nat /\ bufs[q][j].len \in Nat
    BY <2>2, SMTT(60) DEF BufferType, PoolAssumptions
  <2>4. CASE <<r, i>> # <<q, j>>
    <3>1. Apart(bufs[r][i], bufs[q][j])
      BY <2>4 DEF PoolInv, PagesInv, BufsApart
    <3> QED BY <1>2, <1>3, <2>1, <2>3, <3>1, SMTT(60) DEF Apart, BufEnd
  <2>5. CASE <<r, i>> = <<q, j>>
    <3>1. r = q /\ i = j
      BY <2>5
    <3>2. m = n
      BY <1>2, <1>3, <2>1, <2>3, <3>1, SMTT(60)
    <3> QED BY <1>2, <1>3, <2>1, <3>1, <3>2
  <2> QED BY <2>4, <2>5
<1> QED BY <1>1, <1>2, <1>3

\* The pool's variables keep their types; free_bpages never exceeds the number
\* of bpages.
THEOREM PoolType == ASSUME PoolAssumptions PROVE PoolSpec => []PoolTypeOK
<1>1. PoolInit => PoolInv
  BY InitPool
<1>2. PoolInv /\ [PoolNext]_poolVars => PoolInv'
  BY StepPool
<1>3. PoolInv => PoolTypeOK
  BY DEF PoolInv
<1> QED BY <1>1, <1>2, <1>3, PTL DEF PoolSpec

\* homa_bpage.refs counts the messages that use the bpage and its owner, and
\* an owner is a core whose page_hint is the bpage.
THEOREM BpageRefs == ASSUME PoolAssumptions PROVE PoolSpec => []BpageRefsExact
<1>1. PoolInit => PoolInv
  BY InitPool
<1>2. PoolInv /\ [PoolNext]_poolVars => PoolInv'
  BY StepPool
<1>3. PoolInv => BpageRefsExact
  BY DEF PoolInv, PagesInv
<1> QED BY <1>1, <1>2, <1>3, PTL DEF PoolSpec

\* "Once we get to this point we know we will be able to find enough free
\* pages" (homa_pool_get_pages).
THEOREM EnoughFreePages == ASSUME PoolAssumptions PROVE PoolSpec => []ClaimsCovered
<1>1. PoolInit => PoolInv
  BY InitPool
<1>2. PoolInv /\ [PoolNext]_poolVars => PoolInv'
  BY StepPool
<1>3. PoolInv => ClaimsCovered
  BY DEF PoolInv
<1> QED BY <1>1, <1>2, <1>3, PTL DEF PoolSpec

\* The queue of waiting RPCs is complete and ordered, and bpages_needed never
\* hides that its first RPC fits.
THEOREM Waiters == ASSUME PoolAssumptions PROVE PoolSpec => []WaitersVisible
<1>1. PoolInit => PoolInv
  BY InitPool
<1>2. PoolInv /\ [PoolNext]_poolVars => PoolInv'
  BY StepPool
<1>3. PoolInv => WaitersVisible
  BY DEF PoolInv
<1> QED BY <1>1, <1>2, <1>3, PTL DEF PoolSpec

\* No byte of the region belongs to two bytes of messages, and what
\* homa_pool_get_buffer reports as available stays inside the bpage and the
\* message.
THEOREM BytesDistinct == ASSUME PoolAssumptions PROVE PoolSpec => []DistinctBytes
<1>1. PoolInit => PoolInv
  BY InitPool
<1>2. PoolInv /\ [PoolNext]_poolVars => PoolInv'
  BY StepPool
<1>3. PoolInv => DistinctBytes
  BY BytesApart
<1> QED BY <1>1, <1>2, <1>3, PTL DEF PoolSpec
=============================================================================
