--------------------------- MODULE HomaPoolSteps ---------------------------
(***************************************************************************)
(* The inductive invariant of HomaPool and the steps that leave the bpages *)
(* alone: entering homa_pool_alloc_msg, claiming bpages, and the queue of  *)
(* waiting RPCs.                                                           *)
(***************************************************************************)
EXTENDS HomaPool, ListLemmas

\* The steps are first-order and go to Zenon; the others are marked SMT.
USE ZenonT(60)

Allocating(c) == ctx[c].pc \in AllocPcs

\* Buffers that a complete message has.
WholeLen(r) == FullPages(r) + (IF Partial(r) = 0 THEN 0 ELSE 1)

\* How far core c is with the message it allocates buffers for.
CoreInv(c) ==
    LET r == ctx[c].rpc
        n == Len(bufs[r])
    IN  /\ Allocating(c) =>
              /\ r \in Rpcs
              /\ phase[r] = IF ctx[c].pc = "undo" THEN "undo" ELSE "alloc"
        /\ ctx[c].pc \in {"claim", "unclaim", "find"} =>
              /\ ctx[c].left \in 1 .. HOMA_MAX_MESSAGE_LENGTH
              /\ IF ctx[c].set_owner
                 THEN /\ Partial(r) > 0 /\ n = FullPages(r) /\ ctx[c].left = 1
                      /\ \A b \in Bpages : bpages[b].owner # c
                 ELSE n + ctx[c].left = FullPages(r)
        /\ ctx[c].pc \in {"claim", "unclaim"} /\ ~ctx[c].set_owner => n = 0
        /\ ctx[c].pc \in {"partial", "give_up"} => Partial(r) > 0 /\ n = FullPages(r)
        /\ ctx[c].pc = "give_up" => /\ bpages[cores[c].page_hint].owner = c
                                    /\ bpages[cores[c].page_hint].locked
        /\ ctx[c].pc = "success" => n = WholeLen(r)
        /\ ctx[c].pc = "queue" => n = 0

\* No two cores allocate for the same RPC.
OneCore == \A c, d \in Cores : Allocating(c) /\ Allocating(d) /\ c # d => ctx[c].rpc # ctx[d].rpc

\* Buffers of an RPC by the phase of its life.
RpcInv(r) ==
    /\ phase[r] \in {"new", "waiting", "done"} => bufs[r] = <<>>
    /\ phase[r] = "held" => Len(bufs[r]) = WholeLen(r)
    /\ pend[r] => phase[r] \in {"undo", "releasing"}
    /\ phase[r] \in {"alloc", "held"} =>
          \A i \in DOMAIN bufs[r] :
             IF i <= FullPages(r) THEN bufs[r][i].offset = 0 /\ bufs[r][i].len = BpageSize
             ELSE bufs[r][i].len = Partial(r)

\* Buffers lie inside their bpage and do not overlap.
BufEnd(f) == f.offset + f.len
Apart(f, g) == f.bpage # g.bpage \/ BufEnd(f) <= g.offset \/ BufEnd(g) <= f.offset
BufsApart ==
    /\ \A r \in Rpcs : \A i \in DOMAIN bufs[r] : BufEnd(bufs[r][i]) <= BpageSize
    /\ \A r, q \in Rpcs : \A i \in DOMAIN bufs[r], j \in DOMAIN bufs[q] :
          <<r, i>> # <<q, j>> => Apart(bufs[r][i], bufs[q][j])

\* The owner of a bpage has allocated everything that is in use.
OwnerInv ==
    \A b \in Bpages : bpages[b].owner # NoOwner =>
        \A r \in Rpcs : \A i \in DOMAIN bufs[r] :
            bufs[r][i].bpage = b => BufEnd(bufs[r][i]) <= cores[bpages[b].owner].allocated

\* Where every core and every RPC is.
StepsInv == /\ \A c \in Cores : CoreInv(c)
            /\ OneCore
            /\ \A r \in Rpcs : RpcInv(r)

\* How the bpages are used.
PagesInv == BufsApart /\ OwnerInv /\ BpageRefsExact

\* The inductive invariant.
PoolInv == PoolTypeOK /\ StepsInv /\ PagesInv /\ ClaimsCovered /\ WaitersVisible
-----------------------------------------------------------------------------
(* Arithmetic                                                              *)

\* The limits of the code are numbers.
LEMMA Limits ==
  HOMA_MAX_MESSAGE_LENGTH \in Nat /\ HOMA_MAX_MESSAGE_LENGTH >= 1 /\ INT_MAX \in Nat
BY SMTT(60) DEF HOMA_MAX_MESSAGE_LENGTH, INT_MAX

\* Quotient and remainder.
LEMMA DivMod ==
  ASSUME NEW n \in Nat, NEW b \in Nat \ {0}
  PROVE  /\ n \div b \in Nat /\ n % b \in 0 .. b - 1
         /\ n = b * (n \div b) + (n % b)
BY SMTT(60)

\* The start of a later bpage of a message is past the end of an earlier one.
LEMMA TimesMonotone ==
  ASSUME NEW b \in Nat, NEW i \in Nat, NEW j \in Nat, i < j
  PROVE  b * i + b <= b * j
BY SMTT(60)

\* A message is FullPages(r) full bpages and Partial(r) units of another.
LEMMA MessageSize ==
  ASSUME PoolAssumptions, NEW r \in Rpcs
  PROVE  /\ MsgLen[r] \in Nat \ {0} /\ BpageSize \in Nat \ {0}
         /\ FullPages(r) \in 0 .. HOMA_MAX_MESSAGE_LENGTH
         /\ Partial(r) \in 0 .. BpageSize - 1
         /\ MsgLen[r] = BpageSize * FullPages(r) + Partial(r)
         /\ FullPages(r) = 0 => Partial(r) > 0
<1>1. /\ MsgLen[r] \in 1 .. HOMA_MAX_MESSAGE_LENGTH /\ BpageSize \in Nat \ {0}
      /\ HOMA_MAX_MESSAGE_LENGTH \in Nat
  BY Limits DEF PoolAssumptions
<1>a. MsgLen[r] \in Nat
  BY <1>1, SMTT(60)
<1>b. /\ MsgLen[r] \div BpageSize \in Nat /\ MsgLen[r] % BpageSize \in 0 .. BpageSize - 1
      /\ MsgLen[r] = BpageSize * (MsgLen[r] \div BpageSize) + (MsgLen[r] % BpageSize)
  BY ONLY <1>1, <1>a, DivMod, ZenonT(60)
<1>2. /\ FullPages(r) \in Nat /\ Partial(r) \in 0 .. BpageSize - 1
      /\ MsgLen[r] = BpageSize * FullPages(r) + Partial(r)
  BY <1>b DEF FullPages, Partial
<1>3. FullPages(r) <= BpageSize * FullPages(r)
  BY <1>1, <1>2, SMTT(60)
<1> QED BY <1>1, <1>2, <1>3, SMTT(60)

\* A longer message needs at least as many bpages.
LEMMA NeededMonotone ==
  ASSUME PoolAssumptions, NEW r \in Rpcs, NEW q \in Rpcs, MsgLen[r] <= MsgLen[q]
  PROVE  PagesNeeded(r) \in Nat /\ PagesNeeded(r) <= PagesNeeded(q)
<1>1. MsgLen[r] \in Nat /\ MsgLen[q] \in Nat /\ BpageSize \in Nat \ {0}
  BY Limits, SMTT(60) DEF PoolAssumptions
<1> DEFINE m == MsgLen[r] + BpageSize - 1
           n == MsgLen[q] + BpageSize - 1
<1>2. m \in Nat /\ n \in Nat /\ m <= n
  BY <1>1, SMTT(60)
<1> HIDE DEF m, n
<1>3. /\ m \div BpageSize \in Nat /\ m = BpageSize * (m \div BpageSize) + (m % BpageSize)
      /\ n \div BpageSize \in Nat /\ n = BpageSize * (n \div BpageSize) + (n % BpageSize)
      /\ m % BpageSize \in 0 .. BpageSize - 1 /\ n % BpageSize \in 0 .. BpageSize - 1
  BY ONLY <1>1, <1>2, DivMod, ZenonT(60)
<1>4. m \div BpageSize <= n \div BpageSize
  <2> SUFFICES ASSUME n \div BpageSize < m \div BpageSize  PROVE  FALSE
    BY <1>3, SMTT(60)
  <2>1. BpageSize * (n \div BpageSize) + BpageSize <= BpageSize * (m \div BpageSize)
    BY <1>1, <1>3, TimesMonotone
  <2>2. BpageSize * (n \div BpageSize) \in Int /\ BpageSize * (m \div BpageSize) \in Int
    BY <1>1, <1>3, SMTT(60)
  <2> QED BY <1>1, <1>2, <1>3, <2>1, <2>2, SMTT(60)
<1> QED BY <1>3, <1>4 DEF PagesNeeded, m, n

-----------------------------------------------------------------------------
(* Buffers                                                                 *)

\* A buffer is added to the message of r.
LEMMA AppendFacts ==
  ASSUME bufs \in [Rpcs -> Seq(BufferType)], NEW r \in Rpcs, NEW f \in BufferType,
         bufs' = [bufs EXCEPT ![r] = Append(@, f)]
  PROVE  /\ bufs' \in [Rpcs -> Seq(BufferType)]
         /\ Len(bufs[r]) \in Nat /\ Len(bufs'[r]) = Len(bufs[r]) + 1
         /\ DOMAIN bufs'[r] = DOMAIN bufs[r] \cup {Len(bufs[r]) + 1}
         /\ DOMAIN bufs[r] = 1 .. Len(bufs[r])
         /\ \A i \in DOMAIN bufs[r] : bufs'[r][i] = bufs[r][i]
         /\ bufs'[r][Len(bufs[r]) + 1] = f
         /\ \A q \in Rpcs \ {r} : bufs'[q] = bufs[q]
<1> HIDE DEF BufferType
<1>1. bufs'[r] = Append(bufs[r], f) /\ bufs[r] \in Seq(BufferType)
  OBVIOUS
<1>2. Append(bufs[r], f) \in Seq(BufferType)
  BY <1>1, SMTT(60)
<1> QED BY <1>1, <1>2, SMTT(60)

\* Then its bpage has r as a user as well.
LEMMA AppendUsers ==
  ASSUME bufs \in [Rpcs -> Seq(BufferType)], NEW r \in Rpcs, NEW f \in BufferType,
         bufs' = [bufs EXCEPT ![r] = Append(@, f)]
  PROVE  /\ Users(f.bpage)' = Users(f.bpage) \cup {r}
         /\ \A b \in Bpages \ {f.bpage} : Users(b)' = Users(b)
<1> DEFINE n == Len(bufs[r]) + 1
<1>1. /\ DOMAIN bufs'[r] = DOMAIN bufs[r] \cup {n}
      /\ \A i \in DOMAIN bufs[r] : bufs'[r][i] = bufs[r][i]
      /\ bufs'[r][n] = f
      /\ \A q \in Rpcs \ {r} : bufs'[q] = bufs[q]
  BY AppendFacts
<1> HIDE DEF n
<1> QED BY <1>1, SMTT(60) DEF Users

\* The first buffer of r is released.
LEMMA TailFacts ==
  ASSUME bufs \in [Rpcs -> Seq(BufferType)], NEW r \in Rpcs, bufs[r] # <<>>,
         bufs' = [bufs EXCEPT ![r] = Tail(@)]
  PROVE  /\ bufs' \in [Rpcs -> Seq(BufferType)]
         /\ Head(bufs[r]) = bufs[r][1] /\ 1 \in DOMAIN bufs[r] /\ bufs[r][1] \in BufferType
         /\ \A i \in DOMAIN bufs'[r] : /\ i + 1 \in DOMAIN bufs[r] /\ i + 1 # 1
                                       /\ bufs'[r][i] = bufs[r][i + 1]
         /\ \A i \in DOMAIN bufs[r] \ {1} : /\ i - 1 \in DOMAIN bufs'[r]
                                            /\ bufs'[r][i - 1] = bufs[r][i]
         /\ \A q \in Rpcs \ {r} : bufs'[q] = bufs[q]
<1> HIDE DEF BufferType
<1>1. bufs'[r] = Tail(bufs[r]) /\ bufs[r] \in Seq(BufferType)
  OBVIOUS
<1>2. Tail(bufs[r]) \in Seq(BufferType) /\ Len(bufs[r]) \in Nat \ {0}
  BY <1>1, SMTT(60)
<1>3. bufs' \in [Rpcs -> Seq(BufferType)] /\ \A q \in Rpcs \ {r} : bufs'[q] = bufs[q]
  BY <1>1, <1>2
<1> QED BY <1>1, <1>2, <1>3, SMTT(60)

\* Then its bpage has one user less.
LEMMA TailUsers ==
  ASSUME bufs \in [Rpcs -> Seq(BufferType)], NEW r \in Rpcs, bufs[r] # <<>>,
         bufs' = [bufs EXCEPT ![r] = Tail(@)], NEW b, b = Head(bufs[r]).bpage,
         \A i, j \in DOMAIN bufs[r] : i # j => bufs[r][i].bpage # bufs[r][j].bpage
  PROVE  /\ b \in Bpages
         /\ r \notin Users(b)' /\ Users(b) = Users(b)' \cup {r}
         /\ \A x \in Bpages \ {b} : Users(x)' = Users(x)
<1>1. /\ Head(bufs[r]) = bufs[r][1] /\ 1 \in DOMAIN bufs[r] /\ bufs[r][1] \in BufferType
      /\ \A i \in DOMAIN bufs'[r] : /\ i + 1 \in DOMAIN bufs[r] /\ i + 1 # 1
                                    /\ bufs'[r][i] = bufs[r][i + 1]
      /\ \A i \in DOMAIN bufs[r] \ {1} : /\ i - 1 \in DOMAIN bufs'[r]
                                         /\ bufs'[r][i - 1] = bufs[r][i]
      /\ \A q \in Rpcs \ {r} : bufs'[q] = bufs[q]
  BY TailFacts
<1>2. b \in Bpages /\ b = bufs[r][1].bpage
  BY <1>1 DEF BufferType
<1>3. r \notin Users(b)'
  <2> SUFFICES ASSUME NEW i \in DOMAIN bufs'[r], bufs'[r][i].bpage = b  PROVE  FALSE
    BY DEF Users
  <2>1. i + 1 \in DOMAIN bufs[r] /\ i + 1 # 1 /\ bufs[r][i + 1].bpage = b
    BY <1>1
  <2> QED BY <1>1, <1>2, <2>1, SMTT(60)
<1>4. Users(b) = Users(b)' \cup {r}
  <2>1. r \in Users(b)
    BY <1>1, <1>2 DEF Users
  <2> QED BY <1>1, <2>1 DEF Users
<1>5. ASSUME NEW x \in Bpages \ {b}  PROVE  Users(x)' = Users(x)
  <2>1. ASSUME NEW i \in DOMAIN bufs[r], bufs[r][i].bpage = x
        PROVE  \E j \in DOMAIN bufs'[r] : bufs'[r][j].bpage = x
    <3>1. i # 1
      BY <1>2, <2>1
    <3>2. i - 1 \in DOMAIN bufs'[r] /\ bufs'[r][i - 1].bpage = x
      BY <1>1, <2>1, <3>1
    <3> QED BY <3>2
  <2>2. ASSUME NEW i \in DOMAIN bufs'[r], bufs'[r][i].bpage = x
        PROVE  \E j \in DOMAIN bufs[r] : bufs[r][j].bpage = x
    BY <1>1, <2>2
  <2>3. r \in Users(x)' <=> r \in Users(x)
    BY <2>1, <2>2 DEF Users
  <2> QED BY <1>1, <2>3, SMTT(60) DEF Users
<1> QED BY <1>2, <1>3, <1>4, <1>5

-----------------------------------------------------------------------------
(* Counting                                                                *)

\* What a core in state k has subtracted from free_bpages if it is at pc.
Share(k, pc) == IF k.pc = pc THEN k.left ELSE 0

\* Subtracted for any contexts of the cores.
Tokens(f, pc) == UNION {{c} \X (1 .. f[c].left) : c \in {x \in Cores : f[x].pc = pc}}

\* Core c's share of the bpages subtracted from free_bpages.
LEMMA TokensSplit ==
  ASSUME PoolAssumptions, NEW f \in [Cores -> ContextType], NEW c \in Cores, NEW pc
  PROVE  LET rest == {t \in Tokens(f, pc) : t[1] # c}
         IN  /\ Cardinality(rest) \in Nat
             /\ Cardinality(Tokens(f, pc)) = Cardinality(rest) + Share(f[c], pc)
<1> DEFINE rest == {t \in Tokens(f, pc) : t[1] # c}
           own == {c} \X (1 .. Share(f[c], pc))
<1>1. \A d \in Cores : f[d].left \in 0 .. HOMA_MAX_MESSAGE_LENGTH
  BY DEF ContextType
<1>2. Share(f[c], pc) \in Nat
  BY <1>1, Limits, SMTT(60) DEF Share
<1>3. rest \subseteq Cores \X (1 .. HOMA_MAX_MESSAGE_LENGTH)
  BY <1>1, Limits, SMTT(60) DEF Tokens
<1>4. IsFiniteSet(Cores \X (1 .. HOMA_MAX_MESSAGE_LENGTH))
  <2>1. IsFiniteSet(Cores)
    BY DEF PoolAssumptions
  <2>2. IsFiniteSet(1 .. HOMA_MAX_MESSAGE_LENGTH)
    BY FS_Interval, Limits, SMTT(60)
  <2> QED BY ONLY <2>1, <2>2, FS_Product, ZenonT(60)
<1>5. IsFiniteSet(rest) /\ Cardinality(rest) \in Nat
  BY <1>3, <1>4, FS_Subset, FS_CardinalityType
<1>6. IsFiniteSet(own) /\ Cardinality(own) = Share(f[c], pc)
  <2>1. IsFiniteSet({c}) /\ Cardinality({c}) = 1
    BY FS_Singleton
  <2>2. IsFiniteSet(1 .. Share(f[c], pc)) /\ Cardinality(1 .. Share(f[c], pc)) = Share(f[c], pc)
    BY <1>2, FS_Interval, SMTT(60)
  <2>3. IsFiniteSet(own) /\ Cardinality(own) = Cardinality({c}) * Cardinality(1 .. Share(f[c], pc))
    BY ONLY <2>1, <2>2, FS_Product, ZenonT(60)
  <2> QED BY <1>2, <2>1, <2>2, <2>3, SMTT(60)
<1>7. Tokens(f, pc) = rest \cup own
  BY <1>1, SMTT(60) DEF Tokens, Share
<1>8. rest \cap own = {}
  OBVIOUS
<1> HIDE DEF rest, own
<1>9. Cardinality(rest \cup own) = Cardinality(rest) + Cardinality(own) - Cardinality(rest \cap own)
  BY <1>5, <1>6, FS_Union
<1>10. Cardinality(rest \cap own) = 0
  BY <1>8, FS_EmptySet
<1>11. Cardinality(Tokens(f, pc)) = Cardinality(rest) + Share(f[c], pc)
  BY <1>2, <1>5, <1>6, <1>7, <1>9, <1>10, SMTT(60)
<1> QED BY <1>5, <1>11 DEF rest

\* Only core c moves: what the other cores have claimed stays.
LEMMA ClaimShare ==
  ASSUME PoolAssumptions, ctx \in [Cores -> ContextType], ctx' \in [Cores -> ContextType],
         NEW c \in Cores, \A d \in Cores \ {c} : ctx'[d] = ctx[d]
  PROVE  /\ \E m \in Nat : /\ Claimed = m + Share(ctx[c], "find")
                           /\ Claimed' = m + Share(ctx'[c], "find")
         /\ \E m \in Nat : /\ Overdrawn = m + Share(ctx[c], "unclaim")
                           /\ Overdrawn' = m + Share(ctx'[c], "unclaim")
<1>1. /\ Claimed = Cardinality(Tokens(ctx, "find"))
      /\ Claimed' = Cardinality(Tokens(ctx', "find"))
      /\ Overdrawn = Cardinality(Tokens(ctx, "unclaim"))
      /\ Overdrawn' = Cardinality(Tokens(ctx', "unclaim"))
  BY DEF Claimed, Overdrawn, Subtracted, Tokens
<1>2. ASSUME NEW pc
      PROVE  \E m \in Nat : /\ Cardinality(Tokens(ctx, pc)) = m + Share(ctx[c], pc)
                            /\ Cardinality(Tokens(ctx', pc)) = m + Share(ctx'[c], pc)
  <2> DEFINE rest == {t \in Tokens(ctx, pc) : t[1] # c}
             rest1 == {t \in Tokens(ctx', pc) : t[1] # c}
  <2>1. rest = rest1
    BY SMTT(60) DEF Tokens
  <2>2. /\ Cardinality(rest) \in Nat
        /\ Cardinality(Tokens(ctx, pc)) = Cardinality(rest) + Share(ctx[c], pc)
    BY TokensSplit
  <2>3. Cardinality(Tokens(ctx', pc)) = Cardinality(rest1) + Share(ctx'[c], pc)
    BY TokensSplit
  <2> HIDE DEF rest, rest1
  <2> QED BY <2>1, <2>2, <2>3
<1> QED BY <1>1, <1>2

\* Only the reference count of bpage b changes.
LEMMA FreeShare ==
  ASSUME PoolAssumptions, NEW b \in Bpages,
         \A x \in Bpages \ {b} : bpages'[x].refs = bpages[x].refs
  PROVE  \E m \in Nat :
            /\ Cardinality(FreePages) = m + (IF bpages[b].refs = 0 THEN 1 ELSE 0)
            /\ Cardinality(FreePages)' = m + (IF bpages'[b].refs = 0 THEN 1 ELSE 0)
<1>1. IsFiniteSet(FreePages) /\ IsFiniteSet(FreePages')
  BY FS_Subset DEF PoolAssumptions, FreePages
<1>2. FreePages \ {b} = FreePages' \ {b}
  BY DEF FreePages
<1>3. /\ Cardinality(FreePages \ {b}) \in Nat
      /\ Cardinality(FreePages) = Cardinality(FreePages \ {b}) + (IF b \in FreePages THEN 1 ELSE 0)
  BY <1>1, CardSplit
<1>4. Cardinality(FreePages') = Cardinality(FreePages' \ {b}) + (IF b \in FreePages' THEN 1 ELSE 0)
  BY <1>1, CardSplit
<1>5. (b \in FreePages <=> bpages[b].refs = 0) /\ (b \in FreePages' <=> bpages'[b].refs = 0)
  BY DEF FreePages
<1> QED BY <1>2, <1>3, <1>4, <1>5

\* Only RPC r begins or ends to have a released bpage that is not counted.
LEMMA PendShare ==
  ASSUME PoolAssumptions, NEW r \in Rpcs, \A x \in Rpcs \ {r} : pend'[x] = pend[x]
  PROVE  \E m \in Nat : /\ Uncounted = m + (IF pend[r] THEN 1 ELSE 0)
                        /\ Uncounted' = m + (IF pend'[r] THEN 1 ELSE 0)
<1> DEFINE S == {x \in Rpcs : pend[x]}
           S1 == {x \in Rpcs : pend'[x]}
<1>1. IsFiniteSet(S) /\ IsFiniteSet(S1)
  BY FS_Subset DEF PoolAssumptions
<1>2. S \ {r} = S1 \ {r}
  OBVIOUS
<1>3. (r \in S <=> pend[r]) /\ (r \in S1 <=> pend'[r])
  OBVIOUS
<1>4. Uncounted = Cardinality(S) /\ Uncounted' = Cardinality(S1)
  BY DEF Uncounted
<1> HIDE DEF S, S1
<1>5. /\ Cardinality(S \ {r}) \in Nat
      /\ Cardinality(S) = Cardinality(S \ {r}) + (IF r \in S THEN 1 ELSE 0)
  BY <1>1, CardSplit
<1>6. Cardinality(S1) = Cardinality(S1 \ {r}) + (IF r \in S1 THEN 1 ELSE 0)
  BY <1>1, CardSplit
<1> QED BY <1>2, <1>3, <1>4, <1>5, <1>6

-----------------------------------------------------------------------------
(* What a step leaves alone                                                *)

\* Core d does not move and nothing it depends on changes.
LEMMA OtherCore ==
  ASSUME NEW d \in Cores, CoreInv(d), ctx'[d] = ctx[d], cores'[d] = cores[d],
         ctx[d].pc \in AllocPcs => /\ phase'[ctx[d].rpc] = phase[ctx[d].rpc]
                                   /\ bufs'[ctx[d].rpc] = bufs[ctx[d].rpc],
         \A b \in Bpages : bpages[b].owner # d => bpages'[b].owner # d,
         ctx[d].pc = "give_up" => /\ bpages'[cores[d].page_hint].owner = d
                                  /\ bpages'[cores[d].page_hint].locked
  PROVE  CoreInv(d)'
<1>1. CASE ctx[d].pc \in AllocPcs
  BY <1>1 DEF CoreInv, Allocating
<1>2. CASE ctx[d].pc \notin AllocPcs
  BY <1>2 DEF CoreInv, Allocating, AllocPcs
<1> QED BY <1>1, <1>2

\* Core c moves, and of the RPCs only r changes: c allocates for r, or will, or
\* nobody does.
LEMMA CoreStep ==
  ASSUME PoolTypeOK, StepsInv, NEW c \in Cores, NEW r \in Rpcs,
         \A d \in Cores \ {c} : ctx'[d] = ctx[d] /\ cores'[d] = cores[d],
         \/ ctx[c].pc \in AllocPcs /\ ctx[c].rpc = r
         \/ phase[r] \notin {"alloc", "undo"},
         ctx'[c].pc \in AllocPcs => ctx'[c].rpc = r,
         \A q \in Rpcs \ {r} : phase'[q] = phase[q] /\ bufs'[q] = bufs[q] /\ pend'[q] = pend[q],
         \A d \in Cores \ {c} : \A b \in Bpages :
            /\ bpages[b].owner # d => bpages'[b].owner # d
            /\ bpages[b].owner = d /\ bpages[b].locked =>
                  bpages'[b].owner = d /\ bpages'[b].locked,
         CoreInv(c)', RpcInv(r)'
  PROVE  StepsInv'
<1>1. ASSUME NEW d \in Cores \ {c}, ctx[d].pc \in AllocPcs
      PROVE  ctx[d].rpc \in Rpcs \ {r}
  <2>1. ctx[d].rpc \in Rpcs /\ phase[ctx[d].rpc] \in {"alloc", "undo"}
    BY <1>1 DEF StepsInv, CoreInv, Allocating
  <2> QED BY <1>1, <2>1, SMTT(60) DEF StepsInv, OneCore, Allocating
<1>2. ASSUME NEW d \in Cores \ {c}  PROVE  CoreInv(d)'
  <2>1. CoreInv(d) /\ cores[d].page_hint \in Bpages
    BY DEF StepsInv, PoolTypeOK, CoreType
  <2>2. ctx[d].pc = "give_up" => /\ bpages'[cores[d].page_hint].owner = d
                                 /\ bpages'[cores[d].page_hint].locked
    BY <2>1, SMTT(60) DEF CoreInv
  <2> QED BY <1>1, <2>1, <2>2, OtherCore
<1>3. OneCore'
  BY <1>1, SMTT(60) DEF OneCore, Allocating, StepsInv
<1>4. ASSUME NEW q \in Rpcs \ {r}  PROVE  RpcInv(q)'
  BY SMTT(60) DEF StepsInv, RpcInv
<1> QED BY <1>2, <1>3, <1>4 DEF StepsInv

\* No core moves, and of the RPCs only r changes, for which nobody allocates.
LEMMA RpcStep ==
  ASSUME PoolTypeOK, StepsInv, NEW r \in Rpcs, ctx' = ctx, cores' = cores,
         phase[r] \notin {"alloc", "undo"},
         \A q \in Rpcs \ {r} : phase'[q] = phase[q] /\ bufs'[q] = bufs[q] /\ pend'[q] = pend[q],
         \A b \in Bpages : bpages'[b].owner = bpages[b].owner /\ bpages'[b].locked = bpages[b].locked,
         RpcInv(r)'
  PROVE  StepsInv'
<1>1. ASSUME NEW d \in Cores, ctx[d].pc \in AllocPcs  PROVE  ctx[d].rpc \in Rpcs \ {r}
  BY <1>1 DEF StepsInv, CoreInv, Allocating
<1>2. ASSUME NEW d \in Cores  PROVE  CoreInv(d)'
  <2>1. CoreInv(d) /\ cores[d].page_hint \in Bpages
    BY DEF StepsInv, PoolTypeOK, CoreType
  <2>2. ctx[d].pc = "give_up" => /\ bpages'[cores[d].page_hint].owner = d
                                 /\ bpages'[cores[d].page_hint].locked
    BY <2>1 DEF CoreInv
  <2> QED BY <1>1, <2>1, <2>2, OtherCore
<1>3. OneCore'
  BY DEF OneCore, Allocating, StepsInv
<1>4. ASSUME NEW q \in Rpcs \ {r}  PROVE  RpcInv(q)'
  BY DEF StepsInv, RpcInv
<1> QED BY <1>2, <1>3, <1>4 DEF StepsInv

-----------------------------------------------------------------------------
(* Steps that do not touch the bpages                                      *)

\* Bpages, buffers and cores are as they were.
LEMMA SamePages ==
  ASSUME PagesInv, bpages' = bpages, bufs' = bufs, cores' = cores
  PROVE  PagesInv'
<1>1. BufsApart'
  BY DEF PagesInv, BufsApart
<1>2. OwnerInv'
  BY DEF PagesInv, OwnerInv
<1>3. BpageRefsExact'
  <2>1. \A x : Users(x)' = Users(x)
    BY DEF Users
  <2> QED BY <2>1 DEF PagesInv, BpageRefsExact
<1> QED BY <1>1, <1>2, <1>3 DEF PagesInv

\* So is the place of a core, in all that it knows.
LEMMA SameCore ==
  ASSUME NEW d \in Cores, CoreInv(d), ctx'[d] = ctx[d], bpages' = bpages, cores' = cores,
         bufs' = bufs, phase' = phase
  PROVE  CoreInv(d)'
<1>1. PICK x : x = ctx[d] /\ x = ctx'[d]
  OBVIOUS
<1>2. Allocating(d)' <=> Allocating(d)
  BY DEF Allocating
<1> QED BY <1>1, <1>2 DEF CoreInv

\* Nor are claims, or what has been released.
LEMMA SameClaims ==
  ASSUME PoolAssumptions, ClaimsCovered, bpages' = bpages, pend' = pend, free_bpages' = free_bpages,
         ctx \in [Cores -> ContextType], ctx' \in [Cores -> ContextType],
         NEW c \in Cores, \A d \in Cores \ {c} : ctx'[d] = ctx[d],
         ctx[c].pc \notin {"find", "unclaim"}, ctx'[c].pc \notin {"find", "unclaim"}
  PROVE  ClaimsCovered'
<1>1. Claimed' = Claimed /\ Overdrawn' = Overdrawn
  BY ClaimShare DEF Share
<1>2. Uncounted' = Uncounted /\ FreePages' = FreePages
  BY DEF Uncounted, FreePages
<1> QED BY <1>1, <1>2 DEF ClaimsCovered

\* Core c enters homa_pool_alloc_msg for r.
LEMMA AllocMsgStep ==
  ASSUME PoolAssumptions, PoolTypeOK, NEW c \in Cores, NEW r \in Rpcs,
         NEW ret \in {"idle", "check"}, AllocMsg(c, r, ret), bufs' = bufs, bufs[r] = <<>>
  PROVE  /\ ctx' \in [Cores -> ContextType] /\ \A d \in Cores \ {c} : ctx'[d] = ctx[d]
         /\ ctx'[c].pc \in {"claim", "partial"} /\ ctx'[c].rpc = r
         /\ phase' = [phase EXCEPT ![r] = "alloc"]
         /\ CoreInv(c)'
<1>1. /\ FullPages(r) \in 0 .. HOMA_MAX_MESSAGE_LENGTH /\ Partial(r) \in Nat
      /\ FullPages(r) = 0 => Partial(r) > 0
  BY MessageSize, SMTT(60)
<1>2. ctx[c] \in ContextType /\ phase' = [phase EXCEPT ![r] = "alloc"] /\ phase'[r] = "alloc"
  BY DEF PoolTypeOK, AllocMsg
<1>3. PICK k : k = ctx'[c]
  OBVIOUS
<1>4. ctx' = [ctx EXCEPT ![c] = k]
  BY <1>3 DEF AllocMsg, PoolTypeOK
<1>5. Len(bufs'[r]) = 0
  OBVIOUS
<1>6. CASE FullPages(r) > 0
  <2>1. k = [pc |-> "claim", rpc |-> r, left |-> FullPages(r), set_owner |-> FALSE, ret |-> ret]
    BY <1>2, <1>3, <1>6 DEF AllocMsg, GetPages, ContextType, PoolTypeOK
  <2>2. k \in ContextType
    BY <1>1, <2>1 DEF ContextType, AllocPcs
  <2>3. CoreInv(c)'
    BY <1>1, <1>2, <1>3, <1>5, <1>6, <2>1, SMTT(60) DEF CoreInv, Allocating, AllocPcs
  <2> QED BY <1>2, <1>3, <1>4, <2>1, <2>2, <2>3, SMTT(60) DEF PoolTypeOK
<1>7. CASE FullPages(r) = 0
  <2>1. k = [pc |-> "partial", rpc |-> r, left |-> ctx[c].left, set_owner |-> ctx[c].set_owner, ret |-> ret]
    <3>1. k = [[ctx[c] EXCEPT !.rpc = r, !.ret = ret] EXCEPT !.pc = "partial"]
      BY <1>3, <1>7, SMTT(60) DEF AllocMsg, PoolTypeOK
    <3> QED BY <1>2, <3>1 DEF ContextType
  <2>2. k \in ContextType
    BY <1>1, <1>2, <2>1 DEF ContextType, AllocPcs
  <2>3. CoreInv(c)'
    BY <1>1, <1>2, <1>3, <1>5, <1>7, <2>1, SMTT(60) DEF CoreInv, Allocating, AllocPcs
  <2> QED BY <1>2, <1>3, <1>4, <2>1, <2>2, <2>3, SMTT(60) DEF PoolTypeOK
<1> QED BY <1>1, <1>6, <1>7, SMTT(60)

\* The first packet of a message arrives.
LEMMA MessageInInit ==
  ASSUME PoolAssumptions, PoolInv, NEW c \in Cores, NEW r \in Rpcs, InitMessageIn(c, r)
  PROVE  PoolInv'
<1> USE DEF PoolInv
<1>1. /\ ctx[c].pc = "idle" /\ phase[r] = "new" /\ AllocMsg(c, r, "idle")
      /\ bpages' = bpages /\ cores' = cores /\ free_bpages' = free_bpages
      /\ bpages_needed' = bpages_needed /\ waiting_for_bufs' = waiting_for_bufs
      /\ bufs' = bufs /\ pend' = pend
  BY DEF InitMessageIn
<1>2. bufs[r] = <<>> /\ ~pend[r]
  BY <1>1 DEF StepsInv, RpcInv
<1>3. /\ ctx' \in [Cores -> ContextType] /\ \A d \in Cores \ {c} : ctx'[d] = ctx[d]
      /\ ctx'[c].pc \in {"claim", "partial"} /\ ctx'[c].rpc = r
      /\ phase' = [phase EXCEPT ![r] = "alloc"]
      /\ CoreInv(c)'
  BY <1>1, <1>2, AllocMsgStep
<1>4. PoolTypeOK'
  BY <1>1, <1>3 DEF PoolTypeOK
<1>5. RpcInv(r)'
  BY <1>1, <1>2, <1>3, SMTT(60) DEF RpcInv, PoolTypeOK
<1>6. StepsInv'
  BY <1>1, <1>3, <1>5, CoreStep DEF PoolTypeOK
<1>7. WaitersVisible'
  BY <1>1, <1>3 DEF WaitersVisible, PoolTypeOK
<1> QED BY <1>1, <1>3, <1>4, <1>6, <1>7, SamePages, SameClaims DEF PoolTypeOK

\* The counts are numbers, and free_bpages is at most the number of bpages.
LEMMA FreeBound ==
  ASSUME PoolAssumptions, ctx \in [Cores -> ContextType], ctx' \in [Cores -> ContextType],
         NEW c \in Cores, \A d \in Cores \ {c} : ctx'[d] = ctx[d],
         free_bpages' \in Int, ClaimsCovered'
  PROVE  free_bpages' <= NumBpages
<1>1. Claimed' \in Nat /\ Overdrawn' \in Nat
  <2>1. Share(ctx'[c], "find") \in Nat /\ Share(ctx'[c], "unclaim") \in Nat
    BY Limits, SMTT(60) DEF Share, ContextType
  <2> QED BY <2>1, ClaimShare, SMTT(60)
<1>2. Uncounted' \in Nat
  <2>1. IsFiniteSet({x \in Rpcs : pend'[x]})
    BY FS_Subset DEF PoolAssumptions
  <2> QED BY <2>1, FS_CardinalityType DEF Uncounted
<1>3. Cardinality(FreePages') \in Nat /\ Cardinality(FreePages') <= NumBpages /\ NumBpages \in Nat
  <2>1. IsFiniteSet(Bpages) /\ FreePages' \in SUBSET Bpages
    BY DEF PoolAssumptions, FreePages
  <2>2. IsFiniteSet(FreePages') /\ Cardinality(FreePages') <= Cardinality(Bpages)
    BY ONLY <2>1, FS_Subset, SMTT(60)
  <2> QED BY <2>1, <2>2, FS_CardinalityType DEF NumBpages
<1> QED BY <1>1, <1>2, <1>3, SMTT(60) DEF ClaimsCovered

\* Bpages without references, and releases that are not counted, are numbers.
LEMMA Counts ==
  ASSUME PoolAssumptions
  PROVE  Cardinality(FreePages) \in Nat /\ Uncounted \in Nat
<1>1. IsFiniteSet(FreePages)
  BY FS_Subset DEF PoolAssumptions, FreePages
<1>2. IsFiniteSet({x \in Rpcs : pend[x]})
  BY FS_Subset DEF PoolAssumptions
<1> QED BY <1>1, <1>2, FS_CardinalityType DEF Uncounted

\* Only pc of core c changes.
LEMMA PcStep ==
  ASSUME PoolTypeOK, NEW c \in Cores, NEW pc \in AllocPcs \cup {"idle", "check", "check_lock"},
         ctx' = [ctx EXCEPT ![c].pc = pc]
  PROVE  /\ ctx' \in [Cores -> ContextType] /\ \A d \in Cores \ {c} : ctx'[d] = ctx[d]
         /\ ctx[c] \in ContextType
         /\ ctx'[c].pc = pc /\ ctx'[c].rpc = ctx[c].rpc /\ ctx'[c].left = ctx[c].left
         /\ ctx'[c].set_owner = ctx[c].set_owner /\ ctx'[c].ret = ctx[c].ret
<1>1. ctx[c] \in ContextType
  BY DEF PoolTypeOK
<1>2. PICK k : k = [ctx[c] EXCEPT !.pc = pc]
  OBVIOUS
<1>3. /\ k \in ContextType /\ k.pc = pc /\ k.rpc = ctx[c].rpc /\ k.left = ctx[c].left
      /\ k.set_owner = ctx[c].set_owner /\ k.ret = ctx[c].ret
  BY <1>1, <1>2 DEF ContextType
<1>4. ctx' = [ctx EXCEPT ![c] = k]
  BY <1>2
<1> QED BY <1>1, <1>3, <1>4 DEF PoolTypeOK

\* homa_pool_get_pages subtracts.
LEMMA ClaimInv ==
  ASSUME PoolAssumptions, PoolInv, NEW c \in Cores, Claim(c)
  PROVE  PoolInv'
<1> USE DEF PoolInv
<1> DEFINE pc == IF free_bpages - ctx[c].left < 0 THEN "unclaim" ELSE "find"
           r == ctx[c].rpc
<1>1. /\ ctx[c].pc = "claim" /\ free_bpages' = free_bpages - ctx[c].left
      /\ ctx' = [ctx EXCEPT ![c].pc = pc]
      /\ bpages' = bpages /\ cores' = cores /\ bpages_needed' = bpages_needed
      /\ waiting_for_bufs' = waiting_for_bufs /\ phase' = phase /\ bufs' = bufs /\ pend' = pend
  BY DEF Claim
<1>2. pc \in {"unclaim", "find"}
  OBVIOUS
<1>3. /\ ctx' \in [Cores -> ContextType] /\ \A d \in Cores \ {c} : ctx'[d] = ctx[d]
      /\ ctx[c] \in ContextType
      /\ ctx'[c].pc = pc /\ ctx'[c].rpc = r /\ ctx'[c].left = ctx[c].left
      /\ ctx'[c].set_owner = ctx[c].set_owner /\ ctx'[c].ret = ctx[c].ret
  <2> HIDE DEF pc
  <2>1. pc \in AllocPcs \cup {"idle", "check", "check_lock"}
    BY <1>2 DEF AllocPcs
  <2> QED BY <1>1, <2>1, PcStep
<1>4. CoreInv(c) /\ r \in Rpcs /\ ctx[c].left \in 1 .. HOMA_MAX_MESSAGE_LENGTH
  BY <1>1 DEF StepsInv, CoreInv, Allocating, AllocPcs
<1>5. CoreInv(c)'
  BY <1>1, <1>2, <1>3, <1>4, SMTT(60) DEF CoreInv, Allocating, AllocPcs
<1>6. RpcInv(r)'
  BY <1>1, <1>4, SMTT(60) DEF StepsInv, RpcInv
<1>7. StepsInv'
  BY <1>1, <1>2, <1>3, <1>4, <1>5, <1>6, CoreStep DEF AllocPcs
<1>8. ClaimsCovered'
  <2>0. Share(ctx[c], "find") = 0 /\ Share(ctx[c], "unclaim") = 0 /\ ctx \in [Cores -> ContextType]
    BY <1>1 DEF Share, PoolTypeOK
  <2>1. PICK m \in Nat : /\ Claimed = m + Share(ctx[c], "find")
                         /\ Claimed' = m + Share(ctx'[c], "find")
    BY ONLY <1>3, <2>0, PoolAssumptions, ClaimShare, SMTT(60)
  <2>2. PICK n \in Nat : /\ Overdrawn = n + Share(ctx[c], "unclaim")
                         /\ Overdrawn' = n + Share(ctx'[c], "unclaim")
    BY ONLY <1>3, <2>0, PoolAssumptions, ClaimShare, SMTT(60)
  <2>3. Uncounted' = Uncounted /\ FreePages' = FreePages
    BY <1>1 DEF Uncounted, FreePages
  <2>4. Uncounted \in Nat /\ Cardinality(FreePages) \in Nat
    BY Counts
  <2>5. free_bpages \in Int /\ ctx[c].left \in Nat
    BY <1>4, Limits, SMTT(60) DEF PoolTypeOK
  <2>6. CASE free_bpages - ctx[c].left < 0
    <3>1. Claimed' = m /\ Overdrawn' = n + ctx[c].left
      BY <1>3, <2>1, <2>2, <2>6, SMTT(60) DEF Share
    <3> QED BY <1>1, <2>0, <2>1, <2>2, <2>3, <2>4, <2>5, <2>6, <3>1, SMTT(60) DEF ClaimsCovered
  <2>7. CASE free_bpages - ctx[c].left >= 0
    <3>1. Claimed' = m + ctx[c].left /\ Overdrawn' = n
      BY <1>3, <2>1, <2>2, <2>5, <2>7, SMTT(60) DEF Share
    <3> QED BY <1>1, <2>0, <2>1, <2>2, <2>3, <2>4, <2>5, <2>7, <3>1, SMTT(60) DEF ClaimsCovered
  <2> QED BY <2>5, <2>6, <2>7, SMTT(60)
<1>9. PoolTypeOK'
  <2>1. free_bpages' \in Int
    BY <1>1, <1>4, Limits, SMTT(60) DEF PoolTypeOK
  <2> QED BY <1>1, <1>3, <1>8, <2>1, FreeBound DEF PoolTypeOK
<1>10. WaitersVisible'
  BY <1>1 DEF WaitersVisible
<1> QED BY <1>1, <1>7, <1>8, <1>9, <1>10, SamePages

\* homa_pool_get_pages fails.
LEMMA UnclaimInv ==
  ASSUME PoolAssumptions, PoolInv, NEW c \in Cores, Unclaim(c)
  PROVE  PoolInv'
<1> USE DEF PoolInv
<1> DEFINE pc == IF ctx[c].set_owner THEN "undo" ELSE "queue"
           r == ctx[c].rpc
<1>1. /\ ctx[c].pc = "unclaim" /\ free_bpages' = free_bpages + ctx[c].left
      /\ ctx' = [ctx EXCEPT ![c].pc = pc]
      /\ phase' = IF ctx[c].set_owner THEN [phase EXCEPT ![r] = "undo"] ELSE phase
      /\ bpages' = bpages /\ cores' = cores /\ bpages_needed' = bpages_needed
      /\ waiting_for_bufs' = waiting_for_bufs /\ bufs' = bufs /\ pend' = pend
  BY DEF Unclaim
<1>2. pc \in {"undo", "queue"}
  OBVIOUS
<1>3. /\ ctx' \in [Cores -> ContextType] /\ \A d \in Cores \ {c} : ctx'[d] = ctx[d]
      /\ ctx[c] \in ContextType
      /\ ctx'[c].pc = pc /\ ctx'[c].rpc = r /\ ctx'[c].left = ctx[c].left
      /\ ctx'[c].set_owner = ctx[c].set_owner /\ ctx'[c].ret = ctx[c].ret
  <2> HIDE DEF pc
  <2>1. pc \in AllocPcs \cup {"idle", "check", "check_lock"}
    BY <1>2 DEF AllocPcs
  <2> QED BY <1>1, <2>1, PcStep
<1>4. /\ CoreInv(c) /\ r \in Rpcs /\ ctx[c].left \in 1 .. HOMA_MAX_MESSAGE_LENGTH
      /\ phase[r] = "alloc" /\ RpcInv(r)
  BY <1>1 DEF StepsInv, CoreInv, Allocating, AllocPcs
<1>5. /\ phase' \in [Rpcs -> {"new", "alloc", "held", "undo", "waiting", "releasing", "done"}]
      /\ \A q \in Rpcs \ {r} : phase'[q] = phase[q]
      /\ phase'[r] = IF ctx[c].set_owner THEN "undo" ELSE "alloc"
  BY <1>1, <1>4 DEF PoolTypeOK
<1>6. CoreInv(c)'
  BY <1>1, <1>2, <1>3, <1>4, <1>5 DEF CoreInv, Allocating, AllocPcs
<1>7. RpcInv(r)'
  BY <1>1, <1>4, <1>5, SMTT(60) DEF RpcInv
<1>8. StepsInv'
  BY <1>1, <1>2, <1>3, <1>4, <1>5, <1>6, <1>7, CoreStep DEF AllocPcs
<1>9. ClaimsCovered'
  <2>1. ctx \in [Cores -> ContextType]
    BY DEF PoolTypeOK
  <2>2. PICK m \in Nat : /\ Claimed = m + Share(ctx[c], "find")
                         /\ Claimed' = m + Share(ctx'[c], "find")
    BY ONLY <1>3, <2>1, PoolAssumptions, ClaimShare, SMTT(60)
  <2>3. PICK n \in Nat : /\ Overdrawn = n + Share(ctx[c], "unclaim")
                         /\ Overdrawn' = n + Share(ctx'[c], "unclaim")
    BY ONLY <1>3, <2>1, PoolAssumptions, ClaimShare, SMTT(60)
  <2>4. /\ Share(ctx[c], "find") = 0 /\ Share(ctx[c], "unclaim") = ctx[c].left
        /\ Share(ctx'[c], "find") = 0 /\ Share(ctx'[c], "unclaim") = 0
    BY <1>1, <1>2, <1>3 DEF Share
  <2>5. Uncounted' = Uncounted /\ FreePages' = FreePages
    BY <1>1 DEF Uncounted, FreePages
  <2>6. Uncounted \in Nat /\ Cardinality(FreePages) \in Nat
    BY Counts
  <2>7. free_bpages \in Int /\ ctx[c].left \in Nat
    BY <1>4, Limits, SMTT(60) DEF PoolTypeOK
  <2> QED BY <1>1, <2>2, <2>3, <2>4, <2>5, <2>6, <2>7, SMTT(60) DEF ClaimsCovered
<1>10. PoolTypeOK'
  <2>1. free_bpages' \in Int
    BY <1>1, <1>4, Limits, SMTT(60) DEF PoolTypeOK
  <2> QED BY <1>1, <1>3, <1>5, <1>9, <2>1, FreeBound DEF PoolTypeOK
<1>11. WaitersVisible'
  BY <1>1, <1>4, <1>5, SMTT(60) DEF WaitersVisible
<1> QED BY <1>1, <1>8, <1>9, <1>10, <1>11, SamePages

\* Core c leaves homa_pool_alloc_msg.
LEMMA IdleStep ==
  ASSUME PoolTypeOK, NEW c \in Cores, ctx' = [ctx EXCEPT ![c] = [Idle EXCEPT !.pc = ctx[c].ret]]
  PROVE  /\ ctx' \in [Cores -> ContextType] /\ \A d \in Cores \ {c} : ctx'[d] = ctx[d]
         /\ ctx'[c].pc \in {"idle", "check"}
<1>1. ctx[c].ret \in {"idle", "check"}
  BY DEF PoolTypeOK, ContextType
<1>2. PICK k : k = [Idle EXCEPT !.pc = ctx[c].ret]
  OBVIOUS
<1>3. k = [pc |-> ctx[c].ret, rpc |-> NoRpc, left |-> 0, set_owner |-> FALSE, ret |-> "idle"]
  BY <1>2 DEF Idle
<1>4. k \in ContextType /\ k.pc \in {"idle", "check"}
  BY <1>1, <1>3, Limits, SMTT(60) DEF ContextType
<1>5. ctx' = [ctx EXCEPT ![c] = k]
  BY <1>2
<1> QED BY <1>4, <1>5 DEF PoolTypeOK

\* All buffers are allocated.
LEMMA AllocDoneInv ==
  ASSUME PoolAssumptions, PoolInv, NEW c \in Cores, AllocDone(c)
  PROVE  PoolInv'
<1> USE DEF PoolInv
<1>0. PICK r \in Rpcs : r = ctx[c].rpc
  BY DEF AllocDone, StepsInv, CoreInv, Allocating, AllocPcs
<1>1. /\ ctx[c].pc = "success" /\ phase' = [phase EXCEPT ![r] = "held"]
      /\ ctx' = [ctx EXCEPT ![c] = [Idle EXCEPT !.pc = ctx[c].ret]]
      /\ bpages' = bpages /\ cores' = cores /\ bpages_needed' = bpages_needed
      /\ free_bpages' = free_bpages
      /\ waiting_for_bufs' = waiting_for_bufs /\ bufs' = bufs /\ pend' = pend
  BY <1>0 DEF AllocDone
<1>2. /\ CoreInv(c) /\ phase[r] = "alloc" /\ RpcInv(r)
      /\ Len(bufs[r]) = WholeLen(r)
  BY <1>0, <1>1 DEF StepsInv, CoreInv, Allocating, AllocPcs
<1>3. /\ ctx' \in [Cores -> ContextType] /\ \A d \in Cores \ {c} : ctx'[d] = ctx[d]
      /\ ctx'[c].pc \in {"idle", "check"}
  BY <1>1, IdleStep
<1>4. CoreInv(c)'
  BY <1>3 DEF CoreInv, Allocating, AllocPcs
<1>5. RpcInv(r)'
  <2>1. phase'[r] = "held" /\ WholeLen(r)' = WholeLen(r) /\ ~pend[r]
    BY <1>1, <1>2 DEF PoolTypeOK, WholeLen, FullPages, Partial, RpcInv
  <2> QED BY <1>1, <1>2, <2>1 DEF RpcInv
<1>6. StepsInv'
  BY <1>0, <1>1, <1>2, <1>3, <1>4, <1>5, CoreStep DEF AllocPcs, PoolTypeOK
<1>7. PoolTypeOK'
  BY <1>1, <1>2, <1>3 DEF PoolTypeOK
<1>8. WaitersVisible'
  BY <1>1, <1>2 DEF WaitersVisible, PoolTypeOK
<1>9. ClaimsCovered'
  BY <1>1, <1>3, SameClaims DEF PoolTypeOK
<1> QED BY <1>1, <1>6, <1>7, <1>8, <1>9, SamePages

\* The full bpages are released; the RPC will be queued.
LEMMA UndoDoneInv ==
  ASSUME PoolAssumptions, PoolInv, NEW c \in Cores, ctx[c].pc = "undo",
         bufs[ctx[c].rpc] = <<>>, ~pend[ctx[c].rpc], ctx' = [ctx EXCEPT ![c].pc = "queue"],
         phase' = [phase EXCEPT ![ctx[c].rpc] = "alloc"],
         UNCHANGED <<bpages, cores, free_bpages, bpages_needed, waiting_for_bufs, bufs, pend>>
  PROVE  PoolInv'
<1> USE DEF PoolInv
<1> DEFINE r == ctx[c].rpc
<1>1. /\ bpages' = bpages /\ cores' = cores /\ bpages_needed' = bpages_needed
      /\ free_bpages' = free_bpages
      /\ waiting_for_bufs' = waiting_for_bufs /\ bufs' = bufs /\ pend' = pend
  OBVIOUS
<1>2. CoreInv(c) /\ r \in Rpcs /\ phase[r] = "undo" /\ RpcInv(r)
  BY DEF StepsInv, CoreInv, Allocating, AllocPcs
<1>3. /\ ctx' \in [Cores -> ContextType] /\ \A d \in Cores \ {c} : ctx'[d] = ctx[d]
      /\ ctx'[c].pc = "queue" /\ ctx'[c].rpc = r
  BY PcStep DEF AllocPcs
<1>4. phase'[r] = "alloc"
  BY <1>2 DEF PoolTypeOK
<1>5. CoreInv(c)'
  BY <1>1, <1>2, <1>3, <1>4, SMTT(60) DEF CoreInv, Allocating, AllocPcs
<1>6. RpcInv(r)'
  BY <1>1, <1>4, SMTT(60) DEF RpcInv
<1>7. StepsInv'
  BY <1>1, <1>2, <1>3, <1>5, <1>6, CoreStep DEF AllocPcs, PoolTypeOK
<1>8. PoolTypeOK'
  BY <1>1, <1>2, <1>3 DEF PoolTypeOK
<1>9. WaitersVisible'
  BY <1>1, <1>2 DEF WaitersVisible, PoolTypeOK
<1>10. ClaimsCovered'
  BY <1>1, <1>3, SameClaims DEF PoolTypeOK
<1> QED BY <1>1, <1>7, <1>8, <1>9, <1>10, SamePages

\* A core looks whether RPCs wait.
LEMMA CheckInv ==
  ASSUME PoolAssumptions, PoolInv, NEW c \in Cores, homa_pool_check_waiting(c) \/ CheckFree(c)
  PROVE  PoolInv'
<1> USE DEF PoolInv
<1>1. PICK pc \in {"idle", "check", "check_lock"} : ctx' = [ctx EXCEPT ![c].pc = pc]
  BY DEF homa_pool_check_waiting, CheckFree
<1>2. /\ bpages' = bpages /\ cores' = cores /\ bpages_needed' = bpages_needed
      /\ free_bpages' = free_bpages /\ phase' = phase
      /\ waiting_for_bufs' = waiting_for_bufs /\ bufs' = bufs /\ pend' = pend
      /\ ctx[c].pc \in {"idle", "check"}
  BY DEF homa_pool_check_waiting, CheckFree
<1>3. /\ ctx' \in [Cores -> ContextType] /\ \A d \in Cores \ {c} : ctx'[d] = ctx[d]
      /\ ctx'[c].pc = pc
  BY <1>1, PcStep
<1>4. StepsInv'
  <2>1. ASSUME NEW d \in Cores  PROVE  CoreInv(d)'
    <3>1. CASE d = c
      BY <1>3, <3>1 DEF CoreInv, Allocating, AllocPcs
    <3>2. CASE d # c
      <4>1. CoreInv(d)
        BY DEF StepsInv
      <4> QED BY ONLY <1>2, <1>3, <3>2, <4>1, SameCore, d \in Cores, SMTT(60)
    <3> QED BY <3>1, <3>2
  <2>2. OneCore'
    BY <1>2, <1>3, SMTT(60) DEF StepsInv, OneCore, Allocating, AllocPcs
  <2>3. ASSUME NEW r \in Rpcs  PROVE  RpcInv(r)'
    BY <1>2 DEF StepsInv, RpcInv
  <2> QED BY <2>1, <2>2, <2>3 DEF StepsInv
<1>5. PoolTypeOK'
  BY <1>2, <1>3 DEF PoolTypeOK
<1>6. WaitersVisible'
  BY <1>2 DEF WaitersVisible
<1>7. ClaimsCovered'
  BY <1>2, <1>3, SameClaims DEF PoolTypeOK
<1> QED BY <1>2, <1>4, <1>5, <1>6, <1>7, SamePages

-----------------------------------------------------------------------------
(* The queue of waiting RPCs                                               *)

\* Each RPC once, shortest message first.
Queue(q) == \A i, j \in DOMAIN q : i < j => q[i] # q[j] /\ MsgLen[q[i]] <= MsgLen[q[j]]

\* An RPC that is not in the queue is inserted at its place.
LEMMA InsertQueue ==
  ASSUME PoolAssumptions, NEW q \in Seq(Rpcs), Queue(q), NEW r \in Rpcs, r \notin Range(q)
  PROVE  /\ InsertWaiting(q, r) \in Seq(Rpcs) /\ InsertWaiting(q, r) # <<>>
         /\ Range(InsertWaiting(q, r)) = Range(q) \cup {r}
         /\ Queue(InsertWaiting(q, r))
<1> DEFINE longer == {i \in DOMAIN q : MsgLen[q[i]] > MsgLen[r]}
           pos == IF longer = {} THEN Len(q) + 1
                  ELSE CHOOSE i \in longer : \A j \in longer : i <= j
<1>1. PICK n \in Nat : n = Len(q) /\ DOMAIN q = 1 .. n
  BY SMTT(60)
<1>2. \A i \in 1 .. n : q[i] \in Rpcs /\ MsgLen[q[i]] \in Nat
  <2>1. \A x \in Rpcs : MsgLen[x] \in Nat
    BY MessageSize
  <2> QED BY <1>1, <2>1, SMTT(60)
<1>3. MsgLen[r] \in Nat
  BY MessageSize
<1>4. PICK p \in 1 .. n + 1 : /\ InsertWaiting(q, r) = list_insert(q, p, r)
                              /\ \A i \in 1 .. n : i < p => MsgLen[q[i]] <= MsgLen[r]
                              /\ \A i \in 1 .. n : i >= p => MsgLen[r] <= MsgLen[q[i]]
  <2>1. InsertWaiting(q, r) = list_insert(q, pos, r)
    BY DEF InsertWaiting
  <2>2. CASE longer = {}
    <3>1. pos = n + 1
      BY <1>1, <2>2
    <3>2. \A i \in 1 .. n : MsgLen[q[i]] <= MsgLen[r]
      BY <1>1, <1>2, <1>3, <2>2, SMTT(60)
    <3> HIDE DEF pos, longer
    <3> QED BY <1>1, <2>1, <3>1, <3>2, SMTT(60)
  <2>3. CASE longer # {}
    <3>1. longer \in SUBSET Nat
      BY <1>1, SMTT(60)
    <3>2. \E i \in longer : \A j \in longer : i <= j
      BY ONLY <2>3, <3>1, SmallestPosition, ZenonT(60)
    <3>3. pos = CHOOSE i \in longer : \A j \in longer : i <= j
      BY <2>3
    <3>4. pos \in longer /\ \A j \in longer : pos <= j
      <4> HIDE DEF longer, pos
      <4> QED BY <3>2, <3>3
    <3>5. /\ pos \in 1 .. n /\ MsgLen[q[pos]] > MsgLen[r]
          /\ \A i \in 1 .. n : MsgLen[q[i]] > MsgLen[r] => pos <= i
      <4> HIDE DEF pos
      <4> QED BY <1>1, <3>4
    <3> HIDE DEF pos, longer
    <3>6. \A i \in 1 .. n : i < pos => MsgLen[q[i]] <= MsgLen[r]
      BY <1>2, <1>3, <3>5, SMTT(60)
    <3>7. \A i \in 1 .. n : i >= pos => MsgLen[r] <= MsgLen[q[i]]
      BY <1>1, <1>2, <1>3, <3>5, SMTT(60) DEF Queue
    <3> QED BY <1>1, <2>1, <3>5, <3>6, <3>7, SMTT(60)
  <2> QED BY <2>2, <2>3
<1> HIDE DEF longer, pos
<1>5. PICK t \in Seq(Rpcs) : t = list_insert(q, p, r)
  BY <1>1, InsertFacts
<1>6. /\ DOMAIN t = 1 .. n + 1
      /\ \A i \in 1 .. n + 1 : t[i] = IF i < p THEN q[i] ELSE IF i = p THEN r ELSE q[i - 1]
  <2>1. /\ Len(list_insert(q, p, r)) = Len(q) + 1
        /\ \A i \in 1 .. Len(q) + 1 :
              list_insert(q, p, r)[i] = IF i < p THEN q[i] ELSE IF i = p THEN r ELSE q[i - 1]
    BY <1>1, InsertFacts, SMTT(60)
  <2>2. Len(t) = n + 1
    BY ONLY <1>1, <1>5, <2>1, SMTT(60)
  <2>3. DOMAIN t = 1 .. n + 1
    BY ONLY <2>2, t \in Seq(Rpcs), SMTT(60)
  <2> QED BY ONLY <1>1, <1>5, <2>1, <2>3, SMTT(60)
<1>7. Range(t) = Range(q) \cup {r}
  BY <1>1, <1>5, InsertSet, SMTT(60)
<1>8. \A i \in 1 .. n : q[i] # r
  BY <1>1 DEF Range
<1>9. Queue(t)
  <2> SUFFICES ASSUME NEW i \in 1 .. n + 1, NEW j \in 1 .. n + 1, i < j
               PROVE  t[i] # t[j] /\ MsgLen[t[i]] <= MsgLen[t[j]]
    BY <1>6 DEF Queue
  <2>1. \A x, y \in 1 .. n : x < y => q[x] # q[y] /\ MsgLen[q[x]] <= MsgLen[q[y]]
    BY <1>1 DEF Queue
  <2>2. CASE j < p
    <3>1. t[i] = q[i] /\ t[j] = q[j] /\ i \in 1 .. n /\ j \in 1 .. n
      BY <1>6, <2>2, SMTT(60)
    <3> QED BY <2>1, <3>1
  <2>3. CASE j = p
    <3>1. t[i] = q[i] /\ t[j] = r /\ i \in 1 .. n /\ i < p
      BY <1>6, <2>3, SMTT(60)
    <3> QED BY <1>4, <1>8, <3>1
  <2>4. CASE i < p /\ j > p
    <3>1. t[i] = q[i] /\ t[j] = q[j - 1] /\ i \in 1 .. n /\ j - 1 \in 1 .. n /\ i < j - 1
      BY <1>6, <2>4, SMTT(60)
    <3> QED BY <2>1, <3>1
  <2>5. CASE i = p
    <3>1. t[i] = r /\ t[j] = q[j - 1] /\ j - 1 \in 1 .. n /\ j - 1 >= p
      BY <1>6, <2>5, SMTT(60)
    <3> QED BY <1>4, <1>8, <3>1
  <2>6. CASE i > p
    <3>1. t[i] = q[i - 1] /\ t[j] = q[j - 1] /\ i - 1 \in 1 .. n /\ j - 1 \in 1 .. n /\ i - 1 < j - 1
      BY <1>6, <2>6, SMTT(60)
    <3> QED BY <2>1, <3>1
  <2> QED BY <2>2, <2>3, <2>4, <2>5, <2>6, SMTT(60)
<1>10. t # <<>>
  BY <1>6, SMTT(60)
<1> QED BY <1>4, <1>5, <1>7, <1>9, <1>10

\* Any RPC leaves the queue.
LEMMA LeaveQueue ==
  ASSUME PoolAssumptions, NEW q \in Seq(Rpcs), Queue(q), NEW r \in Rpcs
  PROVE  /\ list_del(q, r) \in Seq(Rpcs)
         /\ Range(list_del(q, r)) = Range(q) \ {r}
         /\ Queue(list_del(q, r))
         /\ list_del(q, r) # <<>> =>
               q # <<>> /\ PagesNeeded(Head(q)) <= PagesNeeded(Head(list_del(q, r)))
<1>1. PICK n \in Nat : n = Len(q) /\ DOMAIN q = 1 .. n
  BY SMTT(60)
<1>2. NoRepeats(q)
  BY <1>1, SMTT(60) DEF NoRepeats, Queue
<1>3. PICK t \in Seq(Rpcs) : t = list_del(q, r)
  BY RemoveFirstSet
<1>4. Range(t) = Range(q) \ {r}
  BY ONLY <1>2, <1>3, RemoveFirstSet, q \in Seq(Rpcs), SMTT(60)
<1>5. CASE r \notin Range(q)
  <2>1. t = q
    BY ONLY <1>3, <1>5, RemoveFirstSet, q \in Seq(Rpcs), SMTT(60)
  <2>2. q # <<>> => Head(q) \in Rpcs
    BY SMTT(60)
  <2>3. q # <<>> => PagesNeeded(Head(q)) <= PagesNeeded(Head(q))
    <3>1. ASSUME NEW x \in Rpcs  PROVE  PagesNeeded(x) <= PagesNeeded(x)
      <4>1. MsgLen[x] <= MsgLen[x]
        BY MessageSize, SMTT(60)
      <4> QED BY <4>1, NeededMonotone
    <3> QED BY <2>2, <3>1
  <2> QED BY <1>3, <1>4, <2>1, <2>3
<1>6. CASE r \in Range(q)
  <2>1. PICK k \in 1 .. Len(q) : q[k] = r
    BY <1>6, SMTT(60) DEF Range
  <2>2. PICK p \in 1 .. Len(q) : t = list_del_at(q, p)
    BY <1>3, <2>1, RemoveFirstAt
  <2>3. /\ DOMAIN t = 1 .. n - 1 /\ p \in 1 .. n
        /\ \A i \in 1 .. n - 1 : t[i] = IF i < p THEN q[i] ELSE q[i + 1]
    <3>1. /\ Len(list_del_at(q, p)) = Len(q) - 1
          /\ \A i \in 1 .. Len(q) - 1 : list_del_at(q, p)[i] = IF i < p THEN q[i] ELSE q[i + 1]
      BY RemoveAtFacts
    <3>2. DOMAIN t = 1 .. n - 1
      BY <1>1, <2>2, <3>1, SMTT(60)
    <3> QED BY ONLY <1>1, <2>2, <3>1, <3>2, p \in 1 .. Len(q), SMTT(60)
  <2> DEFINE at(i) == IF i < p THEN i ELSE i + 1
  <2>4. \A i \in 1 .. n - 1 : at(i) \in 1 .. n /\ t[i] = q[at(i)]
    BY <2>3, SMTT(60)
  <2>5. \A i, j \in 1 .. n - 1 : i < j => at(i) < at(j)
    BY SMTT(60)
  <2>6. \A i \in 1 .. n - 1 : 1 <= at(i)
    BY SMTT(60)
  <2> HIDE DEF at
  <2>7. Queue(t)
    <3> SUFFICES ASSUME NEW i \in 1 .. n - 1, NEW j \in 1 .. n - 1, i < j
                 PROVE  t[i] # t[j] /\ MsgLen[t[i]] <= MsgLen[t[j]]
      BY <2>3 DEF Queue
    <3>1. at(i) \in DOMAIN q /\ at(j) \in DOMAIN q /\ at(i) < at(j)
      BY <1>1, <2>4, <2>5
    <3> QED BY <2>4, <3>1 DEF Queue
  <2>8. ASSUME t # <<>>  PROVE  q # <<>> /\ PagesNeeded(Head(q)) <= PagesNeeded(Head(t))
    <3>1. 1 \in 1 .. n - 1 /\ Head(t) = t[1]
      BY <1>1, <2>3, <2>8, SMTT(60)
    <3>2. q # <<>> /\ Head(q) = q[1] /\ 1 \in 1 .. n
      BY <1>1, <3>1, SMTT(60)
    <3>3. q[1] \in Rpcs /\ q[at(1)] \in Rpcs /\ MsgLen[q[1]] <= MsgLen[q[at(1)]]
      <4>1. at(1) \in 1 .. n /\ (at(1) = 1 \/ at(1) > 1)
        BY <2>4, <2>6, <3>1, SMTT(60)
      <4>2. q[1] \in Rpcs /\ q[at(1)] \in Rpcs
        BY <1>1, <3>2, <4>1, SMTT(60)
      <4>3. MsgLen[q[1]] \in Nat
        BY <4>2, MessageSize
      <4> QED BY <1>1, <3>2, <4>1, <4>2, <4>3, SMTT(60) DEF Queue
    <3>4. PagesNeeded(q[1]) <= PagesNeeded(q[at(1)])
      BY <3>3, NeededMonotone
    <3> QED BY <2>4, <3>1, <3>2, <3>4
  <2> QED BY <1>3, <1>4, <2>7, <2>8
<1> QED BY <1>5, <1>6

\* The first RPC leaves the queue.
LEMMA TailQueue ==
  ASSUME PoolAssumptions, NEW q \in Seq(Rpcs), Queue(q), q # <<>>
  PROVE  /\ Head(q) \in Rpcs /\ Head(q) \in Range(q)
         /\ Tail(q) \in Seq(Rpcs) /\ Range(Tail(q)) = Range(q) \ {Head(q)} /\ Queue(Tail(q))
<1>1. PICK n \in Nat \ {0} : n = Len(q) /\ DOMAIN q = 1 .. n
  BY SMTT(60)
<1>2. NoRepeats(q)
  BY <1>1, SMTT(60) DEF NoRepeats, Queue
<1>3. /\ Head(q) \in Rpcs /\ Head(q) \in Range(q) /\ Tail(q) \in Seq(Rpcs)
      /\ Range(Tail(q)) = Range(q) \ {Head(q)}
  BY ONLY <1>2, TailSet, q \in Seq(Rpcs), q # <<>>, SMTT(60)
<1>4. PICK t \in Seq(Rpcs) : t = Tail(q)
  BY <1>3
<1>5. DOMAIN t = 1 .. n - 1 /\ \A i \in 1 .. n - 1 : t[i] = q[i + 1] /\ i + 1 \in 1 .. n
  BY <1>1, <1>4, SMTT(60)
<1>6. Queue(t)
  <2> SUFFICES ASSUME NEW i \in 1 .. n - 1, NEW j \in 1 .. n - 1, i < j
               PROVE  t[i] # t[j] /\ MsgLen[t[i]] <= MsgLen[t[j]]
    BY <1>5 DEF Queue
  <2>1. i + 1 \in DOMAIN q /\ j + 1 \in DOMAIN q /\ i + 1 < j + 1
    BY <1>1, <1>5, SMTT(60)
  <2> QED BY <1>5, <2>1 DEF Queue
<1> QED BY <1>3, <1>4, <1>6

\* No space: the RPC is queued.
LEMMA OutOfSpaceInv ==
  ASSUME PoolAssumptions, PoolInv, NEW c \in Cores, OutOfSpace(c)
  PROVE  PoolInv'
<1> USE DEF PoolInv
<1>0. PICK r \in Rpcs : r = ctx[c].rpc
  BY DEF OutOfSpace, StepsInv, CoreInv, Allocating, AllocPcs
<1>1. /\ ctx[c].pc = "queue" /\ phase' = [phase EXCEPT ![r] = "waiting"]
      /\ waiting_for_bufs' = InsertWaiting(waiting_for_bufs, r)
      /\ bpages_needed' = PagesNeeded(Head(waiting_for_bufs'))
      /\ ctx' = [ctx EXCEPT ![c] = [Idle EXCEPT !.pc = ctx[c].ret]]
      /\ bpages' = bpages /\ cores' = cores /\ free_bpages' = free_bpages
      /\ bufs' = bufs /\ pend' = pend
  BY <1>0 DEF OutOfSpace, set_bpages_needed
<1>2. CoreInv(c) /\ phase[r] = "alloc" /\ RpcInv(r) /\ Len(bufs[r]) = 0 /\ bufs[r] \in Seq(BufferType)
  BY <1>0, <1>1 DEF StepsInv, CoreInv, Allocating, AllocPcs, PoolTypeOK
<1>3. /\ ctx' \in [Cores -> ContextType] /\ \A d \in Cores \ {c} : ctx'[d] = ctx[d]
      /\ ctx'[c].pc \in {"idle", "check"}
  BY <1>1, IdleStep
<1>4. CoreInv(c)'
  BY <1>3 DEF CoreInv, Allocating, AllocPcs
<1>5. RpcInv(r)'
  <2>1. phase'[r] = "waiting" /\ ~pend[r] /\ bufs[r] = <<>>
    BY <1>1, <1>2, SMTT(60) DEF PoolTypeOK, RpcInv
  <2> QED BY <1>1, <2>1 DEF RpcInv
<1>6. StepsInv'
  BY <1>0, <1>1, <1>2, <1>3, <1>4, <1>5, CoreStep DEF AllocPcs, PoolTypeOK
<1>7. /\ waiting_for_bufs \in Seq(Rpcs) /\ Queue(waiting_for_bufs)
      /\ r \notin Range(waiting_for_bufs)
  BY <1>2 DEF WaitersVisible, Queue, PoolTypeOK
<1>8. /\ waiting_for_bufs' \in Seq(Rpcs) /\ waiting_for_bufs' # <<>>
      /\ Range(waiting_for_bufs') = Range(waiting_for_bufs) \cup {r}
      /\ Queue(waiting_for_bufs')
  BY <1>1, <1>7, InsertQueue
<1>9. bpages_needed' \in Nat
  <2>1. Head(waiting_for_bufs') \in Rpcs
    BY <1>8, SMTT(60)
  <2> QED BY <1>1, <2>1, NeededMonotone, MessageSize, SMTT(60)
<1>10. PoolTypeOK'
  BY <1>1, <1>2, <1>3, <1>8, <1>9 DEF PoolTypeOK
<1>11. WaitersVisible'
  <2>1. Range(waiting_for_bufs') = {q \in Rpcs : phase'[q] = "waiting"}
    BY <1>1, <1>8 DEF WaitersVisible, PoolTypeOK
  <2>2. bpages_needed' <= PagesNeeded(Head(waiting_for_bufs'))
    BY <1>1, <1>9, SMTT(60)
  <2> QED BY <1>8, <2>1, <2>2 DEF WaitersVisible, Queue, PagesNeeded
<1>12. ClaimsCovered'
  BY <1>1, <1>3, SameClaims DEF PoolTypeOK
<1> QED BY <1>1, <1>6, <1>10, <1>11, <1>12, SamePages

\* A waiting RPC ends.
LEMMA RpcEndInv ==
  ASSUME PoolAssumptions, PoolInv, NEW r \in Rpcs, EndRpc(r)
  PROVE  PoolInv'
<1> USE DEF PoolInv
<1>1. /\ phase[r] = "waiting" /\ waiting_for_bufs' = list_del(waiting_for_bufs, r)
      /\ phase' = [phase EXCEPT ![r] = IF Recycle THEN "new" ELSE "done"]
      /\ bpages' = bpages /\ cores' = cores /\ free_bpages' = free_bpages /\ ctx' = ctx
      /\ bufs' = bufs /\ pend' = pend /\ bpages_needed' = bpages_needed
  BY DEF EndRpc
<1>2. phase'[r] \in {"new", "done"}
  BY <1>1 DEF PoolTypeOK
<1>3. RpcInv(r)'
  BY <1>1, <1>2 DEF RpcInv, StepsInv
<1>4. StepsInv'
  BY <1>1, <1>3, RpcStep DEF PoolTypeOK
<1>5. waiting_for_bufs \in Seq(Rpcs) /\ Queue(waiting_for_bufs)
  BY DEF WaitersVisible, Queue, PoolTypeOK
<1>6. /\ waiting_for_bufs' \in Seq(Rpcs)
      /\ Range(waiting_for_bufs') = Range(waiting_for_bufs) \ {r}
      /\ Queue(waiting_for_bufs')
      /\ waiting_for_bufs' # <<>> =>
            /\ waiting_for_bufs # <<>>
            /\ PagesNeeded(Head(waiting_for_bufs)) <= PagesNeeded(Head(waiting_for_bufs'))
  BY <1>1, <1>5, LeaveQueue
<1>7. PoolTypeOK'
  BY <1>1, <1>2, <1>6 DEF PoolTypeOK
<1>8. WaitersVisible'
  <2>1. Range(waiting_for_bufs') = {q \in Rpcs : phase'[q] = "waiting"}
    BY <1>1, <1>2, <1>6 DEF WaitersVisible, PoolTypeOK
  <2>2. ASSUME waiting_for_bufs' # <<>>  PROVE  bpages_needed' <= PagesNeeded(Head(waiting_for_bufs'))
    <3>1. Head(waiting_for_bufs) \in Rpcs /\ Head(waiting_for_bufs') \in Rpcs
      BY <1>5, <1>6, <2>2, SMTT(60)
    <3>2. PagesNeeded(Head(waiting_for_bufs)) \in Nat /\ PagesNeeded(Head(waiting_for_bufs')) \in Nat
      BY <3>1, NeededMonotone, MessageSize, SMTT(60)
    <3> QED BY <1>1, <1>6, <2>2, <3>2, SMTT(60) DEF WaitersVisible, PoolTypeOK
  <2> QED BY <1>6, <2>1, <2>2 DEF WaitersVisible, Queue, PagesNeeded
<1>9. ClaimsCovered'
  BY <1>1 DEF ClaimsCovered, Claimed, Overdrawn, Subtracted, Uncounted, FreePages
<1> QED BY <1>1, <1>4, <1>7, <1>8, <1>9, SamePages

\* homa_pool_check_waiting under the socket lock.
LEMMA CheckLockedInv ==
  ASSUME PoolAssumptions, PoolInv, NEW c \in Cores, CheckLocked(c)
  PROVE  PoolInv'
<1> USE DEF PoolInv
<1>1. /\ ctx[c].pc = "check_lock"
      /\ bpages' = bpages /\ cores' = cores /\ free_bpages' = free_bpages
      /\ bufs' = bufs /\ pend' = pend
  BY DEF CheckLocked
<1>2. CASE /\ waiting_for_bufs = <<>> /\ bpages_needed' = INT_MAX
           /\ ctx' = [ctx EXCEPT ![c] = Idle]
           /\ UNCHANGED <<waiting_for_bufs, phase>>
  <2>1. Idle \in ContextType /\ Idle.pc = "idle"
    BY Limits, SMTT(60) DEF Idle, ContextType
  <2>2. /\ ctx' \in [Cores -> ContextType] /\ \A d \in Cores \ {c} : ctx'[d] = ctx[d]
        /\ ctx'[c].pc = "idle"
    <3> HIDE DEF Idle
    <3> QED BY <1>2, <2>1 DEF PoolTypeOK
  <2>3. StepsInv'
    <3>1. ASSUME NEW d \in Cores  PROVE  CoreInv(d)'
      <4>1. CASE d = c
        BY <2>2, <4>1 DEF CoreInv, Allocating, AllocPcs
      <4>2. CASE d # c
        <5>1. CoreInv(d) /\ phase' = phase
          BY <1>2 DEF StepsInv
        <5> QED BY ONLY <1>1, <2>2, <4>2, <5>1, SameCore, d \in Cores, SMTT(60)
      <4> QED BY <4>1, <4>2
    <3>2. OneCore'
      BY <2>2 DEF StepsInv, OneCore, Allocating, AllocPcs
    <3>3. ASSUME NEW r \in Rpcs  PROVE  RpcInv(r)'
      BY <1>1, <1>2 DEF StepsInv, RpcInv
    <3> QED BY <3>1, <3>2, <3>3 DEF StepsInv
  <2>4. PoolTypeOK'
    BY <1>1, <1>2, <2>2, Limits DEF PoolTypeOK
  <2>5. WaitersVisible'
    BY <1>2, SMTT(60) DEF WaitersVisible
  <2>6. ClaimsCovered'
    BY <1>1, <2>2, SameClaims DEF PoolTypeOK
  <2> QED BY <1>1, <2>3, <2>4, <2>5, <2>6, SamePages
<1>3. CASE /\ waiting_for_bufs # <<>>
           /\ waiting_for_bufs' = Tail(waiting_for_bufs)
           /\ bpages_needed' = IF waiting_for_bufs' = <<>> THEN INT_MAX
                               ELSE set_bpages_needed(waiting_for_bufs')
           /\ AllocMsg(c, Head(waiting_for_bufs), "check")
  <2>1. waiting_for_bufs \in Seq(Rpcs) /\ Queue(waiting_for_bufs)
    BY DEF WaitersVisible, Queue, PoolTypeOK
  <2>2. PICK r \in Rpcs : r = Head(waiting_for_bufs)
    BY <1>3, <2>1, TailQueue
  <2>3. /\ waiting_for_bufs' \in Seq(Rpcs) /\ Queue(waiting_for_bufs')
        /\ r \in Range(waiting_for_bufs)
        /\ Range(waiting_for_bufs') = Range(waiting_for_bufs) \ {r}
    BY <1>3, <2>1, <2>2, TailQueue
  <2>4. phase[r] = "waiting" /\ bufs[r] = <<>> /\ ~pend[r]
    BY <2>3 DEF WaitersVisible, StepsInv, RpcInv
  <2>5. /\ ctx' \in [Cores -> ContextType] /\ \A d \in Cores \ {c} : ctx'[d] = ctx[d]
        /\ ctx'[c].pc \in {"claim", "partial"} /\ ctx'[c].rpc = r
        /\ phase' = [phase EXCEPT ![r] = "alloc"]
        /\ CoreInv(c)'
    BY <1>1, <1>3, <2>2, <2>4, AllocMsgStep
  <2>6. RpcInv(r)'
    BY <1>1, <2>4, <2>5, SMTT(60) DEF RpcInv, PoolTypeOK
  <2>7. StepsInv'
    BY <1>1, <2>4, <2>5, <2>6, CoreStep DEF PoolTypeOK
  <2>8. waiting_for_bufs' # <<>> => bpages_needed' = PagesNeeded(Head(waiting_for_bufs'))
    BY <1>3 DEF set_bpages_needed
  <2>9. bpages_needed' \in Nat
    <3>1. CASE waiting_for_bufs' = <<>>
      BY <1>3, <3>1, Limits
    <3>2. CASE waiting_for_bufs' # <<>>
      <4>1. PICK h \in Rpcs : h = Head(waiting_for_bufs')
        BY <2>3, <3>2, SMTT(60)
      <4>2. MsgLen[h] <= MsgLen[h]
        BY MessageSize, SMTT(60)
      <4>3. PagesNeeded(h) \in Nat
        BY <4>2, NeededMonotone
      <4> QED BY <2>8, <3>2, <4>1, <4>3
    <3> QED BY <3>1, <3>2
  <2>10. PoolTypeOK'
    BY <1>1, <2>3, <2>5, <2>9 DEF PoolTypeOK
  <2>11. WaitersVisible'
    <3>1. Range(waiting_for_bufs') = {q \in Rpcs : phase'[q] = "waiting"}
      BY <2>3, <2>5 DEF WaitersVisible, PoolTypeOK
    <3>2. waiting_for_bufs' # <<>> => bpages_needed' <= PagesNeeded(Head(waiting_for_bufs'))
      BY <2>8, <2>9, SMTT(60)
    <3> QED BY <2>3, <3>1, <3>2 DEF WaitersVisible, Queue, PagesNeeded
  <2>12. ClaimsCovered'
    BY <1>1, <2>5, SameClaims DEF PoolTypeOK
  <2> QED BY <1>1, <2>7, <2>10, <2>11, <2>12, SamePages
<1> QED BY <1>2, <1>3 DEF CheckLocked

\* The application begins to give a message's buffers back.
LEMMA StartReleaseInv ==
  ASSUME PoolAssumptions, PoolInv, NEW r \in Rpcs, StartRelease(r)
  PROVE  PoolInv'
<1> USE DEF PoolInv
<1>1. /\ phase[r] = "held" /\ phase' = [phase EXCEPT ![r] = "releasing"]
      /\ bpages' = bpages /\ cores' = cores /\ free_bpages' = free_bpages /\ ctx' = ctx
      /\ bufs' = bufs /\ pend' = pend /\ bpages_needed' = bpages_needed
      /\ waiting_for_bufs' = waiting_for_bufs
  BY DEF StartRelease
<1>2. phase'[r] = "releasing"
  BY <1>1 DEF PoolTypeOK
<1>3. RpcInv(r)'
  BY <1>2 DEF RpcInv
<1>4. StepsInv'
  BY <1>1, <1>3, RpcStep DEF PoolTypeOK
<1>5. PoolTypeOK'
  BY <1>1 DEF PoolTypeOK
<1>6. WaitersVisible'
  BY <1>1 DEF WaitersVisible, PoolTypeOK
<1>7. ClaimsCovered'
  BY <1>1 DEF ClaimsCovered, Claimed, Overdrawn, Subtracted, Uncounted, FreePages
<1> QED BY <1>1, <1>4, <1>5, <1>6, <1>7, SamePages

\* All buffers are given back.
LEMMA ReleaseDoneInv ==
  ASSUME PoolAssumptions, PoolInv, NEW r \in Rpcs, phase[r] = "releasing",
         bufs[r] = <<>>, ~pend[r], phase' = [phase EXCEPT ![r] = IF Recycle THEN "new" ELSE "done"],
         UNCHANGED <<bpages, cores, free_bpages, bpages_needed, waiting_for_bufs, ctx, bufs, pend>>
  PROVE  PoolInv'
<1> USE DEF PoolInv
<1>1. /\ bpages' = bpages /\ cores' = cores /\ free_bpages' = free_bpages /\ ctx' = ctx
      /\ bufs' = bufs /\ pend' = pend /\ bpages_needed' = bpages_needed
      /\ waiting_for_bufs' = waiting_for_bufs
  OBVIOUS
<1>2. phase'[r] \in {"new", "done"}
  BY DEF PoolTypeOK
<1>3. RpcInv(r)'
  BY <1>1, <1>2 DEF RpcInv
<1>4. StepsInv'
  BY <1>1, <1>3, RpcStep DEF PoolTypeOK
<1>5. PoolTypeOK'
  BY <1>1 DEF PoolTypeOK
<1>6. WaitersVisible'
  BY <1>1, <1>2 DEF WaitersVisible, PoolTypeOK
<1>7. ClaimsCovered'
  BY <1>1 DEF ClaimsCovered, Claimed, Overdrawn, Subtracted, Uncounted, FreePages
<1> QED BY <1>1, <1>4, <1>5, <1>6, <1>7, SamePages
=============================================================================
