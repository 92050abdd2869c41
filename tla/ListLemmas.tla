----------------------------- MODULE ListLemmas -----------------------------
(***************************************************************************)
(* Facts about sequences used as the kernel's linked lists (list_add,      *)
(* list_add_tail, list_add_tail before an entry, list_del) and about       *)
(* finite sets that gain or lose one element, for the proofs about the     *)
(* components.                                                             *)
(***************************************************************************)
EXTENDS Lists, FiniteSets, FiniteSetTheorems, WellFoundedInduction, TLAPS

\* The steps are first-order and go to Zenon; the others are marked SMT.
USE ZenonT(60)

\* A nonempty set of list positions has a smallest one.
LEMMA SmallestPosition ==
  ASSUME NEW S \in SUBSET Nat, S # {}
  PROVE  \E p \in S : \A i \in S : p <= i
<1>1. PICK R : R = OpToRel(<, Nat) /\ IsWellFoundedOn(R, Nat)
  BY NatLessThanWellFounded
<1>2. \A i, j \in Nat : i < j => <<i, j>> \in R
  BY <1>1 DEF OpToRel
<1>3. PICK x \in S : \A y \in S : ~(<<y, x>> \in R)
  BY ONLY <1>1, S \subseteq Nat, S # {}, WFMin, ZenonT(60)
<1>4. ASSUME NEW i \in S  PROVE  x <= i
  <2>1. x \in Nat /\ i \in Nat
    OBVIOUS
  <2>2. ~(i < x)
    BY ONLY <1>2, <1>3, <2>1, i \in S, ZenonT(60)
  <2> QED BY <2>1, <2>2, SMTT(60)
<1> QED BY <1>4

\* An element is inserted at position p: what was there moves up by one.
LEMMA InsertFacts ==
  ASSUME NEW T, NEW s \in Seq(T), NEW e \in T, NEW p \in 1 .. Len(s) + 1
  PROVE  /\ list_insert(s, p, e) \in Seq(T)
         /\ Len(list_insert(s, p, e)) = Len(s) + 1
         /\ \A i \in 1 .. Len(s) + 1 :
               list_insert(s, p, e)[i] = IF i < p THEN s[i] ELSE IF i = p THEN e ELSE s[i - 1]
<1> DEFINE a == SubSeq(s, 1, p - 1)
           b == SubSeq(s, p, Len(s))
<1>1. /\ a \in Seq(T) /\ Len(a) = p - 1
      /\ \A i \in 1 .. p - 1 : a[i] = s[i]
  BY SMTT(60)
<1>2. /\ b \in Seq(T) /\ Len(b) = Len(s) - p + 1
      /\ \A i \in 1 .. Len(s) - p + 1 : b[i] = s[p + i - 1]
  BY SMTT(60)
<1> HIDE DEF a, b
<1>3. <<e>> \in Seq(T) /\ Len(<<e>>) = 1 /\ <<e>>[1] = e
  BY SMTT(60)
<1>4. /\ a \o <<e>> \in Seq(T) /\ Len(a \o <<e>>) = p
      /\ \A i \in 1 .. p : (a \o <<e>>)[i] = IF i < p THEN s[i] ELSE e
  BY <1>1, <1>3, SMTT(60)
<1>5. PICK ae \in Seq(T) : ae = a \o <<e>>
  BY <1>4
<1>6. /\ ae \o b \in Seq(T) /\ Len(ae \o b) = Len(s) + 1
      /\ \A i \in 1 .. Len(s) + 1 : (ae \o b)[i] = IF i <= p THEN ae[i] ELSE b[i - p]
  BY <1>2, <1>4, <1>5, SMTT(60)
<1>7. list_insert(s, p, e) = ae \o b
  BY <1>5 DEF list_insert, a, b
<1>8. ASSUME NEW i \in 1 .. Len(s) + 1
      PROVE  (ae \o b)[i] = IF i < p THEN s[i] ELSE IF i = p THEN e ELSE s[i - 1]
  <2>1. CASE i <= p
    BY <1>4, <1>5, <1>6, <2>1, SMTT(60)
  <2>2. CASE i > p
    BY <1>2, <1>6, <2>2, SMTT(60)
  <2>3. i <= p \/ i > p
    BY SMTT(60)
  <2> QED BY ONLY <2>1, <2>2, <2>3, ZenonT(60)
<1> QED BY <1>6, <1>7, <1>8

\* The element at position p leaves the list.
LEMMA RemoveAtFacts ==
  ASSUME NEW T, NEW s \in Seq(T), NEW p \in 1 .. Len(s)
  PROVE  /\ list_del_at(s, p) \in Seq(T)
         /\ Len(list_del_at(s, p)) = Len(s) - 1
         /\ \A i \in 1 .. Len(s) - 1 : list_del_at(s, p)[i] = IF i < p THEN s[i] ELSE s[i + 1]
<1> DEFINE a == SubSeq(s, 1, p - 1)
           b == SubSeq(s, p + 1, Len(s))
<1>1. /\ a \in Seq(T) /\ Len(a) = p - 1
      /\ \A i \in 1 .. p - 1 : a[i] = s[i]
  BY SMTT(60)
<1>2. /\ b \in Seq(T) /\ Len(b) = Len(s) - p
      /\ \A i \in 1 .. Len(s) - p : b[i] = s[p + i]
  BY SMTT(60)
<1> HIDE DEF a, b
<1>3. /\ a \o b \in Seq(T) /\ Len(a \o b) = Len(s) - 1
      /\ \A i \in 1 .. Len(s) - 1 : (a \o b)[i] = IF i <= p - 1 THEN a[i] ELSE b[i - (p - 1)]
  <2>1. /\ a \o b \in Seq(T) /\ Len(a \o b) = Len(a) + Len(b)
        /\ \A i \in 1 .. Len(a) + Len(b) : (a \o b)[i] = IF i <= Len(a) THEN a[i] ELSE b[i - Len(a)]
    <3>1. a \in Seq(T) /\ b \in Seq(T)
      BY <1>1, <1>2
    <3>2. a \o b \in Seq(T) /\ Len(a \o b) = Len(a) + Len(b)
      BY ONLY <3>1, SMTT(60)
    <3>3. \A i \in 1 .. Len(a) + Len(b) : (a \o b)[i] = IF i <= Len(a) THEN a[i] ELSE b[i - Len(a)]
      BY ONLY <3>1, SMTT(60)
    <3> QED BY <3>2, <3>3
  <2>2. Len(a) + Len(b) = Len(s) - 1
    BY <1>1, <1>2, SMTT(60)
  <2> QED BY <1>1, <2>1, <2>2
<1>4. list_del_at(s, p) = a \o b
  BY DEF list_del_at, a, b
<1>5. ASSUME NEW i \in 1 .. Len(s) - 1
      PROVE  (a \o b)[i] = IF i < p THEN s[i] ELSE s[i + 1]
  <2>1. CASE i < p
    BY <1>1, <1>3, <2>1, SMTT(60)
  <2>2. CASE i >= p
    BY <1>2, <1>3, <2>2, SMTT(60)
  <2>3. i < p \/ i >= p
    BY SMTT(60)
  <2> QED BY ONLY <2>1, <2>2, <2>3, ZenonT(60)
<1> QED BY <1>3, <1>4, <1>5

\* list_del of e: an occurrence of e leaves the list.
LEMMA RemoveFirstAt ==
  ASSUME NEW s, NEW e, NEW k \in 1 .. Len(s), s[k] = e
  PROVE  \E p \in 1 .. Len(s) : s[p] = e /\ list_del(s, e) = list_del_at(s, p)
BY ZenonT(60) DEF list_del

-----------------------------------------------------------------------------

\* list_del of the first entry.
LEMMA TailSet ==
  ASSUME NEW T, NEW s \in Seq(T), s # <<>>
  PROVE  /\ Head(s) \in T /\ Head(s) \in Range(s) /\ Tail(s) \in Seq(T)
         /\ Range(Tail(s)) \subseteq Range(s)
         /\ NoRepeats(s) => NoRepeats(Tail(s)) /\ Range(Tail(s)) = Range(s) \ {Head(s)}
<1>1. /\ Tail(s) \in Seq(T) /\ Len(s) \in Nat \ {0} /\ Head(s) = s[1]
      /\ DOMAIN s = 1 .. Len(s) /\ DOMAIN Tail(s) = 1 .. Len(s) - 1
      /\ \A i \in 1 .. Len(s) - 1 : Tail(s)[i] = s[i + 1]
  BY SMTT(60)
<1>2. PICK t \in Seq(T) : t = Tail(s)
  BY <1>1
<1>3. PICK n \in Nat \ {0} : n = Len(s)
  BY <1>1
<1>4. /\ DOMAIN s = 1 .. n /\ DOMAIN t = 1 .. n - 1
      /\ \A i \in 1 .. n - 1 : t[i] = s[i + 1] /\ i + 1 \in 1 .. n
      /\ \A i \in 1 .. n : i # 1 => i - 1 \in 1 .. n - 1 /\ s[i] = t[i - 1]
      /\ 1 \in 1 .. n
  BY <1>1, <1>2, <1>3, SMTT(60)
<1>5. Range(t) \subseteq Range(s) /\ s[1] \in Range(s)
  <2>1. s[1] \in Range(s)
    BY <1>4 DEF Range
  <2>2. ASSUME NEW i \in DOMAIN t  PROVE  t[i] \in Range(s)
    <3>1. i + 1 \in DOMAIN s /\ t[i] = s[i + 1]
      BY <1>4
    <3> QED BY <3>1 DEF Range
  <2> QED BY <2>1, <2>2 DEF Range
<1>6. ASSUME NoRepeats(s)  PROVE  NoRepeats(t) /\ Range(t) = Range(s) \ {s[1]}
  <2>1. ASSUME NEW i \in DOMAIN t, NEW j \in DOMAIN t, i # j  PROVE  t[i] # t[j]
    <3>1. /\ i + 1 \in DOMAIN s /\ t[i] = s[i + 1]
          /\ j + 1 \in DOMAIN s /\ t[j] = s[j + 1]
          /\ i + 1 # j + 1
      BY <1>4, <2>1, SMTT(60)
    <3> QED BY <1>6, <3>1 DEF NoRepeats
  <2>2. s[1] \notin Range(t)
    <3> SUFFICES ASSUME NEW i \in 1 .. n - 1, t[i] = s[1]  PROVE  FALSE
      BY <1>4 DEF Range
    <3>1. i + 1 \in DOMAIN s /\ i + 1 # 1 /\ s[i + 1] = s[1] /\ 1 \in DOMAIN s
      BY <1>4, SMTT(60)
    <3> QED BY <1>6, <3>1 DEF NoRepeats
  <2>3. ASSUME NEW x \in Range(s), x # s[1]  PROVE  x \in Range(t)
    <3>1. PICK i \in 1 .. n : x = s[i]
      BY <1>4 DEF Range
    <3>2. i - 1 \in DOMAIN t /\ t[i - 1] = x
      BY <1>4, <2>3, <3>1
    <3> QED BY <3>2 DEF Range
  <2> QED BY <1>5, <2>1, <2>2, <2>3 DEF NoRepeats
<1>7. Head(s) \in T
  BY <1>1, SMTT(60)
<1> QED BY <1>1, <1>2, <1>5, <1>6, <1>7

\* list_del of any entry.
LEMMA RemoveFirstSet ==
  ASSUME NEW T, NEW s \in Seq(T), NEW e
  PROVE  /\ e \notin Range(s) => list_del(s, e) = s
         /\ list_del(s, e) \in Seq(T) /\ Range(list_del(s, e)) \subseteq Range(s)
         /\ NoRepeats(s) => /\ NoRepeats(list_del(s, e))
                            /\ Range(list_del(s, e)) = Range(s) \ {e}
<1>1. CASE e \notin Range(s)
  <2>1. list_del(s, e) = s
    BY <1>1, SMTT(60) DEF list_del, Range
  <2> QED BY <1>1, <2>1
<1>2. CASE e \in Range(s)
  <2>1. PICK k \in 1 .. Len(s) : s[k] = e
    BY <1>2, SMTT(60) DEF Range
  <2>2. PICK p \in 1 .. Len(s) : s[p] = e /\ list_del(s, e) = list_del_at(s, p)
    BY <2>1, RemoveFirstAt
  <2>3. PICK n \in Nat : n = Len(s)
    BY SMTT(60)
  <2>4. PICK t \in Seq(T) : t = list_del_at(s, p)
    BY RemoveAtFacts
  <2>5. /\ DOMAIN s = 1 .. n /\ DOMAIN t = 1 .. n - 1 /\ p \in 1 .. n
        /\ \A i \in 1 .. n - 1 : t[i] = IF i < p THEN s[i] ELSE s[i + 1]
    <3>1. /\ Len(t) = Len(s) - 1
          /\ \A i \in 1 .. Len(s) - 1 : t[i] = IF i < p THEN s[i] ELSE s[i + 1]
      BY <2>4, RemoveAtFacts
    <3> QED BY <2>3, <3>1, SMTT(60)
  <2> DEFINE at(i) == IF i < p THEN i ELSE i + 1
  <2>6. \A i \in 1 .. n - 1 : at(i) \in 1 .. n /\ at(i) # p /\ t[i] = s[at(i)]
    BY <2>5, SMTT(60)
  <2>7. \A i, j \in 1 .. n - 1 : i # j => at(i) # at(j)
    BY SMTT(60)
  <2>8. \A k1 \in 1 .. n : k1 # p => \E i \in 1 .. n - 1 : at(i) = k1
    <3> SUFFICES ASSUME NEW k1 \in 1 .. n, k1 # p  PROVE  \E i \in 1 .. n - 1 : at(i) = k1
      OBVIOUS
    <3>1. CASE k1 < p
      BY <2>5, <3>1, SMTT(60)
    <3>2. CASE k1 > p
      <4>1. k1 - 1 \in 1 .. n - 1 /\ at(k1 - 1) = k1
        BY <2>5, <3>2, SMTT(60)
      <4> QED BY <4>1
    <3> QED BY <2>5, <3>1, <3>2, SMTT(60)
  <2> HIDE DEF at
  <2>9. Range(t) \subseteq Range(s)
    BY <2>5, <2>6, SMTT(60) DEF Range
  <2>10. ASSUME NoRepeats(s)  PROVE  NoRepeats(t) /\ Range(t) = Range(s) \ {e}
    <3>1. NoRepeats(t)
      BY <2>5, <2>6, <2>7, <2>10, SMTT(60) DEF NoRepeats
    <3>2. e \notin Range(t)
      BY <2>2, <2>5, <2>6, <2>10, SMTT(60) DEF Range, NoRepeats
    <3>3. ASSUME NEW x \in Range(s), x # e  PROVE  x \in Range(t)
      <4>1. PICK k1 \in 1 .. n : x = s[k1] /\ k1 # p
        BY <2>2, <2>5, <3>3 DEF Range
      <4> QED BY <2>5, <2>6, <2>8, <4>1 DEF Range
    <3> QED BY <2>9, <3>1, <3>2, <3>3
  <2> QED BY <1>2, <2>2, <2>4, <2>9, <2>10
<1> QED BY <1>1, <1>2

\* list_add before the entry at position p of an entry that is not in the list.
LEMMA InsertSet ==
  ASSUME NEW T, NEW s \in Seq(T), NEW e \in T, NEW p \in 1 .. Len(s) + 1
  PROVE  /\ list_insert(s, p, e) \in Seq(T) /\ Range(list_insert(s, p, e)) = Range(s) \cup {e}
         /\ NoRepeats(s) /\ e \notin Range(s) => NoRepeats(list_insert(s, p, e))
<1>1. PICK n \in Nat : n = Len(s)
  BY SMTT(60)
<1>2. PICK t \in Seq(T) : t = list_insert(s, p, e)
  BY InsertFacts
<1>3. /\ DOMAIN s = 1 .. n /\ DOMAIN t = 1 .. n + 1 /\ p \in 1 .. n + 1
      /\ \A i \in 1 .. n + 1 : t[i] = IF i < p THEN s[i] ELSE IF i = p THEN e ELSE s[i - 1]
  <2>0. /\ Len(list_insert(s, p, e)) = Len(s) + 1
        /\ \A i \in 1 .. Len(s) + 1 :
               list_insert(s, p, e)[i] = IF i < p THEN s[i] ELSE IF i = p THEN e ELSE s[i - 1]
    BY InsertFacts, SMTT(60)
  <2>1. /\ Len(t) = Len(s) + 1
        /\ \A i \in 1 .. Len(s) + 1 : t[i] = IF i < p THEN s[i] ELSE IF i = p THEN e ELSE s[i - 1]
    BY ONLY <1>2, <2>0, SMTT(60)
  <2> QED BY <1>1, <2>1, SMTT(60)
<1> DEFINE at(i) == IF i < p THEN i ELSE i + 1
<1>4. \A i \in 1 .. n : at(i) \in 1 .. n + 1 /\ at(i) # p /\ t[at(i)] = s[i]
  BY <1>3, SMTT(60)
<1>5. \A k \in 1 .. n + 1 : k # p => \E i \in 1 .. n : at(i) = k
  <2> SUFFICES ASSUME NEW k \in 1 .. n + 1, k # p  PROVE  \E i \in 1 .. n : at(i) = k
    OBVIOUS
  <2>1. CASE k < p
    <3>1. k \in 1 .. n /\ at(k) = k
      BY <1>3, <2>1, SMTT(60)
    <3> QED BY <3>1
  <2>2. CASE k > p
    <3>1. k - 1 \in 1 .. n /\ at(k - 1) = k
      BY <1>3, <2>2, SMTT(60)
    <3> QED BY <3>1
  <2> QED BY <1>3, <2>1, <2>2, SMTT(60)
<1>6. t[p] = e
  BY <1>3, SMTT(60)
<1> HIDE DEF at
<1>7. Range(t) = Range(s) \cup {e}
  <2>1. Range(t) \subseteq Range(s) \cup {e}
    <3> SUFFICES ASSUME NEW k \in 1 .. n + 1, k # p  PROVE  t[k] \in Range(s)
      BY <1>3, <1>6 DEF Range
    <3>1. PICK i \in 1 .. n : at(i) = k
      BY <1>5
    <3> QED BY <1>3, <1>4, <3>1 DEF Range
  <2>2. Range(s) \subseteq Range(t)
    BY <1>3, <1>4, SMTT(60) DEF Range
  <2> QED BY <1>3, <1>6, <2>1, <2>2 DEF Range
<1>8. ASSUME NoRepeats(s), e \notin Range(s)  PROVE  NoRepeats(t)
  <2> SUFFICES ASSUME NEW k \in 1 .. n + 1, NEW m \in 1 .. n + 1, k # m  PROVE  t[k] # t[m]
    BY <1>3 DEF NoRepeats
  <2>1. CASE k # p /\ m # p
    <3>1. PICK i \in 1 .. n : at(i) = k
      BY <1>5, <2>1
    <3>2. PICK j \in 1 .. n : at(j) = m
      BY <1>5, <2>1
    <3>3. i # j /\ i \in DOMAIN s /\ j \in DOMAIN s /\ t[k] = s[i] /\ t[m] = s[j]
      BY <1>3, <1>4, <3>1, <3>2
    <3> QED BY <1>8, <3>3 DEF NoRepeats
  <2>2. CASE k = p /\ m # p
    BY <1>3, <1>4, <1>5, <1>6, <1>8, <2>2 DEF Range
  <2>3. CASE k # p /\ m = p
    BY <1>3, <1>4, <1>5, <1>6, <1>8, <2>3 DEF Range
  <2> QED BY <2>1, <2>2, <2>3
<1> QED BY <1>2, <1>7, <1>8

-----------------------------------------------------------------------------
(* Finite sets                                                             *)

\* What x contributes to the size of a set.
LEMMA CardSplit ==
  ASSUME NEW S, IsFiniteSet(S), NEW x
  PROVE  /\ Cardinality(S \ {x}) \in Nat
         /\ Cardinality(S) = Cardinality(S \ {x}) + (IF x \in S THEN 1 ELSE 0)
<1>1. /\ IsFiniteSet(S \ {x})
      /\ Cardinality(S \ {x}) = IF x \in S THEN Cardinality(S) - 1 ELSE Cardinality(S)
  BY FS_RemoveElement
<1>2. Cardinality(S \ {x}) \in Nat /\ Cardinality(S) \in Nat
  BY <1>1, FS_CardinalityType
<1> QED BY <1>1, <1>2, SMTT(60)
=============================================================================
