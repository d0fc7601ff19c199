--------------------------- MODULE AllocatorProofs ---------------------------
(***************************************************************************)
(* Proofs about module Allocator, for every memory size and every history  *)
(* of allocations and releases.                                            *)
(***************************************************************************)
EXTENDS Allocator, TLAPS, FiniteSetTheorems, SequenceTheorems

\* Taking the first element off a free list without repetitions.
LEMMA PopList ==
    ASSUME NEW S, NEW s \in Seq(S), s # <<>>, IsInjective(s)
    PROVE  /\ Head(s) \in Range(s) /\ Head(s) \in S
           /\ Tail(s) \in Seq(S)
           /\ Range(Tail(s)) = Range(s) \ {Head(s)}
           /\ IsInjective(Tail(s))
           /\ Len(s) \in Nat /\ Len(Tail(s)) = Len(s) - 1
<1>1. /\ Len(s) \in Nat \ {0}
      /\ DOMAIN s = 1 .. Len(s)
      /\ \A i \in 1 .. Len(s) : s[i] \in S
      /\ Head(s) = s[1]
  BY EmptySeq, LenProperties, ElementOfSeq, HeadTailProperties
<1>2. /\ Tail(s) \in Seq(S)
      /\ Len(Tail(s)) = Len(s) - 1
      /\ DOMAIN Tail(s) = 1 .. Len(s) - 1
      /\ \A i \in 1 .. Len(s) - 1 : Tail(s)[i] = s[i + 1]
  BY <1>1, HeadTailProperties, LenProperties
<1>3. Range(Tail(s)) = Range(s) \ {Head(s)}
  <2>1. ASSUME NEW x \in Range(Tail(s))
        PROVE  x \in Range(s) \ {Head(s)}
    <3>1. PICK i \in 1 .. Len(s) - 1 : x = s[i + 1]
      BY <1>2 DEF Range
    <3> QED
      BY <1>1, <3>1 DEF Range, IsInjective
  <2>2. ASSUME NEW x \in Range(s), x # Head(s)
        PROVE  x \in Range(Tail(s))
    <3>1. PICK i \in 1 .. Len(s) : x = s[i]
      BY <1>1 DEF Range
    <3>2. i - 1 \in 1 .. Len(s) - 1 /\ (i - 1) + 1 = i
      BY <1>1, <2>2, <3>1
    <3> QED
      BY <1>2, <3>1, <3>2 DEF Range
  <2> QED
    BY <2>1, <2>2
<1>4. IsInjective(Tail(s))
  BY <1>1, <1>2 DEF IsInjective
<1>5. Head(s) \in Range(s) /\ Head(s) \in S
  BY <1>1 DEF Range
<1>6. Len(s) \in Nat
  BY <1>1
<1> QED
  BY <1>2, <1>3, <1>4, <1>5, <1>6, Zenon

\* page_list_prepend of an element the list does not hold.
LEMMA PushList ==
    ASSUME NEW S, NEW s \in Seq(S), NEW x \in S, x \notin Range(s), IsInjective(s)
    PROVE  /\ page_list_prepend(s, x) \in Seq(S)
           /\ Range(page_list_prepend(s, x)) = Range(s) \cup {x}
           /\ IsInjective(page_list_prepend(s, x))
           /\ Len(s) \in Nat /\ Len(page_list_prepend(s, x)) = Len(s) + 1
<1> DEFINE t == page_list_prepend(s, x)
<1>1. /\ Len(s) \in Nat
      /\ DOMAIN s = 1 .. Len(s)
      /\ \A i \in 1 .. Len(s) : s[i] \in S
  BY LenProperties, ElementOfSeq
<1>2. /\ t \in Seq(S)
      /\ Len(t) = Len(s) + 1
      /\ DOMAIN t = 1 .. Len(s) + 1
      /\ t[1] = x
      /\ \A i \in 2 .. Len(s) + 1 : t[i] = s[i - 1]
  BY <1>1 DEF page_list_prepend
<1>3. Range(t) = Range(s) \cup {x}
  <2>1. ASSUME NEW y \in Range(s)
        PROVE  y \in Range(t)
    <3>1. PICK i \in 1 .. Len(s) : y = s[i]
      BY <1>1 DEF Range
    <3>2. i + 1 \in 2 .. Len(s) + 1 /\ (i + 1) - 1 = i
      BY <1>1
    <3>3. y = t[i + 1] /\ i + 1 \in DOMAIN t
      BY <1>1, <1>2, <3>1, <3>2
    <3> HIDE DEF t
    <3> QED
      BY <3>3 DEF Range
  <2>2. ASSUME NEW y \in Range(t), y # x
        PROVE  y \in Range(s)
    <3> HIDE DEF t
    <3>1. PICK i \in 1 .. Len(s) + 1 : y = t[i]
      BY <1>2 DEF Range
    <3>2. i \in 2 .. Len(s) + 1 /\ i - 1 \in 1 .. Len(s)
      BY <1>1, <1>2, <2>2, <3>1
    <3> QED
      BY <1>1, <1>2, <3>1, <3>2 DEF Range
  <2>3. x \in Range(t)
    <3> HIDE DEF t
    <3> QED
      BY <1>1, <1>2 DEF Range
  <2> QED
    BY <2>1, <2>2, <2>3
<1>4. IsInjective(t)
  <2> HIDE DEF t
  <2> SUFFICES ASSUME NEW i \in 1 .. Len(s) + 1, NEW j \in 1 .. Len(s) + 1, t[i] = t[j]
               PROVE  i = j
    BY <1>2 DEF IsInjective
  <2>1. \A k \in 2 .. Len(s) + 1 : k - 1 \in 1 .. Len(s) /\ t[k] = s[k - 1] /\ t[k] # x
    BY <1>1, <1>2 DEF Range
  <2>2. CASE i = 1 \/ j = 1
    BY <1>1, <1>2, <2>1, <2>2
  <2>3. CASE i # 1 /\ j # 1
    <3>1. i \in 2 .. Len(s) + 1 /\ j \in 2 .. Len(s) + 1
      BY <1>1, <2>3
    <3>2. s[i - 1] = s[j - 1] /\ i - 1 \in DOMAIN s /\ j - 1 \in DOMAIN s
      BY <1>1, <2>1, <3>1
    <3>3. i - 1 = j - 1
      BY <3>2 DEF IsInjective
    <3> QED
      BY <3>1, <3>3
  <2> QED
    BY <2>2, <2>3
<1> QED
  BY <1>1, <1>2, <1>3, <1>4
-----------------------------------------------------------------------------
\* The size of a half-open interval.
LEMMA IntervalSize ==
    ASSUME NEW lo \in Nat, NEW hi \in Nat, lo <= hi
    PROVE  IsFiniteSet(lo .. hi - 1) /\ Cardinality(lo .. hi - 1) = hi - lo
<1>1. /\ IsFiniteSet(lo .. hi - 1)
      /\ Cardinality(lo .. hi - 1) = IF lo > hi - 1 THEN 0 ELSE (hi - 1) - lo + 1
  BY FS_Interval
<1> QED
  BY <1>1

\* page_list_prepend undone.
LEMMA PopPushed ==
    ASSUME NEW S, NEW s \in Seq(S), NEW x \in S
    PROVE  /\ page_list_prepend(s, x) # <<>>
           /\ Head(page_list_prepend(s, x)) = x
           /\ Tail(page_list_prepend(s, x)) = s
<1> DEFINE t == page_list_prepend(s, x)
<1>1. /\ t \in Seq(S) /\ Len(s) \in Nat /\ Len(t) = Len(s) + 1
      /\ t[1] = x
      /\ \A i \in 1 .. Len(s) : t[i + 1] = s[i]
  BY LenProperties DEF page_list_prepend
<1>2. t # <<>>
  BY <1>1, EmptySeq
<1> HIDE DEF t
<1>3. /\ Head(t) = x
      /\ Tail(t) \in Seq(S) /\ Len(Tail(t)) = Len(s)
      /\ \A i \in 1 .. Len(s) : Tail(t)[i] = s[i]
  BY <1>1, <1>2, HeadTailProperties
<1>4. Tail(t) = s
  BY <1>3, SeqEqual
<1> QED
  BY <1>2, <1>3, <1>4 DEF t

\* The list of the quarters of a page, as CutPage builds it.
CutList(page) ==
    page_list_prepend(page_list_prepend(page_list_prepend(<<>>, <<page, 0>>), <<page, 1>>), <<page, 2>>)

\* It holds three quarters, once each.
LEMMA CutListFacts ==
    ASSUME NEW S, NEW page \in S
    PROVE  /\ CutList(page) \in Seq(S \X Quarters)
           /\ Range(CutList(page)) = {<<page, 0>>, <<page, 1>>, <<page, 2>>}
           /\ IsInjective(CutList(page))
           /\ Len(CutList(page)) = 3
<1> DEFINE C == S \X Quarters
           c0 == <<page, 0>>
           c1 == <<page, 1>>
           c2 == <<page, 2>>
           l0 == <<>>
           l1 == page_list_prepend(l0, c0)
           l2 == page_list_prepend(l1, c1)
           l3 == page_list_prepend(l2, c2)
<1>1. c0 \in C /\ c1 \in C /\ c2 \in C
  BY DEF Quarters
<1>2. c0 # c1 /\ c0 # c2 /\ c1 # c2
  OBVIOUS
<1>3. l0 \in Seq(C) /\ Range(l0) = {} /\ IsInjective(l0) /\ Len(l0) = 0
  BY DEF Range, IsInjective
<1>4. CutList(page) = l3
  BY DEF CutList
<1> HIDE DEF C, c0, c1, c2, l0
<1>5. l1 \in Seq(C) /\ Range(l1) = Range(l0) \cup {c0} /\ IsInjective(l1) /\ Len(l1) = Len(l0) + 1
  <2>1. c0 \notin Range(l0)
    BY <1>3
  <2> QED
    BY <1>1, <1>3, <2>1, PushList, ZenonT(60)
<1> HIDE DEF l1
<1>6. c1 \notin Range(l1)
  BY <1>2, <1>3, <1>5
<1>7. l2 \in Seq(C) /\ Range(l2) = Range(l1) \cup {c1} /\ IsInjective(l2) /\ Len(l2) = Len(l1) + 1
  BY <1>1, <1>5, <1>6, PushList, SMTT(30)
<1> HIDE DEF l2
<1>8. c2 \notin Range(l2)
  BY <1>2, <1>3, <1>5, <1>7
<1>9. l3 \in Seq(C) /\ Range(l3) = Range(l2) \cup {c2} /\ IsInjective(l3) /\ Len(l3) = Len(l2) + 1
  BY <1>1, <1>7, <1>8, PushList, SMTT(30)
<1> HIDE DEF l3
<1>10. Range(l3) = {c0, c1, c2} /\ Len(l3) = 3
  BY <1>3, <1>5, <1>7, <1>9
<1> QED
  BY <1>4, <1>9, <1>10 DEF C, c0, c1, c2

\* What kfree1k, CutPage and a pop do to the record of the two lists.
LEMMA Kfree1kRecord ==
    ASSUME NEW a, NEW b, NEW chunk
    PROVE  kfree1k([free_list_4k |-> a, free_list_1k |-> b], chunk)
             = [free_list_4k |-> a, free_list_1k |-> page_list_prepend(b, chunk)]
BY DEF kfree1k

\* CutPage lists the four quarters, the last one first.
LEMMA CutPageRecord ==
    ASSUME NEW a, NEW page
    PROVE  CutPage([free_list_4k |-> a, free_list_1k |-> <<>>], page)
             = [free_list_4k |-> a, free_list_1k |-> page_list_prepend(CutList(page), <<page, 3>>)]
<1> DEFINE r(b) == [free_list_4k |-> a, free_list_1k |-> b]
           l1 == page_list_prepend(<<>>, <<page, 0>>)
           l2 == page_list_prepend(l1, <<page, 1>>)
           l3 == page_list_prepend(l2, <<page, 2>>)
<1>1. kfree1k(r(<<>>), <<page, 0>>) = r(l1)
  BY Kfree1kRecord
<1>2. kfree1k(r(l1), <<page, 1>>) = r(l2)
  BY Kfree1kRecord
<1>3. kfree1k(r(l2), <<page, 2>>) = r(l3)
  BY Kfree1kRecord
<1>4. kfree1k(r(l3), <<page, 3>>) = r(page_list_prepend(l3, <<page, 3>>))
  BY Kfree1kRecord
<1>5. l3 = CutList(page)
  BY DEF CutList
<1> HIDE DEF r, l1, l2, l3
<1>6. CutPage(r(<<>>), page) = r(page_list_prepend(l3, <<page, 3>>))
  BY <1>1, <1>2, <1>3, <1>4, Zenon DEF CutPage
<1> QED
  BY <1>5, <1>6, Zenon DEF r

\* A pop touches one list only.
LEMMA PopRecord ==
    ASSUME NEW a, NEW b, NEW c
    PROVE  [[free_list_4k |-> a, free_list_1k |-> b] EXCEPT !.free_list_1k = c]
             = [free_list_4k |-> a, free_list_1k |-> c]
OBVIOUS

\* Page 0 is never handed over, the regions are disjoint, and kalloc_init lists
\* the pages of a region once each.
LEMMA RegionFacts ==
    /\ Region1 \subseteq Nat \ {0} /\ Region2 \subseteq Nat \ {0}
    /\ Region1 \cap Region2 = {}
    /\ IsFiniteSet(Region1) /\ Cardinality(Region1) = PageCount(ALLOCATABLE_START, INITIAL_SIZE)
    /\ IsFiniteSet(Region2) /\ Cardinality(Region2) = PageCount(INITIAL_SIZE, TOTAL_SIZE)
    /\ PageCount(ALLOCATABLE_START, INITIAL_SIZE) \in Nat
    /\ PageCount(INITIAL_SIZE, TOTAL_SIZE) \in Nat
<1>1. /\ RoundUpToPage(ALLOCATABLE_START) \in Nat \ {0}
      /\ RoundDownToPage(INITIAL_SIZE) \in Nat
      /\ RoundUpToPage(INITIAL_SIZE) \in Nat
      /\ RoundDownToPage(TOTAL_SIZE) \in Nat
      /\ RoundDownToPage(INITIAL_SIZE) <= RoundUpToPage(INITIAL_SIZE)
  BY RegionAssumption DEF RoundUpToPage, RoundDownToPage
<1>2. /\ RoundUpToPage(ALLOCATABLE_START) <= RoundDownToPage(INITIAL_SIZE)
      /\ RoundUpToPage(INITIAL_SIZE) <= RoundDownToPage(TOTAL_SIZE)
  BY RegionAssumption
<1>3. /\ Region1 \subseteq Nat \ {0} /\ Region2 \subseteq Nat \ {0}
      /\ Region1 \cap Region2 = {}
  BY <1>1, <1>2 DEF Region1, Region2
<1>4. IsFiniteSet(Region1) /\ Cardinality(Region1) = PageCount(ALLOCATABLE_START, INITIAL_SIZE)
  BY <1>1, <1>2, IntervalSize DEF Region1, PageCount
<1>5. IsFiniteSet(Region2) /\ Cardinality(Region2) = PageCount(INITIAL_SIZE, TOTAL_SIZE)
  BY <1>1, <1>2, IntervalSize DEF Region2, PageCount
<1> QED
  BY <1>1, <1>2, <1>3, <1>4, <1>5 DEF PageCount

\* The list kalloc_init prepends, for a region lo .. hi - 1.
LEMMA RegionList ==
    ASSUME NEW lo \in Nat, NEW hi \in Nat, lo <= hi
    PROVE  LET s == [i \in 1 .. hi - lo |-> hi - i] IN
           /\ s \in Seq(lo .. hi - 1)
           /\ Range(s) = lo .. hi - 1
           /\ IsInjective(s)
           /\ Len(s) = hi - lo
<1> DEFINE s == [i \in 1 .. hi - lo |-> hi - i]
<1>1. s \in Seq(lo .. hi - 1) /\ Len(s) = hi - lo
  OBVIOUS
<1>2. ASSUME NEW x \in lo .. hi - 1
      PROVE  x \in Range(s)
  <2>1. hi - x \in 1 .. hi - lo /\ hi - (hi - x) = x
    OBVIOUS
  <2> QED
    BY <2>1 DEF Range
<1>3. Range(s) \subseteq lo .. hi - 1
  BY DEF Range
<1>4. IsInjective(s)
  BY DEF IsInjective
<1> QED
  BY <1>1, <1>2, <1>3, <1>4

\* u is s followed by t, element by element.
IsJoin(s, t, u) ==
    /\ Len(u) = Len(s) + Len(t)
    /\ \A i \in 1 .. Len(s) + Len(t) : u[i] = IF i <= Len(s) THEN s[i] ELSE t[i - Len(s)]

Disjoint(S, T) == \A x \in S : x \notin T

\* Joining two lists that have nothing in common.
LEMMA JoinLists ==
    ASSUME NEW S, NEW s, NEW t, NEW u,
           s \in Seq(S), t \in Seq(S), u \in Seq(S),
           IsJoin(s, t, u), IsInjective(s), IsInjective(t), Disjoint(Range(s), Range(t))
    PROVE  Range(u) = Range(s) \cup Range(t) /\ IsInjective(u)
<1>1. /\ Len(s) \in Nat /\ DOMAIN s = 1 .. Len(s)
      /\ Len(t) \in Nat /\ DOMAIN t = 1 .. Len(t)
  BY LenProperties
<1>2. /\ u \in Seq(S)
      /\ Len(u) = Len(s) + Len(t)
      /\ \A i \in 1 .. Len(s) + Len(t) : u[i] = IF i <= Len(s) THEN s[i] ELSE t[i - Len(s)]
  BY DEF IsJoin
<1>3. DOMAIN u = 1 .. Len(s) + Len(t)
  BY <1>2, LenProperties
<1>4. Range(u) \subseteq Range(s) \cup Range(t)
  <2> SUFFICES ASSUME NEW i \in 1 .. Len(s) + Len(t)
               PROVE  u[i] \in Range(s) \cup Range(t)
    BY <1>3 DEF Range
  <2>1. CASE i <= Len(s)
    <3>1. i \in DOMAIN s /\ u[i] = s[i]
      BY <1>1, <1>2, <2>1
    <3> QED
      BY <3>1 DEF Range
  <2>2. CASE ~(i <= Len(s))
    <3>1. i - Len(s) \in DOMAIN t /\ u[i] = t[i - Len(s)]
      BY <1>1, <1>2, <2>2
    <3> QED
      BY <3>1 DEF Range
  <2> QED
    BY <2>1, <2>2
<1>5. ASSUME NEW x \in Range(s) PROVE x \in Range(u)
  <2>1. PICK i \in 1 .. Len(s) : x = s[i]
    BY <1>1 DEF Range
  <2>2. i \in 1 .. Len(s) + Len(t) /\ u[i] = x
    BY <1>1, <1>2, <2>1
  <2> QED
    BY <1>3, <2>2 DEF Range
<1>6. ASSUME NEW x \in Range(t) PROVE x \in Range(u)
  <2>1. PICK i \in 1 .. Len(t) : x = t[i]
    BY <1>1 DEF Range
  <2>2. i + Len(s) \in 1 .. Len(s) + Len(t) /\ ~(i + Len(s) <= Len(s)) /\ (i + Len(s)) - Len(s) = i
    BY <1>1
  <2>3. u[i + Len(s)] = x
    BY <1>2, <2>1, <2>2
  <2> QED
    BY <1>3, <2>2, <2>3 DEF Range
<1>7. IsInjective(u)
  <2> SUFFICES ASSUME NEW i \in 1 .. Len(s) + Len(t), NEW j \in 1 .. Len(s) + Len(t),
                      u[i] = u[j]
               PROVE  i = j
    BY <1>3 DEF IsInjective
  <2>1. \A k \in 1 .. Len(s) + Len(t) :
           \/ k <= Len(s) /\ k \in DOMAIN s /\ u[k] = s[k] /\ u[k] \in Range(s)
           \/ k > Len(s) /\ k - Len(s) \in DOMAIN t /\ u[k] = t[k - Len(s)] /\ u[k] \in Range(t)
    <3> SUFFICES ASSUME NEW k \in 1 .. Len(s) + Len(t)
                 PROVE  \/ k <= Len(s) /\ k \in DOMAIN s /\ u[k] = s[k] /\ u[k] \in Range(s)
                        \/ k > Len(s) /\ k - Len(s) \in DOMAIN t /\ u[k] = t[k - Len(s)]
                           /\ u[k] \in Range(t)
      OBVIOUS
    <3>1. CASE k <= Len(s)
      BY <1>1, <1>2, <3>1 DEF Range
    <3>2. CASE k > Len(s)
      <4>1. k - Len(s) \in DOMAIN t /\ u[k] = t[k - Len(s)]
        BY <1>1, <1>2, <3>2
      <4> QED
        BY <3>2, <4>1 DEF Range
    <3> QED
      BY <1>1, <3>1, <3>2
  <2>2. CASE i <= Len(s) /\ j <= Len(s)
    <3>1. ~(i > Len(s)) /\ ~(j > Len(s))
      BY <1>1, <2>2
    <3>2. i \in DOMAIN s /\ u[i] = s[i] /\ j \in DOMAIN s /\ u[j] = s[j]
      BY <2>1, <3>1, Zenon
    <3> QED
      BY <3>2 DEF IsInjective
  <2>3. CASE i > Len(s) /\ j > Len(s)
    <3>1. i - Len(s) \in DOMAIN t /\ j - Len(s) \in DOMAIN t /\ t[i - Len(s)] = t[j - Len(s)]
      BY <1>1, <2>1, <2>3
    <3>2. i - Len(s) = j - Len(s)
      BY <3>1 DEF IsInjective
    <3> QED
      BY <1>1, <3>2
  <2>4. CASE (i <= Len(s) /\ j > Len(s)) \/ (i > Len(s) /\ j <= Len(s))
    <3>1. (u[i] \in Range(s) /\ u[j] \in Range(t)) \/ (u[i] \in Range(t) /\ u[j] \in Range(s))
      BY <1>1, <2>1, <2>4
    <3> QED
      BY <3>1 DEF Disjoint
  <2> QED
    BY <1>1, <2>2, <2>3, <2>4
<1> QED
  BY <1>1, <1>2, <1>4, <1>5, <1>6, <1>7
-----------------------------------------------------------------------------
\* The inductive invariant: who owns what, and the accounting.
AllocInv ==
    /\ AllocTypeOK
    /\ NothingShared
    /\ NothingLost
    /\ IsFiniteSet(held4k) /\ IsFiniteSet(held1k)
    /\ FreeSizeAccounts

\* After the first kalloc_init every page of the region is free.
LEMMA AllocInvInit == AllocInit => AllocInv /\ FreePages = Region1 /\ FreeChunks = {}
<1> SUFFICES ASSUME AllocInit PROVE AllocInv /\ FreePages = Region1 /\ FreeChunks = {}
  OBVIOUS
<1> DEFINE lo == RoundUpToPage(ALLOCATABLE_START)
           hi == RoundDownToPage(INITIAL_SIZE)
           s == [i \in 1 .. hi - lo |-> hi - i]
<1>1. lo \in Nat /\ hi \in Nat /\ lo <= hi
  BY RegionAssumption DEF RoundUpToPage, RoundDownToPage
<1>2. /\ s \in Seq(lo .. hi - 1)
      /\ Range(s) = lo .. hi - 1
      /\ IsInjective(s)
      /\ Len(s) = hi - lo
  BY <1>1, RegionList
<1>3. m = [free_list_4k |-> s, free_list_1k |-> <<>>]
  <2>1. s \o <<>> = s
    BY <1>2, EmptySeq, ConcatEmptySeq
  <2> QED
    BY <2>1 DEF AllocInit, kalloc_init, EmptyLists, PageCount
<1>4. Managed = lo .. hi - 1
  BY DEF AllocInit, Managed, Region1
<1>5. Range(<<>>) = {} /\ IsInjective(<<>>)
  BY DEF Range, IsInjective
<1>6. AllocTypeOK
  <2> HIDE DEF s
  <2>1. m \in [free_list_4k : Seq(Managed), free_list_1k : Seq(Managed \X Quarters)]
    BY <1>2, <1>3, <1>4
  <2> QED
    BY <2>1 DEF AllocInit, AllocTypeOK
<1>7. NothingShared /\ NothingLost
  <2> HIDE DEF s
  <2>1. FreePages = Managed /\ FreeChunks = {} /\ SplitPages = {}
    BY <1>2, <1>3, <1>4, <1>5 DEF FreePages, FreeChunks, SplitPages
  <2>2. IsInjective(m.free_list_4k) /\ IsInjective(m.free_list_1k)
    BY <1>2, <1>3, <1>5
  <2> QED
    BY <2>1, <2>2 DEF AllocInit, NothingShared, NothingLost
<1>8. FreeSizeAccounts
  <2>1. Cardinality(Managed) = hi - lo
    BY <1>1, <1>4, IntervalSize
  <2>2. Cardinality({}) = 0 /\ Len(<<>>) = 0
    BY FS_EmptySet
  <2> QED
    BY <1>1, <1>2, <1>3, <2>1, <2>2 DEF AllocInit, FreeSizeAccounts, get_free_memory_size
<1>9. FreePages = Region1 /\ FreeChunks = {}
  <2> HIDE DEF s
  <2> QED
    BY <1>2, <1>3, <1>4, <1>5 DEF FreePages, FreeChunks, Region1
<1> QED
  BY <1>6, <1>7, <1>8, <1>9, FS_EmptySet DEF AllocInit, AllocInv
-----------------------------------------------------------------------------
(***************************************************************************)
(* The ownership part of the invariant, stated on the sets of free pages   *)
(* and free chunks so that the proofs of the steps are about sets only.    *)
(***************************************************************************)
Lists == /\ m.free_list_4k \in Seq(Managed) /\ IsInjective(m.free_list_4k)
         /\ m.free_list_1k \in Seq(Managed \X Quarters) /\ IsInjective(m.free_list_1k)

\* A step of the pool, or one that leaves it alone.
PoolStep == [Abs!ANext]_(Abs!abstractVars)

\* The invariant says in particular that both lists are free of repetitions.
LEMMA ListsFromInv == AllocInv => Lists
BY DEF AllocInv, AllocTypeOK, NothingShared, Lists

\* kalloc
LEMMA KallocStep == AllocInv /\ Kalloc4k => AllocInv' /\ PoolStep
<1> SUFFICES ASSUME AllocInv, Kalloc4k PROVE AllocInv' /\ PoolStep
  OBVIOUS
<1>1. CASE m.free_list_4k = <<>>
  <2>1. UNCHANGED <<m, held4k, regions, held1k>>
    BY <1>1 DEF Kalloc4k, kalloc
  <2>2. PoolStep
    BY <2>1 DEF PoolStep, Abs!abstractVars, FreePages, FreeChunks
  <2> QED
    BY <2>1, <2>2 DEF AllocInv, AllocTypeOK, NothingShared, NothingLost, FreeSizeAccounts, Managed,
                      FreePages, FreeChunks, SplitPages
<1>2. CASE m.free_list_4k # <<>>
  <2> DEFINE page == Head(m.free_list_4k)
  <2>1. /\ page \in FreePages /\ page \in Managed
        /\ Tail(m.free_list_4k) \in Seq(Managed)
        /\ Range(Tail(m.free_list_4k)) = FreePages \ {page}
        /\ IsInjective(Tail(m.free_list_4k))
        /\ Len(m.free_list_4k) \in Nat
        /\ Len(Tail(m.free_list_4k)) = Len(m.free_list_4k) - 1
    BY <1>2, PopList, ListsFromInv DEF Lists, FreePages
  <2>2. page # NO_PAGE
    BY <2>1, RegionFacts DEF Managed, NO_PAGE
  <2>3. /\ m' = [m EXCEPT !.free_list_4k = Tail(@)]
        /\ held4k' = held4k \cup {page}
        /\ UNCHANGED <<regions, held1k>>
    BY <1>2, <2>2 DEF Kalloc4k, kalloc
  <2>4. m'.free_list_4k = Tail(m.free_list_4k) /\ m'.free_list_1k = m.free_list_1k
    BY <2>3 DEF AllocInv, AllocTypeOK
  <2>5. Managed' = Managed
    BY <2>3 DEF Managed
  <2> HIDE DEF page
  <2>6. FreePages' = FreePages \ {page} /\ FreeChunks' = FreeChunks /\ SplitPages' = SplitPages
    BY <2>1, <2>3, <2>4, <2>5 DEF FreePages, FreeChunks, SplitPages
  <2>7. page \notin held4k
    BY <2>1 DEF AllocInv, NothingShared
  <2>8. AllocTypeOK'
    BY <2>1, <2>3, <2>4, <2>5 DEF AllocInv, AllocTypeOK
  <2>9. NothingShared' /\ NothingLost'
    BY <2>1, <2>3, <2>4, <2>6, <2>7 DEF AllocInv, NothingShared, NothingLost
  <2>10. /\ IsFiniteSet(held4k') /\ IsFiniteSet(held1k')
         /\ Cardinality(held4k') = Cardinality(held4k) + 1
    BY <2>3, <2>7, FS_AddElement DEF AllocInv
  <2>11. FreeSizeAccounts'
    <3>1. /\ Len(m.free_list_1k) \in Nat
          /\ Cardinality(held4k) \in Nat /\ Cardinality(held1k) \in Nat
      BY FS_CardinalityType, LenProperties, ListsFromInv DEF AllocInv, Lists
    <3> DEFINE n4 == Len(m.free_list_4k)
               n1 == Len(m.free_list_1k)
    <3>2. get_free_memory_size(m) = n1 + 4 * n4 /\ get_free_memory_size(m)' = n1 + 4 * (n4 - 1)
      BY <2>1, <2>4 DEF get_free_memory_size
    <3>3. n4 \in Nat /\ n1 \in Nat
      BY <2>1, <3>1
    <3> HIDE DEF n4, n1
    <3>4. get_free_memory_size(m)' + 4 * Cardinality(held4k)' + Cardinality(held1k)'
            = get_free_memory_size(m) + 4 * Cardinality(held4k) + Cardinality(held1k)
      BY <2>3, <2>10, <3>1, <3>2, <3>3
    <3> QED
      BY <2>5, <3>4 DEF AllocInv, FreeSizeAccounts
  <2>12. PoolStep
    <3>1. Abs!GivePage(page)
      BY <2>3, <2>6 DEF Abs!GivePage
    <3> QED
      BY <2>1, <3>1 DEF PoolStep, Abs!ANext
  <2> QED
    BY <2>8, <2>9, <2>10, <2>11, <2>12 DEF AllocInv
<1> QED
  BY <1>1, <1>2

\* kfree of a page that is held
LEMMA KfreeStep ==
    ASSUME AllocInv, NEW page \in held4k, Kfree4k(page)
    PROVE  AllocInv' /\ PoolStep
<1>1. page \in Managed /\ page \notin FreePages
  BY DEF AllocInv, AllocTypeOK, NothingShared
<1> DEFINE list == page_list_prepend(m.free_list_4k, page)
<1>2. /\ list \in Seq(Managed)
      /\ Range(list) = FreePages \cup {page}
      /\ IsInjective(list)
      /\ Len(m.free_list_4k) \in Nat /\ Len(list) = Len(m.free_list_4k) + 1
  BY <1>1, PushList, ListsFromInv DEF Lists, FreePages
<1> HIDE DEF list
<1>3. m'.free_list_4k = list /\ m'.free_list_1k = m.free_list_1k /\ m' = [m EXCEPT !.free_list_4k = list]
  BY DEF Kfree4k, kfree, list, AllocInv, AllocTypeOK
<1>4. held4k' = held4k \ {page} /\ UNCHANGED <<regions, held1k>> /\ Managed' = Managed
  BY DEF Kfree4k, Managed
<1>5. FreePages' = FreePages \cup {page} /\ FreeChunks' = FreeChunks /\ SplitPages' = SplitPages
  BY <1>1, <1>2, <1>3, <1>4 DEF FreePages, FreeChunks, SplitPages
<1>6. AllocTypeOK'
  BY <1>2, <1>3, <1>4 DEF AllocInv, AllocTypeOK
<1>7. NothingShared' /\ NothingLost'
  BY <1>2, <1>3, <1>4, <1>5 DEF AllocInv, NothingShared, NothingLost
<1>8. /\ IsFiniteSet(held4k') /\ IsFiniteSet(held1k')
      /\ Cardinality(held4k') = Cardinality(held4k) - 1
  BY <1>4, FS_RemoveElement DEF AllocInv
<1>9. FreeSizeAccounts'
  <2>1. /\ Len(m.free_list_1k) \in Nat
        /\ Cardinality(held4k) \in Nat /\ Cardinality(held1k) \in Nat
    BY FS_CardinalityType, LenProperties, ListsFromInv DEF AllocInv, Lists
  <2> DEFINE n4 == Len(m.free_list_4k)
             n1 == Len(m.free_list_1k)
  <2>2. get_free_memory_size(m) = n1 + 4 * n4 /\ get_free_memory_size(m)' = n1 + 4 * (n4 + 1)
    BY <1>2, <1>3 DEF get_free_memory_size
  <2>3. n4 \in Nat /\ n1 \in Nat
    BY <1>2, <2>1
  <2> HIDE DEF n4, n1
  <2>4. get_free_memory_size(m)' + 4 * Cardinality(held4k)' + Cardinality(held1k)'
          = get_free_memory_size(m) + 4 * Cardinality(held4k) + Cardinality(held1k)
    BY <1>4, <1>8, <2>1, <2>2, <2>3
  <2> QED
    BY <1>4, <2>4 DEF AllocInv, FreeSizeAccounts
<1>10. PoolStep
  <2>1. Abs!TakePage(page)
    BY <1>4, <1>5 DEF Abs!TakePage
  <2> QED
    BY <2>1 DEF PoolStep, Abs!ANext
<1> QED
  BY <1>6, <1>7, <1>8, <1>9, <1>10 DEF AllocInv

\* kalloc1k with a chunk on the list
LEMMA Kalloc1kPopStep ==
    ASSUME AllocInv, Kalloc1k, m.free_list_1k # <<>>
    PROVE  AllocInv' /\ PoolStep
<1> DEFINE chunk == Head(m.free_list_1k)
<1>1. /\ chunk \in FreeChunks /\ chunk \in Managed \X Quarters
      /\ Tail(m.free_list_1k) \in Seq(Managed \X Quarters)
      /\ Range(Tail(m.free_list_1k)) = FreeChunks \ {chunk}
      /\ IsInjective(Tail(m.free_list_1k))
      /\ Len(m.free_list_1k) \in Nat
      /\ Len(Tail(m.free_list_1k)) = Len(m.free_list_1k) - 1
  BY PopList, ListsFromInv DEF Lists, FreeChunks
<1>2. chunk # NO_CHUNK
  BY <1>1, RegionFacts DEF Managed, NO_CHUNK
<1>3. /\ m' = [m EXCEPT !.free_list_1k = Tail(@)]
      /\ held1k' = held1k \cup {chunk}
      /\ UNCHANGED <<regions, held4k>>
  BY <1>2 DEF Kalloc1k, kalloc1k, Refill
<1>4. m'.free_list_1k = Tail(m.free_list_1k) /\ m'.free_list_4k = m.free_list_4k
  BY <1>3 DEF AllocInv, AllocTypeOK
<1>5. Managed' = Managed
  BY <1>3 DEF Managed
<1> HIDE DEF chunk
<1>6. FreePages' = FreePages /\ FreeChunks' = FreeChunks \ {chunk} /\ SplitPages' = SplitPages
  BY <1>1, <1>3, <1>4, <1>5 DEF FreePages, FreeChunks, SplitPages
<1>7. chunk \notin held1k
  BY <1>1 DEF AllocInv, NothingShared
<1>8. AllocTypeOK'
  BY <1>1, <1>3, <1>4, <1>5 DEF AllocInv, AllocTypeOK
<1>9. NothingShared' /\ NothingLost'
  BY <1>1, <1>3, <1>4, <1>6, <1>7 DEF AllocInv, NothingShared, NothingLost
<1>10. /\ IsFiniteSet(held4k') /\ IsFiniteSet(held1k')
       /\ Cardinality(held1k') = Cardinality(held1k) + 1
  BY <1>3, <1>7, FS_AddElement DEF AllocInv
<1>11. FreeSizeAccounts'
  <2>1. /\ Len(m.free_list_4k) \in Nat
        /\ Cardinality(held4k) \in Nat /\ Cardinality(held1k) \in Nat
    BY FS_CardinalityType, LenProperties, ListsFromInv DEF AllocInv, Lists
  <2> DEFINE n4 == Len(m.free_list_4k)
             n1 == Len(m.free_list_1k)
  <2>2. get_free_memory_size(m) = n1 + 4 * n4 /\ get_free_memory_size(m)' = n1 - 1 + 4 * n4
    BY <1>1, <1>4 DEF get_free_memory_size
  <2>3. n4 \in Nat /\ n1 \in Nat
    BY <1>1, <2>1
  <2> HIDE DEF n4, n1
  <2>4. get_free_memory_size(m)' + 4 * Cardinality(held4k)' + Cardinality(held1k)'
          = get_free_memory_size(m) + 4 * Cardinality(held4k) + Cardinality(held1k)
    BY <1>3, <1>10, <2>1, <2>2, <2>3
  <2> QED
    BY <1>5, <2>4 DEF AllocInv, FreeSizeAccounts
<1>12. PoolStep
  <2>1. Abs!GiveChunk(chunk)
    BY <1>3, <1>6 DEF Abs!GiveChunk
  <2> QED
    BY <1>1, <2>1 DEF PoolStep, Abs!ANext
<1> QED
  BY <1>8, <1>9, <1>10, <1>11, <1>12 DEF AllocInv

\* kalloc1k that has to cut up a page: one quarter is returned, three are listed
LEMMA Kalloc1kCutStep ==
    ASSUME AllocInv, Kalloc1k, m.free_list_1k = <<>>, m.free_list_4k # <<>>
    PROVE  AllocInv' /\ PoolStep
<1> DEFINE page == Head(m.free_list_4k)
           rest == CutList(page)
           l4 == page_list_prepend(rest, <<page, 3>>)
<1>1. /\ page \in FreePages /\ page \in Managed
      /\ Tail(m.free_list_4k) \in Seq(Managed)
      /\ Range(Tail(m.free_list_4k)) = FreePages \ {page}
      /\ IsInjective(Tail(m.free_list_4k))
      /\ Len(m.free_list_4k) \in Nat
      /\ Len(Tail(m.free_list_4k)) = Len(m.free_list_4k) - 1
  BY PopList, ListsFromInv DEF Lists, FreePages
<1>2. page # NO_PAGE
  BY <1>1, RegionFacts DEF Managed, NO_PAGE
<1>3. m = [free_list_4k |-> m.free_list_4k, free_list_1k |-> m.free_list_1k]
  BY DEF AllocInv, AllocTypeOK
<1>4. kalloc(m).ret = page /\ kalloc(m).mem = [free_list_4k |-> Tail(m.free_list_4k), free_list_1k |-> <<>>]
  BY <1>3 DEF kalloc
<1>5. Refill(m) = [free_list_4k |-> Tail(m.free_list_4k), free_list_1k |-> l4]
  <2>1. Refill(m) = CutPage(kalloc(m).mem, page)
    BY <1>2, <1>4 DEF Refill
  <2> QED
    BY <1>4, <2>1, CutPageRecord
<1>10. /\ rest \in Seq(Managed \X Quarters)
       /\ Range(rest) = {<<page, 0>>, <<page, 1>>, <<page, 2>>}
       /\ IsInjective(rest)
       /\ Len(rest) = 3
  BY <1>1, CutListFacts
<1>6. kalloc1k(m).ret = <<page, 3>>
      /\ kalloc1k(m).mem = [free_list_4k |-> Tail(m.free_list_4k), free_list_1k |-> rest]
  <2>1. <<page, 3>> \in Managed \X Quarters
    BY <1>1 DEF Quarters
  <2> HIDE DEF rest
  <2> DEFINE full == [free_list_4k |-> Tail(m.free_list_4k), free_list_1k |-> l4]
  <2>2. l4 # <<>> /\ Head(l4) = <<page, 3>> /\ Tail(l4) = rest
    <3> DEFINE C == Managed \X Quarters
               x == <<page, 3>>
    <3>1. rest \in Seq(C) /\ x \in C
      BY <1>10, <2>1
    <3> HIDE DEF C, x
    <3>2. /\ page_list_prepend(rest, x) # <<>>
          /\ Head(page_list_prepend(rest, x)) = x
          /\ Tail(page_list_prepend(rest, x)) = rest
      BY <3>1, PopPushed
    <3> QED
      BY <3>2, Zenon DEF x
  <2> HIDE DEF l4
  <2>3. full.free_list_1k = l4
    OBVIOUS
  <2>4. [full EXCEPT !.free_list_1k = rest] = [free_list_4k |-> Tail(m.free_list_4k), free_list_1k |-> rest]
    BY PopRecord
  <2>5. Refill(m) = full
    BY <1>5
  <2> HIDE DEF full
  <2>6. kalloc1k(m) = [ret |-> <<page, 3>>, mem |-> [full EXCEPT !.free_list_1k = rest]]
    BY <2>2, <2>3, <2>5, Zenon DEF kalloc1k
  <2> QED
    BY <2>4, <2>6
<1>7. <<page, 3>> # NO_CHUNK
  BY DEF NO_CHUNK
<1>8. /\ m' = [free_list_4k |-> Tail(m.free_list_4k), free_list_1k |-> rest]
      /\ held1k' = held1k \cup {<<page, 3>>}
      /\ UNCHANGED <<regions, held4k>>
  BY <1>6, <1>7 DEF Kalloc1k
<1>9. Managed' = Managed
  BY <1>8 DEF Managed
<1> HIDE DEF rest, page
<1>11. FreeChunks = {}
  BY DEF FreeChunks, Range
<1>12. /\ FreePages' = FreePages \ {page}
       /\ FreeChunks' = {<<page, 0>>, <<page, 1>>, <<page, 2>>}
       /\ SplitPages' = SplitPages \cup {page}
       /\ page \notin SplitPages
    <2>1. page \notin held4k
      BY <1>1 DEF AllocInv, NothingShared
    <2> QED
      BY <1>1, <1>8, <1>9, <1>10, <2>1 DEF FreePages, FreeChunks, SplitPages
<1>13. ChunksOf(page) = {<<page, 0>>, <<page, 1>>, <<page, 2>>, <<page, 3>>}
  BY DEF ChunksOf, Quarters
<1>14. \A c \in held1k : c[1] \in SplitPages
  BY DEF AllocInv, NothingShared
<1>15. AllocTypeOK'
  BY <1>1, <1>8, <1>9, <1>10 DEF AllocInv, AllocTypeOK, Quarters
<1>16. \A i \in Quarters : <<page, i>> \notin held1k
  BY <1>12, <1>14
<1>17. NothingShared'
  BY <1>1, <1>8, <1>10, <1>12, <1>14, <1>16 DEF AllocInv, NothingShared, Quarters
<1>18. NothingLost'
  BY <1>8, <1>11, <1>12, <1>13 DEF AllocInv, NothingLost
<1>19. /\ IsFiniteSet(held4k') /\ IsFiniteSet(held1k')
       /\ Cardinality(held1k') = Cardinality(held1k) + 1
  <2>1. <<page, 3>> \notin held1k
    BY <1>16 DEF Quarters
  <2> QED
    BY <1>8, <2>1, FS_AddElement DEF AllocInv
<1>20. FreeSizeAccounts'
  <2>1. Cardinality(held4k) \in Nat /\ Cardinality(held1k) \in Nat
    BY FS_CardinalityType DEF AllocInv
  <2> DEFINE n4 == Len(m.free_list_4k)
  <2>2. get_free_memory_size(m) = 0 + 4 * n4 /\ get_free_memory_size(m)' = 3 + 4 * (n4 - 1)
    <3>1. Len(m.free_list_1k) = 0 /\ Len(m'.free_list_1k) = 3 /\ Len(m'.free_list_4k) = n4 - 1
      BY <1>1, <1>8, <1>10
    <3> QED
      BY <3>1 DEF get_free_memory_size
  <2>3. n4 \in Nat
    BY <1>1
  <2> HIDE DEF n4
  <2>4. get_free_memory_size(m)' + 4 * Cardinality(held4k)' + Cardinality(held1k)'
          = get_free_memory_size(m) + 4 * Cardinality(held4k) + Cardinality(held1k)
    BY <1>8, <1>19, <2>1, <2>2, <2>3
  <2> QED
    BY <1>9, <2>4 DEF AllocInv, FreeSizeAccounts
<1>21. PoolStep
  <2>1. /\ <<page, 3>> \in Abs!QuartersOf(page)
        /\ Abs!QuartersOf(page) \ {<<page, 3>>} = {<<page, 0>>, <<page, 1>>, <<page, 2>>}
    BY DEF Abs!QuartersOf
  <2>2. Abs!CutPageAndGive(page, <<page, 3>>)
    BY <1>8, <1>11, <1>12, <2>1 DEF Abs!CutPageAndGive
  <2> QED
    BY <1>1, <2>1, <2>2 DEF PoolStep, Abs!ANext
<1> QED
  BY <1>15, <1>17, <1>18, <1>19, <1>20, <1>21 DEF AllocInv

\* kalloc1k with nothing left at all
LEMMA Kalloc1kEmptyStep ==
    ASSUME AllocInv, Kalloc1k, m.free_list_1k = <<>>, m.free_list_4k = <<>>
    PROVE  AllocInv' /\ PoolStep
<1>1. UNCHANGED <<m, held1k, regions, held4k>>
  BY DEF Kalloc1k, kalloc1k, Refill, kalloc
<1>2. PoolStep
  BY <1>1 DEF PoolStep, Abs!abstractVars, FreePages, FreeChunks
<1> QED
  BY <1>1, <1>2 DEF AllocInv, AllocTypeOK, NothingShared, NothingLost, FreeSizeAccounts, Managed,
                    FreePages, FreeChunks, SplitPages

\* kfree1k of a chunk that is held
LEMMA Kfree1kStep ==
    ASSUME AllocInv, NEW chunk \in held1k, Kfree1k(chunk)
    PROVE  AllocInv' /\ PoolStep
<1>1. chunk \in Managed \X Quarters /\ chunk \notin FreeChunks
  BY DEF AllocInv, AllocTypeOK, NothingShared
<1> DEFINE list == page_list_prepend(m.free_list_1k, chunk)
<1>2. /\ list \in Seq(Managed \X Quarters)
      /\ Range(list) = FreeChunks \cup {chunk}
      /\ IsInjective(list)
      /\ Len(m.free_list_1k) \in Nat /\ Len(list) = Len(m.free_list_1k) + 1
  BY <1>1, PushList, ListsFromInv DEF Lists, FreeChunks
<1> HIDE DEF list
<1>3. m'.free_list_1k = list /\ m'.free_list_4k = m.free_list_4k /\ m' = [m EXCEPT !.free_list_1k = list]
  BY DEF Kfree1k, kfree1k, list, AllocInv, AllocTypeOK
<1>4. held1k' = held1k \ {chunk} /\ UNCHANGED <<regions, held4k>> /\ Managed' = Managed
  BY DEF Kfree1k, Managed
<1>5. FreePages' = FreePages /\ FreeChunks' = FreeChunks \cup {chunk} /\ SplitPages' = SplitPages
  BY <1>1, <1>2, <1>3, <1>4 DEF FreePages, FreeChunks, SplitPages
<1>6. AllocTypeOK'
  BY <1>2, <1>3, <1>4 DEF AllocInv, AllocTypeOK
<1>7. NothingShared' /\ NothingLost'
  BY <1>2, <1>3, <1>4, <1>5 DEF AllocInv, NothingShared, NothingLost
<1>8. /\ IsFiniteSet(held4k') /\ IsFiniteSet(held1k')
      /\ Cardinality(held1k') = Cardinality(held1k) - 1
  BY <1>4, FS_RemoveElement DEF AllocInv
<1>9. FreeSizeAccounts'
  <2>1. /\ Len(m.free_list_4k) \in Nat
        /\ Cardinality(held4k) \in Nat /\ Cardinality(held1k) \in Nat
    BY FS_CardinalityType, LenProperties, ListsFromInv DEF AllocInv, Lists
  <2> DEFINE n4 == Len(m.free_list_4k)
             n1 == Len(m.free_list_1k)
  <2>2. get_free_memory_size(m) = n1 + 4 * n4 /\ get_free_memory_size(m)' = n1 + 1 + 4 * n4
    BY <1>2, <1>3 DEF get_free_memory_size
  <2>3. n4 \in Nat /\ n1 \in Nat
    BY <1>2, <2>1
  <2> HIDE DEF n4, n1
  <2>4. get_free_memory_size(m)' + 4 * Cardinality(held4k)' + Cardinality(held1k)'
          = get_free_memory_size(m) + 4 * Cardinality(held4k) + Cardinality(held1k)
    BY <1>4, <1>8, <2>1, <2>2, <2>3
  <2> QED
    BY <1>4, <2>4 DEF AllocInv, FreeSizeAccounts
<1>10. PoolStep
  <2>1. Abs!TakeChunk(chunk)
    BY <1>4, <1>5 DEF Abs!TakeChunk
  <2> QED
    BY <2>1 DEF PoolStep, Abs!ANext
<1> QED
  BY <1>6, <1>7, <1>8, <1>9, <1>10 DEF AllocInv

\* kalloc_init of the second region: its pages are new to every list
LEMMA AddRegionStep == AllocInv /\ AddRegion => AllocInv' /\ PoolStep
<1> SUFFICES ASSUME AllocInv, AddRegion PROVE AllocInv' /\ PoolStep
  OBVIOUS
<1> DEFINE lo == RoundUpToPage(INITIAL_SIZE)
           hi == RoundDownToPage(TOTAL_SIZE)
           new == [i \in 1 .. hi - lo |-> hi - i]
           list == new \o m.free_list_4k
           All == Region1 \cup Region2
<1>1. lo \in Nat /\ hi \in Nat /\ lo <= hi
  BY RegionAssumption DEF RoundUpToPage, RoundDownToPage
<1>2. new \in Seq(lo .. hi - 1) /\ Range(new) = Region2 /\ IsInjective(new) /\ Len(new) = hi - lo
  BY <1>1, RegionList DEF Region2
<1>3. Managed = Region1 /\ Managed' = All /\ UNCHANGED <<held4k, held1k>>
  BY DEF AddRegion, Managed
<1>4. /\ m' = [m EXCEPT !.free_list_4k = list]
      /\ m'.free_list_4k = list /\ m'.free_list_1k = m.free_list_1k
  BY DEF AddRegion, kalloc_init, PageCount, AllocInv, AllocTypeOK
<1>5. new \in Seq(All) /\ m.free_list_4k \in Seq(All) /\ m.free_list_1k \in Seq(All \X Quarters)
  <2> HIDE DEF new
  <2>1. lo .. hi - 1 = Region2
    BY DEF Region2
  <2>2. m.free_list_4k \in Seq(Region1) /\ m.free_list_1k \in Seq(Region1 \X Quarters)
    BY <1>3, ListsFromInv DEF Lists
  <2> QED
    BY <1>2, <2>1, <2>2
<1>6. FreePages \subseteq Region1 /\ Range(new) \cap Range(m.free_list_4k) = {}
  <2>1. \A i \in DOMAIN m.free_list_4k : m.free_list_4k[i] \in Region1
    BY <1>3, ListsFromInv, ElementOfSeq, LenProperties DEF Lists
  <2> HIDE DEF new
  <2>2. FreePages \subseteq Region1
    BY <2>1 DEF FreePages, Range
  <2> QED
    BY <1>2, <2>2, RegionFacts DEF FreePages
<1> HIDE DEF new, All
<1>7. /\ list \in Seq(All)
      /\ Range(list) = Region2 \cup FreePages
      /\ IsInjective(list)
      /\ Len(new) \in Nat /\ Len(m.free_list_4k) \in Nat /\ Len(list) = Len(new) + Len(m.free_list_4k)
  <2>1. IsInjective(m.free_list_4k)
    BY ListsFromInv DEF Lists
  <2> DEFINE old == m.free_list_4k
  <2>2. old \in Seq(All) /\ IsInjective(old) /\ Disjoint(Range(new), Range(old)) /\ FreePages = Range(old)
    BY <1>5, <1>6, <2>1 DEF FreePages, Disjoint
  <2> HIDE DEF old
  <2>3. new \in Seq(All) /\ IsInjective(new) /\ list = new \o old
    BY <1>2, <1>5 DEF old
  <2> HIDE DEF list
  <2>4. /\ list \in Seq(All)
        /\ Len(list) = Len(new) + Len(old)
        /\ IsJoin(new, old, list)
    BY <2>2, <2>3, ConcatProperties DEF IsJoin
  <2>5. Range(list) = Range(new) \cup Range(old) /\ IsInjective(list)
    <3>1. new \in Seq(All) /\ old \in Seq(All) /\ list \in Seq(All)
      BY <2>2, <2>3, <2>4
    <3>2. IsInjective(new) /\ IsInjective(old)
      BY <2>2, <2>3
    <3>3. IsJoin(new, old, list) /\ Disjoint(Range(new), Range(old))
      BY <2>2, <2>4
    <3> QED
      BY ONLY <3>1, <3>2, <3>3, JoinLists
  <2>6. Len(new) \in Nat /\ Len(old) \in Nat
    BY <2>2, <2>3, LenProperties
  <2> QED
    BY <1>2, <2>2, <2>4, <2>5, <2>6 DEF old
<1> HIDE DEF list
<1>8. FreePages' = Region2 \cup FreePages /\ FreeChunks' = FreeChunks
  BY <1>4, <1>7 DEF FreePages, FreeChunks
<1>9. held4k \subseteq Region1 /\ held1k \subseteq Region1 \X Quarters
  BY <1>3 DEF AllocInv, AllocTypeOK
<1>10. SplitPages' = SplitPages
  BY <1>3, <1>6, <1>8, <1>9, RegionFacts DEF SplitPages, All
<1>11. AllocTypeOK'
  <2>1. m' \in [free_list_4k : Seq(All), free_list_1k : Seq(All \X Quarters)]
    BY <1>4, <1>5, <1>7 DEF AllocInv, AllocTypeOK
  <2>2. held4k' \subseteq All /\ held1k' \subseteq All \X Quarters /\ regions' \in {1, 2}
    BY <1>3, <1>9 DEF All, AddRegion
  <2> QED
    BY <1>3, <2>1, <2>2 DEF AllocTypeOK
<1>12. NothingShared' /\ NothingLost'
  BY <1>3, <1>4, <1>7, <1>8, <1>9, <1>10, RegionFacts DEF AllocInv, NothingShared, NothingLost
<1>13. FreeSizeAccounts'
  <2>1. /\ Len(m.free_list_1k) \in Nat
        /\ Cardinality(held4k) \in Nat /\ Cardinality(held1k) \in Nat
    BY FS_CardinalityType, LenProperties, ListsFromInv DEF AllocInv, Lists
  <2> DEFINE n4 == Len(m.free_list_4k)
             n1 == Len(m.free_list_1k)
             n == Len(new)
             c1 == Cardinality(Region1)
             c2 == Cardinality(Region2)
             h4 == Cardinality(held4k)
             h1 == Cardinality(held1k)
  <2>2. get_free_memory_size(m) = n1 + 4 * n4 /\ get_free_memory_size(m)' = n1 + 4 * (n + n4)
    BY <1>4, <1>7 DEF get_free_memory_size
  <2>3. n4 \in Nat /\ n1 \in Nat /\ n \in Nat /\ c1 \in Nat /\ c2 \in Nat /\ c2 = n
       /\ h4 \in Nat /\ h1 \in Nat
    BY <1>2, <1>7, <2>1, RegionFacts DEF PageCount
  <2>4. Cardinality(All) = c1 + c2 - 0
    BY RegionFacts, FS_Union, FS_EmptySet DEF All
  <2>5. Cardinality(Managed) = c1 /\ Cardinality(Managed)' = c1 + c2
    BY <1>3, <2>3, <2>4
  <2> HIDE DEF n4, n1, n, c1, c2
  <2>6. n1 + 4 * n4 + 4 * h4 + h1 = 4 * c1
    BY <2>2, <2>5 DEF AllocInv, FreeSizeAccounts
  <2>7. n1 + 4 * (n + n4) + 4 * h4 + h1 = 4 * (c1 + c2)
    <3> HIDE DEF h4, h1
    <3> QED
      BY <2>3, <2>6
  <2> QED
    BY <1>3, <2>2, <2>5, <2>7 DEF FreeSizeAccounts
<1>14. PoolStep
  <2>1. \A chunk \in FreeChunks \cup held1k : chunk[1] \in Region1
    BY <1>3 DEF AllocInv, NothingShared, SplitPages
  <2>2. Region2 \cap (FreePages \cup held4k \cup {chunk[1] : chunk \in FreeChunks \cup held1k}) = {}
    BY <1>6, <1>9, <2>1, RegionFacts
  <2> QED
    BY <1>3, <1>8, <2>2 DEF PoolStep, Abs!ANext, Abs!HandOver
<1> QED
  BY <1>3, <1>11, <1>12, <1>13, <1>14 DEF AllocInv
-----------------------------------------------------------------------------
\* Every step of the free lists keeps the invariant and is a step of the pool.
LEMMA AllocInvNext == AllocInv /\ [AllocNext]_allocVars => AllocInv' /\ PoolStep
<1> SUFFICES ASSUME AllocInv, [AllocNext]_allocVars PROVE AllocInv' /\ PoolStep
  OBVIOUS
<1>1. CASE AddRegion
  BY <1>1, AddRegionStep
<1>2. CASE Kalloc4k
  BY <1>2, KallocStep
<1>3. CASE \E page \in held4k : Kfree4k(page)
  BY <1>3, KfreeStep
<1>4. CASE Kalloc1k
  BY <1>4, Kalloc1kPopStep, Kalloc1kCutStep, Kalloc1kEmptyStep
<1>5. CASE \E chunk \in held1k : Kfree1k(chunk)
  BY <1>5, Kfree1kStep
<1>6. CASE UNCHANGED allocVars
  <2>1. PoolStep
    BY <1>6 DEF PoolStep, Abs!abstractVars, allocVars, FreePages, FreeChunks
  <2> QED
    BY <1>6, <2>1 DEF allocVars, AllocInv, AllocTypeOK, NothingShared, NothingLost, FreeSizeAccounts,
                      Managed, FreePages, FreeChunks, SplitPages
<1> QED
  BY <1>1, <1>2, <1>3, <1>4, <1>5, <1>6 DEF AllocNext

\* The invariant holds of every behaviour.
THEOREM AllocInvariance == AllocSpec => []AllocInv
<1>1. AllocInit => AllocInv
  BY AllocInvInit
<1>2. AllocInv /\ [AllocNext]_allocVars => AllocInv'
  BY AllocInvNext
<1> QED
  BY <1>1, <1>2, PTL DEF AllocSpec

\* The lists hold only managed pages and quarters of managed pages.
THEOREM AllocTypeCorrect == AllocSpec => []AllocTypeOK
<1>1. AllocInv => AllocTypeOK
  BY DEF AllocInv
<1> QED
  BY <1>1, AllocInvariance, PTL

\* kalloc and kalloc1k never give out memory somebody holds, whole or in part.
THEOREM NeverGivenTwice == AllocSpec => []NothingShared
<1>1. AllocInv => NothingShared
  BY DEF AllocInv
<1> QED
  BY <1>1, AllocInvariance, PTL

\* Cutting pages into chunks loses nothing.
THEOREM NeverLost == AllocSpec => []NothingLost
<1>1. AllocInv => NothingLost
  BY DEF AllocInv
<1> QED
  BY <1>1, AllocInvariance, PTL

\* get_free_memory_size() accounts for every kilobyte.
THEOREM FreeSizeIsExact == AllocSpec => []FreeSizeAccounts
<1>1. AllocInv => FreeSizeAccounts
  BY DEF AllocInv
<1> QED
  BY <1>1, AllocInvariance, PTL

\* The linked lists of kalloc.c implement the pool on which the rest of the
\* kernel is modelled: the order of the lists is all they add to it.
THEOREM ListsImplementPool == AllocSpec => ImplementsPool
<1>1. AllocInit => Abs!AInit
  <2> SUFFICES ASSUME AllocInit PROVE Abs!AInit
    OBVIOUS
  <2>1. FreePages = Region1 /\ FreeChunks = {}
    BY AllocInvInit
  <2> QED
    BY <2>1 DEF AllocInit, Abs!AInit
<1>2. AllocInv /\ [AllocNext]_allocVars => [Abs!ANext]_(Abs!abstractVars)
  BY AllocInvNext DEF PoolStep
<1> QED
  BY <1>1, <1>2, AllocInvariance, PTL DEF AllocSpec, ImplementsPool, Abs!ASpec
=============================================================================
