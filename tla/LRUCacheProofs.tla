--------------------------- MODULE LRUCacheProofs ---------------------------
(***************************************************************************)
(* Proofs about LRUCache, for any keys, values and sizes of them, and any  *)
(* capacity that the width of the counter allows: list, table and size     *)
(* always agree, the entries that go are the oldest, and no more of them   *)
(* than needed, and a file that was saved in full is loaded in full.       *)
(*                                                                         *)
(* Sizes are sums over lists, so these proofs need inductions, which are   *)
(* on sets of numbers (IntervalInduction).                                 *)
(***************************************************************************)
EXTENDS LRUCache, SequenceTheorems, FiniteSetTheorems, WellFoundedInduction, TLAPS

\* What an entry of the list can be.
Entry == {e \in [key : Keys, value : Values, size : Nat] : e.size = ValueSize[e.value]}

Distinct(l) == \A m, n \in DOMAIN l : l[m].key = l[n].key => m = n

\* A cache whose list, table and size agree.
Agrees(c) ==
    /\ c = [list |-> c.list, table |-> c.table, size |-> c.size]
    /\ c.list \in Seq(Entry)
    /\ c.table = KeysOf(c.list)
    /\ Distinct(c.list)
    /\ c.size = Total(c.list)

\* Such a cache is within its capacity after every operation.
Consistent(c) == Agrees(c) /\ c.size <= Capacity

-----------------------------------------------------------------------------
(* Numbers *)

Less == OpToRel(<, Nat)

\* The order of the natural numbers.
LEMMA LessIsWellFounded == /\ IsWellFoundedOn(Less, Nat)
                           /\ \A x, y \in Nat : x < y => <<x, y>> \in Less
<1>1. IsWellFoundedOn(Less, Nat)
    BY NatLessThanWellFounded, Zenon DEF Less
<1>2. \A x, y \in Nat : x < y => <<x, y>> \in Less
    BY DEF Less, OpToRel
<1>3. QED
    BY <1>1, <1>2

\* A set of numbers has a least one.
LEMMA LeastNumber ==
    ASSUME NEW T \in SUBSET Nat, T # {}
    PROVE  \E x \in T : \A y \in T : x <= y
<1>1. T \subseteq Nat /\ IsWellFoundedOn(Less, Nat)
    BY LessIsWellFounded
<1>2. PICK x \in T : \A y \in T : ~(<<y, x>> \in Less)
    BY <1>1, WFMin, Zenon
<1>3. x \in Nat /\ \A y \in T : y \in Nat /\ ~(y < x)
    BY <1>1, <1>2, LessIsWellFounded
<1>4. QED
    BY <1>3

\* What holds of 0, and of n + 1 when it holds of n < m, holds up to m.
LEMMA IntervalInduction ==
    ASSUME NEW m \in Nat, NEW S, 0 \in S, \A n \in 0..(m - 1) : n \in S => n + 1 \in S
    PROVE  0..m \subseteq S
<1> DEFINE T == {n \in 0..m : n \notin S}
<1> SUFFICES ASSUME T # {} PROVE FALSE
    OBVIOUS
<1>0. T \in SUBSET Nat /\ T # {}
    OBVIOUS
<1> HIDE DEF T
<1>1. PICK x \in T : \A y \in T : x <= y
    BY <1>0, LeastNumber
<1> USE DEF T
<1>2. x # 0 /\ x - 1 \in 0..(m - 1) /\ x - 1 \notin T
    BY <1>1
<1>3. QED
    BY <1>2

\* The counter has a range.
LEMMA PowerOfTwo == \A w \in Nat : 2 ^ w \in Nat \ {0}
<1> SUFFICES ASSUME NEW w \in Nat PROVE 2 ^ w \in Nat \ {0}
    OBVIOUS
<1>1. IsFiniteSet(1..w) /\ Cardinality(1..w) = w
    BY FS_Interval
<1>2. IsFiniteSet(SUBSET (1..w)) /\ Cardinality(SUBSET (1..w)) = 2 ^ w
    BY <1>1, FS_SUBSET
<1>3. Cardinality(SUBSET (1..w)) \in Nat \ {0}
    BY <1>2, FS_CardinalityType, FS_EmptySet
<1>4. QED
    BY <1>2, <1>3

\* A number within the range of the counter is itself, a small negative one wraps.
LEMMA Wrap ==
    ASSUME NEW m \in Nat \ {0}, NEW a \in Int
    PROVE  /\ 0 <= a /\ a < m => a % m = a
           /\ -m <= a /\ a < 0 => a % m = a + m
           /\ m <= a /\ a < 2 * m => a % m = a - m
  OBVIOUS

-----------------------------------------------------------------------------
(* The size of a list *)

\* The sum by which Total is defined exists, and adds the sizes up from the front.
LEMMA TotalSum ==
    ASSUME NEW l \in Seq(Entry)
    PROVE  \E sum \in [0..Len(l) -> Nat] :
              /\ sum[0] = 0
              /\ \A n \in 1..Len(l) : sum[n] = sum[n - 1] + l[n].size
              /\ Total(l) = sum[Len(l)]
<1> DEFINE IsSum(f) == f = [n \in 0..Len(l) |-> IF n = 0 THEN 0 ELSE f[n - 1] + l[n].size]
           Partial(f, k) == /\ f[0] = 0
                            /\ \A n \in 1..k : f[n] = f[n - 1] + l[n].size
           S == {k \in 0..Len(l) : \E f \in [0..k -> Nat] : Partial(f, k)}
<1>0. Len(l) \in Nat /\ \A n \in 1..Len(l) : l[n].size \in Nat
    BY DEF Entry
<1> HIDE DEF Partial
<1>1. 0 \in S
    <2> DEFINE g == [n \in 0..0 |-> 0]
    <2>1. g \in [0..0 -> Nat] /\ Partial(g, 0)
        BY DEF Partial
    <2> HIDE DEF g
    <2>2. QED
        BY <1>0, <2>1
<1>2. ASSUME NEW k \in 0..(Len(l) - 1), k \in S PROVE k + 1 \in S
    <2>1. PICK f \in [0..k -> Nat] : Partial(f, k)
        BY <1>2
    <2> DEFINE g == [n \in 0..(k + 1) |-> IF n = k + 1 THEN f[k] + l[k + 1].size ELSE f[n]]
    <2>2. g \in [0..(k + 1) -> Nat]
        BY <1>0
    <2>3. Partial(g, k + 1)
        BY <1>0, <2>1 DEF Partial
    <2> HIDE DEF g
    <2>4. QED
        BY <1>0, <2>2, <2>3
<1>3. PICK f \in [0..Len(l) -> Nat] : Partial(f, Len(l))
    <2> HIDE DEF S
    <2>1. 0..Len(l) \subseteq S
        BY <1>0, <1>1, <1>2, IntervalInduction
    <2>2. Len(l) \in S
        BY <1>0, <2>1
    <2> USE DEF S
    <2>3. QED
        BY <2>2
<1>4. IsSum(f)
    BY <1>0, <1>3 DEF Partial
<1> DEFINE sum == CHOOSE g : IsSum(g)
<1>5. IsSum(sum)
    BY <1>4
<1>6. Total(l) = sum[Len(l)]
    BY DEF Total
<1> HIDE DEF sum
<1>7. /\ sum[0] = 0
      /\ \A n \in 1..Len(l) : sum[n] = sum[n - 1] + l[n].size
      /\ DOMAIN sum = 0..Len(l)
    BY <1>0, <1>5
<1>8. sum \in [0..Len(l) -> Nat]
    <2> DEFINE N == {n \in 0..Len(l) : sum[n] \in Nat}
    <2>1. 0 \in N
        BY <1>0, <1>7
    <2>2. ASSUME NEW n \in 0..(Len(l) - 1), n \in N PROVE n + 1 \in N
        BY <1>0, <1>7, <2>2
    <2>3. 0..Len(l) \subseteq N
        BY <1>0, <2>1, <2>2, IntervalInduction
    <2>4. sum = [n \in 0..Len(l) |-> sum[n]]
        BY <1>5
    <2>5. QED
        BY <2>3, <2>4
<1>9. QED
    BY <1>6, <1>7, <1>8

\* The size of a list is that of its two parts; an empty one has none.
LEMMA TotalConcat ==
    ASSUME NEW s \in Seq(Entry), NEW t \in Seq(Entry)
    PROVE  /\ s \o t \in Seq(Entry)
           /\ Total(s) \in Nat
           /\ Total(s \o t) = Total(s) + Total(t)
<1>0. /\ s \o t \in Seq(Entry) /\ Len(s \o t) = Len(s) + Len(t)
      /\ Len(s) \in Nat /\ Len(t) \in Nat
      /\ \A n \in 1..Len(s) : (s \o t)[n] = s[n] /\ s[n].size \in Nat
      /\ \A n \in 1..Len(t) : (s \o t)[Len(s) + n] = t[n] /\ t[n].size \in Nat
    BY DEF Entry
<1>1. PICK f \in [0..Len(s) -> Nat] :
          /\ f[0] = 0
          /\ \A n \in 1..Len(s) : f[n] = f[n - 1] + s[n].size
          /\ Total(s) = f[Len(s)]
    BY TotalSum
<1>2. PICK g \in [0..Len(t) -> Nat] :
          /\ g[0] = 0
          /\ \A n \in 1..Len(t) : g[n] = g[n - 1] + t[n].size
          /\ Total(t) = g[Len(t)]
    BY TotalSum
<1>3. PICK h \in [0..Len(s \o t) -> Nat] :
          /\ h[0] = 0
          /\ \A n \in 1..Len(s \o t) : h[n] = h[n - 1] + (s \o t)[n].size
          /\ Total(s \o t) = h[Len(s \o t)]
    BY <1>0, TotalSum
<1>4. \A n \in 0..Len(s) : h[n] = f[n]
    <2> DEFINE S == {n \in 0..Len(s) : h[n] = f[n]}
    <2>1. 0 \in S
        BY <1>0, <1>1, <1>3
    <2>2. ASSUME NEW n \in 0..(Len(s) - 1), n \in S PROVE n + 1 \in S
        BY <1>0, <1>1, <1>3, <2>2
    <2> HIDE DEF S
    <2>3. 0..Len(s) \subseteq S
        BY <1>0, <2>1, <2>2, IntervalInduction
    <2> USE DEF S
    <2>4. QED
        BY <2>3
<1>5. \A n \in 0..Len(t) : h[Len(s) + n] = f[Len(s)] + g[n]
    <2> DEFINE S == {n \in 0..Len(t) : h[Len(s) + n] = f[Len(s)] + g[n]}
    <2>1. 0 \in S
        <3>1. h[Len(s) + 0] = f[Len(s)] /\ f[Len(s)] \in Nat
            BY <1>0, <1>4
        <3>2. QED
            BY <1>0, <1>2, <3>1
    <2>2. ASSUME NEW n \in 0..(Len(t) - 1), n \in S PROVE n + 1 \in S
        <3>1. Len(s) + (n + 1) \in 1..Len(s \o t) /\ n + 1 \in 1..Len(t)
            BY <1>0
        <3>2. h[Len(s) + (n + 1)] = h[(Len(s) + (n + 1)) - 1] + t[n + 1].size
            BY <1>0, <1>3, <3>1
        <3>3. (Len(s) + (n + 1)) - 1 = Len(s) + n
            BY <1>0
        <3>4. g[n + 1] = g[n] + t[n + 1].size
            BY <1>2, <3>1
        <3>5. g[n] \in Nat /\ f[Len(s)] \in Nat /\ t[n + 1].size \in Nat
            <4>1. n \in 0..Len(t) /\ Len(s) \in 0..Len(s)
                BY <1>0
            <4>2. QED
                BY <1>0, <3>1, <4>1
        <3>6. h[Len(s) + (n + 1)] = f[Len(s)] + g[n + 1]
            BY <2>2, <3>2, <3>3, <3>4, <3>5
        <3>7. QED
            BY <3>1, <3>6
    <2> HIDE DEF S
    <2>3. 0..Len(t) \subseteq S
        BY <1>0, <2>1, <2>2, IntervalInduction
    <2> USE DEF S
    <2>4. QED
        BY <2>3
<1>6. QED
    BY <1>0, <1>1, <1>2, <1>3, <1>5

\* The sizes of the shortest lists.
LEMMA TotalShort ==
    /\ Total(<<>>) = 0
    /\ \A e \in Entry : Total(<<e>>) = e.size
<1>1. Total(<<>>) = 0
    <2>1. <<>> \in Seq(Entry) /\ Len(<<>>) = 0
        OBVIOUS
    <2>2. QED
        BY <2>1, TotalSum
<1>2. ASSUME NEW e \in Entry PROVE Total(<<e>>) = e.size
    <2>1. <<e>> \in Seq(Entry) /\ Len(<<e>>) = 1 /\ <<e>>[1] = e /\ e.size \in Nat
        BY DEF Entry
    <2>2. PICK sum \in [0..Len(<<e>>) -> Nat] :
              /\ sum[0] = 0
              /\ \A n \in 1..Len(<<e>>) : sum[n] = sum[n - 1] + <<e>>[n].size
              /\ Total(<<e>>) = sum[Len(<<e>>)]
        BY <2>1, TotalSum
    <2>3. Total(<<e>>) = sum[1] /\ sum[1] = sum[0] + e.size
        BY <2>1, <2>2
    <2>4. QED
        BY <2>1, <2>2, <2>3
<1>3. QED
    BY <1>1, <1>2

-----------------------------------------------------------------------------
(* Parts of a list *)

\* A list and what CheckCapacity takes from it.
LEMMA Split ==
    ASSUME NEW l \in Seq(Entry), NEW n \in 0..Len(l)
    PROVE  LET front == SubSeq(l, 1, n)
               back == SubSeq(l, n + 1, Len(l))
           IN  /\ front \in Seq(Entry) /\ back \in Seq(Entry)
               /\ Len(front) = n /\ Len(back) = Len(l) - n
               /\ \A i \in 1..n : front[i] = l[i]
               /\ \A i \in 1..(Len(l) - n) : back[i] = l[n + i]
               /\ Total(l) = Total(front) + Total(back)
               /\ Total(front) \in Nat /\ Total(back) \in Nat
<1> DEFINE front == SubSeq(l, 1, n)
           back == SubSeq(l, n + 1, Len(l))
<1>1. /\ front \in Seq(Entry) /\ back \in Seq(Entry)
      /\ Len(front) = n /\ Len(back) = Len(l) - n
      /\ \A i \in 1..n : front[i] = l[i]
      /\ \A i \in 1..(Len(l) - n) : back[i] = l[n + i]
    OBVIOUS
<1>2. l = front \o back
    <2>1. 1 \in 1..(Len(l) + 1) /\ n \in (1 - 1)..Len(l) /\ Len(l) \in n..Len(l)
        OBVIOUS
    <2>2. \A k \in (1 - 1)..Len(l) : \A m \in k..Len(l) :
              SubSeq(l, 1, k) \o SubSeq(l, k + 1, m) = SubSeq(l, 1, m)
        BY <2>1, ConcatAdjacentSubSeq, Zenon
    <2>3. SubSeq(l, 1, Len(l)) = front \o back
        BY <2>1, <2>2
    <2>4. QED
        BY <2>3, SubSeqFull
<1> HIDE DEF front, back
<1>3. QED
    BY <1>1, <1>2, TotalConcat DEF front, back

\* A list without one of its elements.
LEMMA Removed ==
    ASSUME NEW l \in Seq(Entry), NEW p \in 1..Len(l)
    PROVE  LET rest == RemoveAt(l, p)
           IN  /\ rest \in Seq(Entry) /\ Len(rest) = Len(l) - 1
               /\ \A i \in 1..(Len(l) - 1) : rest[i] = IF i < p THEN l[i] ELSE l[i + 1]
               /\ Total(l) = Total(rest) + l[p].size
<1> DEFINE front == SubSeq(l, 1, p - 1)
           back == SubSeq(l, p, Len(l))
           last == SubSeq(l, p + 1, Len(l))
<1>1. p - 1 \in 0..Len(l) /\ p \in 0..Len(l) /\ (p - 1) + 1 = p
    OBVIOUS
<1>2. /\ front \in Seq(Entry) /\ back \in Seq(Entry)
      /\ Len(front) = p - 1 /\ Len(back) = Len(l) - (p - 1)
      /\ \A i \in 1..(p - 1) : front[i] = l[i]
      /\ \A i \in 1..(Len(l) - (p - 1)) : back[i] = l[(p - 1) + i]
      /\ Total(l) = Total(front) + Total(back)
      /\ Total(front) \in Nat /\ Total(back) \in Nat
    BY <1>1, Split
<1>3. /\ last \in Seq(Entry)
      /\ Len(last) = Len(l) - p
      /\ \A i \in 1..(Len(l) - p) : last[i] = l[p + i]
      /\ Total(last) \in Nat
    BY <1>1, Split
<1>4. RemoveAt(l, p) = front \o last
    BY DEF RemoveAt
<1> HIDE DEF front, back, last
<1>5. back = <<l[p]>> \o last /\ <<l[p]>> \in Seq(Entry) /\ l[p] \in Entry
    <2>1. Len(l) \in p..Len(l) /\ l[p] \in Entry
        OBVIOUS
    <2>2. QED
        BY <2>1, SubSeqRecursiveFirst DEF back, last
<1>6. Total(back) = l[p].size + Total(last)
    BY <1>3, <1>5, TotalConcat, TotalShort
<1>7. front \o last \in Seq(Entry) /\ Total(front \o last) = Total(front) + Total(last)
    BY <1>2, <1>3, TotalConcat
<1>8. /\ Len(front \o last) = Len(l) - 1
      /\ \A i \in 1..(Len(l) - 1) : (front \o last)[i] = IF i < p THEN l[i] ELSE l[i + 1]
    <2>0. /\ Len(front \o last) = Len(front) + Len(last)
          /\ \A i \in 1..(Len(front) + Len(last)) :
                 (front \o last)[i] = IF i <= Len(front) THEN front[i] ELSE last[i - Len(front)]
        BY <1>2, <1>3, ConcatProperties, Zenon
    <2>1. /\ Len(l) \in Nat /\ Len(front \o last) = Len(l) - 1
          /\ \A i \in 1..(Len(l) - 1) :
                 (front \o last)[i] = IF i <= p - 1 THEN front[i] ELSE last[i - (p - 1)]
        <3>1. Len(l) \in Nat /\ Len(front) + Len(last) = Len(l) - 1
            BY <1>2, <1>3
        <3>2. QED
            BY <1>2, <2>0, <3>1
    <2>2. ASSUME NEW i \in 1..(Len(l) - 1), i < p PROVE (front \o last)[i] = l[i]
        BY <1>2, <2>1, <2>2
    <2>3. ASSUME NEW i \in 1..(Len(l) - 1), ~(i < p) PROVE (front \o last)[i] = l[i + 1]
        <3>1. i - (p - 1) \in 1..(Len(l) - p) /\ p + (i - (p - 1)) = i + 1
            BY <2>1, <2>3
        <3>2. (front \o last)[i] = last[i - (p - 1)]
            BY <2>1, <2>3
        <3>3. QED
            BY <1>3, <3>1, <3>2
    <2>4. QED
        BY <2>1, <2>2, <2>3
<1>9. l[p].size \in Nat
    BY <1>5 DEF Entry
<1>10. Total(l) = Total(front \o last) + l[p].size
    BY <1>2, <1>3, <1>6, <1>7, <1>9
<1>11. QED
    BY <1>4, <1>7, <1>8, <1>10

-----------------------------------------------------------------------------
(* The operations *)

\* The element that the table has for a key, and the list without it.
LEMMA OthersOf ==
    ASSUME NEW c, Agrees(c), NEW k
    PROVE  LET rest == Others(c, k)
           IN  /\ rest \in Seq(Entry) /\ Distinct(rest)
               /\ KeysOf(rest) = c.table \ {k}
               /\ Total(rest) \in Nat
               /\ k \notin c.table => rest = c.list
               /\ k \in c.table => /\ Place(c, k) \in 1..Len(c.list)
                                   /\ Find(c, k) \in Entry /\ Find(c, k).key = k
                                   /\ c.size = Total(rest) + Find(c, k).size
<1> DEFINE l == c.list
           p == Place(c, k)
           rest == Others(c, k)
<1>0. /\ l \in Seq(Entry) /\ Len(l) \in Nat /\ DOMAIN l = 1..Len(l)
      /\ c.table = KeysOf(l) /\ Distinct(l) /\ c.size = Total(l)
    BY LenProperties DEF Agrees
<1>1. CASE k \notin c.table
    <2>1. rest = l
        BY <1>1 DEF Others
    <2>2. Total(l) \in Nat
        BY <1>0, TotalConcat
    <2>3. QED
        BY <1>0, <1>1, <2>1, <2>2
<1>2. CASE k \in c.table
    <2>1. p \in 1..Len(l) /\ l[p].key = k
        BY <1>0, <1>2 DEF Place, KeysOf
    <2>2. l[p] \in Entry /\ l[p].size \in Nat
        BY <1>0, <2>1, ElementOfSeq DEF Entry
    <2>3. rest = RemoveAt(l, p)
        BY <1>2 DEF Others
    <2>4. /\ rest \in Seq(Entry) /\ Len(rest) = Len(l) - 1
          /\ \A i \in 1..(Len(l) - 1) : rest[i] = IF i < p THEN l[i] ELSE l[i + 1]
          /\ Total(l) = Total(rest) + l[p].size
        BY <1>0, <2>1, <2>3, Removed
    <2> HIDE DEF l, p, rest
    <2>5. DOMAIN rest = 1..(Len(l) - 1) /\ Total(rest) \in Nat
        BY <2>4, LenProperties, TotalConcat
    <2>6. Distinct(rest)
        <3> DEFINE Old(i) == IF i < p THEN i ELSE i + 1
        <3>1. \A i \in DOMAIN rest : Old(i) \in DOMAIN l /\ rest[i] = l[Old(i)]
            BY <1>0, <2>1, <2>4, <2>5
        <3>2. \A i, j \in DOMAIN rest : Old(i) = Old(j) => i = j
            BY <1>0, <2>1, <2>5
        <3> HIDE DEF Old
        <3>3. QED
            BY <1>0, <3>1, <3>2 DEF Distinct
    <2>7. KeysOf(rest) = KeysOf(l) \ {k}
        <3>1. ASSUME NEW i \in 1..(Len(l) - 1) PROVE rest[i].key \in KeysOf(l) \ {k}
            <4>1. CASE i < p
                <5>1. rest[i] = l[i] /\ i \in DOMAIN l /\ i # p
                    BY <1>0, <2>1, <2>4, <4>1
                <5>2. QED
                    BY <1>0, <2>1, <5>1 DEF KeysOf, Distinct
            <4>2. CASE ~(i < p)
                <5>1. rest[i] = l[i + 1] /\ i + 1 \in DOMAIN l /\ i + 1 # p
                    BY <1>0, <2>1, <2>4, <4>2
                <5>2. QED
                    BY <1>0, <2>1, <5>1 DEF KeysOf, Distinct
            <4>3. QED
                BY <4>1, <4>2
        <3>2. ASSUME NEW j \in DOMAIN l, l[j].key # k PROVE l[j].key \in KeysOf(rest)
            <4>1. CASE j < p
                <5>1. j \in DOMAIN rest /\ rest[j] = l[j]
                    BY <1>0, <2>1, <2>4, <2>5, <4>1
                <5>2. QED
                    BY <5>1 DEF KeysOf
            <4>2. CASE j > p
                <5>1. j - 1 \in DOMAIN rest /\ rest[j - 1] = l[j]
                    BY <1>0, <2>1, <2>4, <2>5, <4>2
                <5>2. QED
                    BY <5>1 DEF KeysOf
            <4>3. QED
                BY <1>0, <2>1, <3>2, <4>1, <4>2
        <3>3. QED
            BY <2>5, <3>1, <3>2 DEF KeysOf
    <2>8. Find(c, k) = l[p]
        BY DEF Find, l, p
    <2>9. QED
        BY <1>0, <1>2, <2>1, <2>2, <2>4, <2>5, <2>6, <2>7, <2>8 DEF l, p, rest
<1>3. QED
    BY <1>1, <1>2

\* An element in front of a list that has none with its key.
LEMMA PushFront ==
    ASSUME NEW e \in Entry, NEW rest \in Seq(Entry), Distinct(rest), e.key \notin KeysOf(rest)
    PROVE  LET l == <<e>> \o rest
           IN  /\ l \in Seq(Entry) /\ Distinct(l)
               /\ KeysOf(l) = KeysOf(rest) \cup {e.key}
               /\ Total(l) = e.size + Total(rest)
               /\ Len(l) = Len(rest) + 1 /\ l[1] = e
               /\ \A i \in 1..Len(rest) : l[i + 1] = rest[i]
<1> DEFINE l == <<e>> \o rest
<1>1. <<e>> \in Seq(Entry) /\ Len(<<e>>) = 1 /\ <<e>>[1] = e
    OBVIOUS
<1>2. Len(rest) \in Nat /\ DOMAIN rest = 1..Len(rest)
    BY LenProperties
<1>3. /\ l \in Seq(Entry) /\ Len(l) = 1 + Len(rest)
      /\ \A i \in 1..(1 + Len(rest)) : l[i] = IF i <= 1 THEN <<e>>[i] ELSE rest[i - 1]
    BY <1>1, ConcatProperties
<1>4. Total(l) = e.size + Total(rest)
    BY <1>1, TotalConcat, TotalShort
<1> HIDE DEF l
<1>5. DOMAIN l = 1..(1 + Len(rest))
    BY <1>3, LenProperties
<1>6. l[1] = e /\ \A i \in 1..Len(rest) : l[i + 1] = rest[i]
    BY <1>1, <1>2, <1>3
<1>7. ASSUME NEW j \in DOMAIN l, j # 1 PROVE j - 1 \in DOMAIN rest /\ l[j] = rest[j - 1]
    <2>1. j \in 1..(1 + Len(rest)) /\ ~(j <= 1) /\ j - 1 \in 1..Len(rest)
        BY <1>2, <1>5, <1>7
    <2>2. QED
        BY <1>2, <1>3, <2>1
<1>8. KeysOf(l) = KeysOf(rest) \cup {e.key}
    <2>1. \A j \in DOMAIN l : l[j].key \in KeysOf(rest) \cup {e.key}
        BY <1>6, <1>7 DEF KeysOf
    <2>2. \A i \in DOMAIN rest : rest[i].key \in KeysOf(l)
        <3> SUFFICES ASSUME NEW i \in DOMAIN rest PROVE rest[i].key \in KeysOf(l)
            OBVIOUS
        <3>1. i + 1 \in DOMAIN l /\ l[i + 1] = rest[i]
            BY <1>2, <1>5, <1>6
        <3>2. QED
            BY <3>1 DEF KeysOf
    <2>3. 1 \in DOMAIN l /\ l[1].key = e.key
        BY <1>2, <1>5, <1>6
    <2>4. QED
        BY <2>1, <2>2, <2>3 DEF KeysOf
<1>9. Distinct(l)
    <2> SUFFICES ASSUME NEW m \in DOMAIN l, NEW n \in DOMAIN l, l[m].key = l[n].key
                 PROVE  m = n
        BY DEF Distinct
    <2>1. CASE m = 1 /\ n # 1
        BY <1>6, <1>7, <2>1 DEF KeysOf
    <2>2. CASE m # 1 /\ n = 1
        BY <1>6, <1>7, <2>2 DEF KeysOf
    <2>3. CASE m # 1 /\ n # 1
        BY <1>2, <1>5, <1>7, <2>3 DEF Distinct
    <2>4. QED
        BY <2>1, <2>2, <2>3
<1>10. QED
    BY <1>2, <1>3, <1>4, <1>6, <1>8, <1>9 DEF l

\* Its head and tail.
LEMMA HeadTailOfFront ==
    ASSUME NEW e \in Entry, NEW rest \in Seq(Entry)
    PROVE  Head(<<e>> \o rest) = e /\ Tail(<<e>> \o rest) = rest
<1> DEFINE l == <<e>> \o rest
<1>1. <<e>> \in Seq(Entry) /\ Len(<<e>>) = 1 /\ <<e>>[1] = e
    OBVIOUS
<1>2. Len(rest) \in Nat /\ DOMAIN rest = 1..Len(rest)
    BY LenProperties
<1>3. /\ l \in Seq(Entry) /\ Len(l) = 1 + Len(rest)
      /\ \A i \in 1..(1 + Len(rest)) : l[i] = IF i <= 1 THEN <<e>>[i] ELSE rest[i - 1]
    BY <1>1, ConcatProperties
<1> HIDE DEF l
<1>4. Head(l) = e
    BY <1>1, <1>2, <1>3
<1>5. Tail(l) \in Seq(Entry) /\ Len(Tail(l)) = Len(rest)
      /\ \A i \in 1..Len(rest) : Tail(l)[i] = l[i + 1]
    BY <1>2, <1>3
<1>6. \A i \in 1..Len(rest) : Tail(l)[i] = rest[i]
    BY <1>2, <1>3, <1>5
<1>7. Tail(l) = rest
    BY <1>5, <1>6, SeqEqual
<1>8. QED
    BY <1>4, <1>7 DEF l

\* What is in such a list.
LEMMA FrontToSet ==
    ASSUME NEW e \in Entry, NEW rest \in Seq(Entry)
    PROVE  ToSet(<<e>> \o rest) = {e} \cup ToSet(rest)
<1> DEFINE l == <<e>> \o rest
<1>1. <<e>> \in Seq(Entry) /\ Len(<<e>>) = 1 /\ <<e>>[1] = e
    OBVIOUS
<1>2. Len(rest) \in Nat /\ DOMAIN rest = 1..Len(rest)
    BY LenProperties
<1>3. /\ l \in Seq(Entry) /\ Len(l) = 1 + Len(rest)
      /\ \A i \in 1..(1 + Len(rest)) : l[i] = IF i <= 1 THEN <<e>>[i] ELSE rest[i - 1]
    BY <1>1, ConcatProperties
<1> HIDE DEF l
<1>4. DOMAIN l = 1..(1 + Len(rest))
    BY <1>3, LenProperties
<1>5. \A i \in 1..Len(rest) : i + 1 \in DOMAIN l /\ l[i + 1] = rest[i]
    BY <1>2, <1>3, <1>4
<1>6. 1 \in DOMAIN l /\ l[1] = e
    BY <1>1, <1>2, <1>3, <1>4
<1>7. ASSUME NEW j \in DOMAIN l, j # 1 PROVE j - 1 \in DOMAIN rest /\ l[j] = rest[j - 1]
    <2>1. j \in 1..(1 + Len(rest)) /\ ~(j <= 1) /\ j - 1 \in 1..Len(rest)
        BY <1>2, <1>4, <1>7
    <2>2. QED
        BY <1>2, <1>3, <2>1
<1>8. ToSet(l) = {e} \cup ToSet(rest)
    BY <1>2, <1>5, <1>6, <1>7 DEF ToSet
<1>9. QED
    BY <1>8 DEF l

\* CheckCapacity leaves the longest front of the list that fits.
LEMMA CheckKeeps ==
    ASSUME SizesFit, NEW c, Agrees(c), c.size < 2 ^ Width
    PROVE  /\ Consistent(CheckCapacity(c))
           /\ \E n \in 0..Len(c.list) :
                 /\ CheckCapacity(c).list = SubSeq(c.list, 1, Len(c.list) - n)
                 /\ n > 0 => Total(SubSeq(c.list, 1, Len(c.list) - (n - 1))) > Capacity
                 /\ c.size <= Capacity => n = 0
<1> DEFINE l == c.list
           Gone(n) == SubSeq(l, Len(l) - n + 1, Len(l))
           Kept(n) == SubSeq(l, 1, Len(l) - n)
           First(n) == n \in 0..Len(l) /\ FitsWithout(c, n) /\ \A m \in 0..(n - 1) : ~FitsWithout(c, m)
<1>0. /\ l \in Seq(Entry) /\ Len(l) \in Nat /\ DOMAIN l = 1..Len(l)
      /\ c.table = KeysOf(l) /\ Distinct(l) /\ c.size = Total(l) /\ Total(l) \in Nat
    BY LenProperties, TotalConcat DEF Agrees
<1>1. Capacity \in Nat /\ 2 ^ Width \in Nat \ {0}
    BY PowerOfTwo DEF SizesFit
<1>2. ASSUME NEW n \in 0..Len(l)
      PROVE  /\ Kept(n) \in Seq(Entry) /\ Gone(n) \in Seq(Entry)
             /\ Len(Kept(n)) = Len(l) - n /\ Len(Gone(n)) = n
             /\ \A i \in 1..(Len(l) - n) : Kept(n)[i] = l[i]
             /\ \A i \in 1..n : Gone(n)[i] = l[(Len(l) - n) + i]
             /\ Total(l) = Total(Kept(n)) + Total(Gone(n))
             /\ Total(Kept(n)) \in Nat /\ Total(Gone(n)) \in Nat
    <2>1. Len(l) - n \in 0..Len(l) /\ Len(l) - (Len(l) - n) = n
        BY <1>0
    <2>2. QED
        BY <1>0, <2>1, Split
<1>3. \A n \in 0..Len(l) : SizeWithout(c, n) = Total(Kept(n))
    <2> SUFFICES ASSUME NEW n \in 0..Len(l) PROVE SizeWithout(c, n) = Total(Kept(n))
        OBVIOUS
    <2>1. SizeWithout(c, n) = (c.size - Total(Gone(n))) % 2 ^ Width
        BY DEF SizeWithout
    <2> HIDE DEF Kept, Gone
    <2>2. /\ c.size - Total(Gone(n)) = Total(Kept(n))
          /\ 0 <= Total(Kept(n)) /\ Total(Kept(n)) < 2 ^ Width /\ Total(Kept(n)) \in Int
        BY <1>0, <1>1, <1>2
    <2>3. QED
        BY <1>1, <2>1, <2>2, Wrap
<1>4. \E n : First(n)
    <2> DEFINE T == {n \in 0..Len(l) : FitsWithout(c, n)}
    <2>1. Len(l) \in T
        <3>1. Kept(Len(l)) = <<>>
            BY <1>0, SubSeqEmpty
        <3> HIDE DEF Kept
        <3>2. SizeWithout(c, Len(l)) = 0
            BY <1>0, <1>3, <3>1, TotalShort
        <3>3. QED
            BY <1>0, <1>1, <3>2 DEF FitsWithout
    <2>2. T \in SUBSET Nat /\ T # {}
        BY <2>1
    <2> HIDE DEF T
    <2>3. PICK n \in T : \A m \in T : n <= m
        BY <2>2, LeastNumber
    <2> USE DEF T
    <2>4. First(n)
        BY <1>0, <2>3
    <2>5. QED
        BY <2>4
<1> DEFINE n == CHOOSE n \in 0..Len(c.list) :
                    FitsWithout(c, n) /\ \A m \in 0..(n - 1) : ~FitsWithout(c, m)
<1>5. First(n)
    BY <1>4
<1>6. CheckCapacity(c) = [list |-> Kept(n),
                          table |-> c.table \ KeysOf(SubSeq(l, Len(Kept(n)) + 1, Len(l))),
                          size |-> SizeWithout(c, n)]
    BY DEF CheckCapacity
<1> HIDE DEF n
<1>7. SubSeq(l, Len(Kept(n)) + 1, Len(l)) = Gone(n)
    BY <1>2, <1>5
<1> HIDE DEF l, Kept, Gone
<1>8. /\ Kept(n) \in Seq(Entry) /\ Gone(n) \in Seq(Entry)
      /\ DOMAIN Kept(n) = 1..(Len(l) - n) /\ DOMAIN Gone(n) = 1..n
      /\ \A i \in 1..(Len(l) - n) : Kept(n)[i] = l[i] /\ i \in DOMAIN l
      /\ \A i \in 1..n : Gone(n)[i] = l[(Len(l) - n) + i] /\ (Len(l) - n) + i \in DOMAIN l
      /\ n \in Nat /\ Len(l) - n \in Nat
    <2>1. n \in 0..Len(l)
        BY <1>5
    <2>2. /\ Kept(n) \in Seq(Entry) /\ Gone(n) \in Seq(Entry)
          /\ Len(Kept(n)) = Len(l) - n /\ Len(Gone(n)) = n
          /\ \A i \in 1..(Len(l) - n) : Kept(n)[i] = l[i]
          /\ \A i \in 1..n : Gone(n)[i] = l[(Len(l) - n) + i]
        BY <1>2, <2>1
    <2>3. DOMAIN Kept(n) = 1..(Len(l) - n) /\ DOMAIN Gone(n) = 1..n
        BY <2>2, LenProperties
    <2>4. n \in Nat /\ Len(l) - n \in Nat
        BY <1>0, <2>1
    <2>5. /\ \A i \in 1..(Len(l) - n) : i \in DOMAIN l
          /\ \A i \in 1..n : (Len(l) - n) + i \in DOMAIN l
        BY <1>0, <2>4
    <2>6. QED
        BY <2>2, <2>3, <2>4, <2>5
<1>9. Distinct(Kept(n))
    BY <1>0, <1>8 DEF Distinct
<1>10. KeysOf(l) \ KeysOf(Gone(n)) = KeysOf(Kept(n))
    <2>1. ASSUME NEW i \in DOMAIN l, l[i].key \notin KeysOf(Gone(n))
          PROVE  l[i].key \in KeysOf(Kept(n))
        <3>1. CASE i <= Len(l) - n
            <4>1. i \in DOMAIN Kept(n) /\ Kept(n)[i] = l[i]
                BY <1>0, <1>8, <3>1
            <4>2. QED
                BY <4>1 DEF KeysOf
        <3>2. CASE i > Len(l) - n
            <4>1. i - (Len(l) - n) \in 1..n /\ (Len(l) - n) + (i - (Len(l) - n)) = i
                BY <1>0, <1>8, <3>2
            <4>2. Gone(n)[i - (Len(l) - n)] = l[i]
                BY <1>8, <4>1
            <4>3. QED
                BY <1>8, <2>1, <4>1, <4>2 DEF KeysOf
        <3>3. QED
            BY <1>0, <1>8, <3>1, <3>2
    <2>2. ASSUME NEW i \in DOMAIN Kept(n), NEW j \in DOMAIN Gone(n)
          PROVE  Kept(n)[i].key # Gone(n)[j].key
        <3>1. /\ Kept(n)[i] = l[i] /\ Gone(n)[j] = l[(Len(l) - n) + j]
              /\ i \in DOMAIN l /\ (Len(l) - n) + j \in DOMAIN l
            BY <1>8
        <3>2. i # (Len(l) - n) + j
            BY <1>8
        <3>3. QED
            BY <1>0, <3>1, <3>2 DEF Distinct
    <2>3. KeysOf(l) \ KeysOf(Gone(n)) \subseteq KeysOf(Kept(n))
        BY <2>1 DEF KeysOf
    <2>4. KeysOf(Kept(n)) \subseteq KeysOf(l) \ KeysOf(Gone(n))
        BY <1>8, <2>2 DEF KeysOf
    <2>5. QED
        BY <2>3, <2>4
<1>11. Consistent(CheckCapacity(c))
    <2>1. SizeWithout(c, n) = Total(Kept(n)) /\ SizeWithout(c, n) <= Capacity
        BY <1>3, <1>5 DEF FitsWithout
    <2>2. CheckCapacity(c) = [list |-> Kept(n), table |-> KeysOf(Kept(n)), size |-> Total(Kept(n))]
        BY <1>0, <1>6, <1>7, <1>10, <2>1
    <2>3. QED
        BY <1>8, <1>9, <2>1, <2>2 DEF Consistent, Agrees
<1>12. n > 0 => Total(Kept(n - 1)) > Capacity
    <2> SUFFICES ASSUME n > 0 PROVE Total(Kept(n - 1)) > Capacity
        OBVIOUS
    <2>1. n - 1 \in 0..(n - 1) /\ n - 1 \in 0..Len(l)
        BY <1>0, <1>5, <1>8
    <2>2. ~(SizeWithout(c, n - 1) <= Capacity) /\ SizeWithout(c, n - 1) \in Nat
        BY <1>2, <1>3, <1>5, <2>1 DEF FitsWithout
    <2>3. QED
        BY <1>1, <1>3, <2>1, <2>2
<1>13. c.size <= Capacity => n = 0
    <2>1. Kept(0) = l
        BY <1>0, SubSeqFull DEF Kept
    <2>2. 0 \in 0..Len(l) /\ SizeWithout(c, 0) = c.size
        BY <1>0, <1>3, <2>1
    <2>3. QED
        BY <1>5, <1>8, <2>2 DEF FitsWithout
<1>14. QED
    BY <1>5, <1>6, <1>11, <1>12, <1>13 DEF l, Kept

\* Set leaves a consistent cache: the entry in front, behind it the longest
\* front of the others that fits.
LEMMA SetKeeps ==
    ASSUME SizesFit, NEW c, Consistent(c), NEW k \in Keys, NEW v \in Values
    PROVE  LET full == <<NewEntry(k, v)>> \o Others(c, k)
           IN  /\ Consistent(AfterSet(c, k, v))
               /\ full \in Seq(Entry) /\ Total(full) = ValueSize[v] + Total(Others(c, k))
               /\ KeysOf(full) = c.table \cup {k}
               /\ \E n \in 0..Len(full) :
                     /\ AfterSet(c, k, v).list = SubSeq(full, 1, Len(full) - n)
                     /\ n > 0 => Total(SubSeq(full, 1, Len(full) - (n - 1))) > Capacity
                     /\ Total(full) <= Capacity => n = 0
<1> DEFINE rest == Others(c, k)
           full == <<NewEntry(k, v)>> \o rest
           size == (c.size + (IF k \in c.table THEN SizeDiff(c, k, v) ELSE ValueSize[v])) % 2 ^ Width
           r == [list |-> full, table |-> c.table \cup {k}, size |-> size]
<1>0. Agrees(c) /\ c.size <= Capacity
    BY DEF Consistent
<1>1. /\ Capacity \in Nat /\ 2 ^ Width \in Nat \ {0}
      /\ ValueSize[v] \in Nat /\ Capacity + ValueSize[v] < 2 ^ Width
    BY PowerOfTwo DEF SizesFit
<1>2. NewEntry(k, v) \in Entry /\ NewEntry(k, v).key = k /\ NewEntry(k, v).size = ValueSize[v]
    BY <1>1 DEF NewEntry, Entry
<1>3. /\ rest \in Seq(Entry) /\ Distinct(rest) /\ KeysOf(rest) = c.table \ {k} /\ Total(rest) \in Nat
      /\ k \notin c.table => rest = c.list
      /\ k \in c.table => Find(c, k) \in Entry /\ c.size = Total(rest) + Find(c, k).size
    BY <1>0, OthersOf
<1> HIDE DEF rest
<1>4. /\ full \in Seq(Entry) /\ Distinct(full) /\ KeysOf(full) = KeysOf(rest) \cup {k}
      /\ Total(full) = ValueSize[v] + Total(rest)
    BY <1>2, <1>3, PushFront
<1> HIDE DEF full
<1>5. KeysOf(full) = c.table \cup {k}
    BY <1>3, <1>4
<1>6. size = Total(full) /\ Total(full) < 2 ^ Width
    <2>1. c.size = Total(c.list)
        BY <1>0 DEF Agrees
    <2>2. CASE k \notin c.table
        <3>1. size = (Total(rest) + ValueSize[v]) % 2 ^ Width
            BY <1>3, <2>1, <2>2
        <3>2. Total(rest) <= Capacity
            BY <1>0, <1>3, <2>1, <2>2
        <3> HIDE DEF size
        <3>3. Total(rest) + ValueSize[v] < 2 ^ Width /\ Total(rest) + ValueSize[v] \in Nat
            BY <1>1, <1>3, <3>2
        <3>4. QED
            BY <1>1, <1>3, <1>4, <3>1, <3>3, Wrap
    <2>3. CASE k \in c.table
        <3> DEFINE old == Find(c, k).size
        <3>0. old \in Nat /\ c.size = Total(rest) + old
            BY <1>3, <2>3 DEF Entry
        <3> DEFINE diff == SizeDiff(c, k, v)
        <3>1. diff = (ValueSize[v] - old) % 2 ^ Width /\ size = (c.size + diff) % 2 ^ Width
            BY <2>3 DEF SizeDiff
        <3> HIDE DEF size, old, diff
        <3>2. Total(rest) + ValueSize[v] < 2 ^ Width /\ old < 2 ^ Width
            BY <1>0, <1>1, <1>3, <3>0
        <3>3. size = Total(rest) + ValueSize[v]
            <4>1. c.size = Total(rest) + old
                BY <3>0
            <4>2. (c.size + diff) % 2 ^ Width = Total(rest) + ValueSize[v]
                <5> DEFINE m == 2 ^ Width
                           tr == Total(rest)
                           new == ValueSize[v]
                           sum == c.size + diff
                <5>1. m \in Nat \ {0} /\ tr \in Nat /\ old \in Nat /\ new \in Nat
                    BY <1>1, <1>3, <3>0
                <5>2. tr + new < m /\ old < m /\ diff = (new - old) % m
                    BY <3>1, <3>2
                <5>3. sum = (tr + old) + diff
                    BY <4>1
                <5> HIDE DEF m, tr, sum, new
                <5>4. PICK d \in Int : d = new - old
                    BY <5>1
                <5>5. diff = d % m /\ d < m /\ -m <= d
                    BY <5>1, <5>2, <5>4
                <5>6. CASE 0 <= d
                    <6>1. d % m = d
                        BY <5>1, <5>5, <5>6, Wrap, Zenon
                    <6>2. sum = tr + new /\ sum \in Int /\ 0 <= sum /\ sum < m
                        BY <5>1, <5>2, <5>3, <5>4, <5>5, <6>1
                    <6>3. sum % m = sum
                        BY <5>1, <6>2, Wrap, Zenon
                    <6>4. QED
                        BY <6>2, <6>3 DEF m, tr, sum, new
                <5>7. CASE d < 0
                    <6>1. d % m = d + m
                        BY <5>1, <5>5, <5>7, Wrap, Zenon
                    <6>2. sum = (tr + new) + m /\ sum \in Int /\ m <= sum /\ sum < 2 * m
                        BY <5>1, <5>2, <5>3, <5>4, <5>5, <6>1
                    <6>3. sum % m = sum - m
                        BY <5>1, <6>2, Wrap, Zenon
                    <6>4. sum % m = tr + new
                        BY <5>1, <6>2, <6>3
                    <6>5. QED
                        BY <6>4 DEF m, tr, sum, new
                <5>8. QED
                    BY <5>4, <5>6, <5>7
            <4>3. QED
                BY <3>1, <4>2
        <3>4. QED
            BY <1>1, <1>3, <1>4, <3>2, <3>3
    <2>4. QED
        BY <2>2, <2>3
<1>7. AfterSet(c, k, v) = CheckCapacity(r)
    BY DEF AfterSet, full, rest
<1> HIDE DEF size
<1>8. Agrees(r) /\ r.list = full /\ r.size = Total(full) /\ r.size < 2 ^ Width
    BY <1>4, <1>5, <1>6 DEF Agrees
<1> HIDE DEF r
<1>9. /\ Consistent(CheckCapacity(r))
      /\ \E n \in 0..Len(r.list) :
            /\ CheckCapacity(r).list = SubSeq(r.list, 1, Len(r.list) - n)
            /\ n > 0 => Total(SubSeq(r.list, 1, Len(r.list) - (n - 1))) > Capacity
            /\ r.size <= Capacity => n = 0
    BY <1>8, CheckKeeps
<1>10. QED
    BY <1>4, <1>5, <1>7, <1>8, <1>9 DEF full, rest

\* Get moves the entry to the front and keeps all others in their order.
LEMMA GetKeeps ==
    ASSUME NEW c, Consistent(c), NEW k
    PROVE  /\ Consistent(AfterGet(c, k))
           /\ k \notin c.table => AfterGet(c, k) = c
           /\ k \in c.table => /\ AfterGet(c, k).list = <<Find(c, k)>> \o Others(c, k)
                               /\ Find(c, k).key = k /\ Find(c, k) \in Entry
<1> DEFINE rest == Others(c, k)
           full == <<Find(c, k)>> \o rest
<1>0. Agrees(c) /\ c.size <= Capacity
    BY DEF Consistent
<1>1. CASE k \notin c.table
    BY <1>1 DEF AfterGet
<1>2. CASE k \in c.table
    <2>1. /\ rest \in Seq(Entry) /\ Distinct(rest) /\ KeysOf(rest) = c.table \ {k} /\ Total(rest) \in Nat
          /\ Find(c, k) \in Entry /\ Find(c, k).key = k /\ c.size = Total(rest) + Find(c, k).size
        BY <1>0, <1>2, OthersOf
    <2> HIDE DEF rest
    <2>2. /\ full \in Seq(Entry) /\ Distinct(full) /\ KeysOf(full) = KeysOf(rest) \cup {k}
          /\ Total(full) = Find(c, k).size + Total(rest)
        BY <2>1, PushFront
    <2>3. AfterGet(c, k) = [c EXCEPT !.list = full]
        BY <1>2 DEF AfterGet, rest
    <2>4. AfterGet(c, k) = [list |-> full, table |-> c.table, size |-> c.size]
        BY <1>0, <2>3 DEF Agrees
    <2> HIDE DEF full
    <2>5. KeysOf(full) = c.table /\ Total(full) = c.size
        <3>1. KeysOf(full) = c.table
            BY <1>2, <2>1, <2>2
        <3>2. Find(c, k).size \in Nat
            BY <2>1 DEF Entry
        <3>3. QED
            BY <2>1, <2>2, <3>1, <3>2
    <2>6. Consistent(AfterGet(c, k)) /\ AfterGet(c, k).list = full
        BY <1>0, <2>2, <2>4, <2>5 DEF Consistent, Agrees
    <2>7. QED
        BY <1>2, <2>1, <2>6 DEF full, rest
<1>3. QED
    BY <1>1, <1>2

\* A new cache.
LEMMA EmptyKeeps == SizesFit => Consistent(EmptyCache)
<1> SUFFICES ASSUME SizesFit PROVE Consistent(EmptyCache)
    OBVIOUS
<1>1. EmptyCache.list = <<>> /\ EmptyCache.table = {} /\ EmptyCache.size = 0
    BY DEF EmptyCache
<1>2. <<>> \in Seq(Entry) /\ DOMAIN <<>> = {}
    OBVIOUS
<1>3. Distinct(<<>>) /\ KeysOf(<<>>) = {}
    BY <1>2 DEF Distinct, KeysOf
<1>4. Total(<<>>) = 0 /\ Capacity \in Nat
    BY TotalShort DEF SizesFit
<1>5. QED
    BY <1>1, <1>2, <1>3, <1>4 DEF Consistent, Agrees, EmptyCache

\* Setting a key that has no entry, when there is room for it, loses no other.
LEMMA SetNew ==
    ASSUME SizesFit, NEW c, Consistent(c), NEW k \in Keys, NEW v \in Values, k \notin c.table,
           c.size + ValueSize[v] <= Capacity
    PROVE  /\ Consistent(AfterSet(c, k, v))
           /\ AfterSet(c, k, v).size = c.size + ValueSize[v]
           /\ AfterSet(c, k, v).list = <<NewEntry(k, v)>> \o c.list
<1> DEFINE new == AfterSet(c, k, v)
           full == <<NewEntry(k, v)>> \o Others(c, k)
<1>1. Others(c, k) = c.list
    BY DEF Others
<1>2. c.list \in Seq(Entry) /\ c.size = Total(c.list) /\ Total(c.list) \in Nat
    BY TotalConcat DEF Consistent, Agrees
<1>3. /\ Consistent(new)
      /\ full \in Seq(Entry) /\ Total(full) = ValueSize[v] + Total(Others(c, k))
      /\ KeysOf(full) = c.table \cup {k}
      /\ \E n \in 0..Len(full) :
            /\ new.list = SubSeq(full, 1, Len(full) - n)
            /\ n > 0 => Total(SubSeq(full, 1, Len(full) - (n - 1))) > Capacity
            /\ Total(full) <= Capacity => n = 0
    <2>1. Consistent(new)
        BY SetKeeps
    <2>2. full \in Seq(Entry) /\ Total(full) = ValueSize[v] + Total(Others(c, k))
        BY SetKeeps
    <2>3. KeysOf(full) = c.table \cup {k}
        BY SetKeeps
    <2>4. \E n \in 0..Len(full) :
              /\ new.list = SubSeq(full, 1, Len(full) - n)
              /\ n > 0 => Total(SubSeq(full, 1, Len(full) - (n - 1))) > Capacity
              /\ Total(full) <= Capacity => n = 0
        BY SetKeeps
    <2>5. QED
        BY <2>1, <2>2, <2>3, <2>4
<1> HIDE DEF new, full
<1>4. Total(full) = c.size + ValueSize[v]
    BY <1>1, <1>2, <1>3 DEF SizesFit
<1>5. new.list = SubSeq(full, 1, Len(full))
    BY <1>3, <1>4
<1>6. new.list = full
    BY <1>3, <1>5, SubSeqFull
<1>7. new.size = Total(full)
    BY <1>3, <1>6 DEF Consistent, Agrees
<1>8. QED
    BY <1>1, <1>3, <1>4, <1>6, <1>7 DEF new, full

\* The front of a list grows by one element.
LEMMA TotalFront ==
    ASSUME NEW l \in Seq(Entry), NEW n \in 0..(Len(l) - 1)
    PROVE  /\ l[n + 1] \in Entry
           /\ Total(SubSeq(l, 1, n + 1)) = Total(SubSeq(l, 1, n)) + l[n + 1].size
           /\ Total(SubSeq(l, 1, n + 1)) <= Total(l)
<1>0. Len(l) \in Nat /\ n \in 0..Len(l) /\ n + 1 \in 1..Len(l) /\ n + 1 \in 0..Len(l)
    OBVIOUS
<1>1. l[n + 1] \in Entry /\ <<l[n + 1]>> \in Seq(Entry)
    BY <1>0
<1> DEFINE front == SubSeq(l, 1, n)
           next == SubSeq(l, 1, n + 1)
<1>2. front \in Seq(Entry) /\ next \in Seq(Entry) /\ Len(front) = n /\ Len(next) = n + 1
      /\ (\A i \in 1..n : front[i] = l[i]) /\ (\A i \in 1..(n + 1) : next[i] = l[i])
    BY <1>0, Split
<1> HIDE DEF front, next
<1>3. next = front \o <<l[n + 1]>>
    <2>1. \A i \in 1..(n + 1) : next[i] = IF i <= n THEN front[i] ELSE l[n + 1]
        BY <1>0, <1>2
    <2>2. /\ front \o <<l[n + 1]>> \in Seq(Entry) /\ Len(front \o <<l[n + 1]>>) = n + 1
          /\ \A i \in 1..(n + 1) :
                (front \o <<l[n + 1]>>)[i] = IF i <= n THEN front[i] ELSE l[n + 1]
        BY <1>0, <1>1, <1>2
    <2>3. QED
        BY <1>0, <1>2, <2>1, <2>2, SeqEqual
<1>4. Total(next) = Total(front) + l[n + 1].size
    <2>1. Total(front \o <<l[n + 1]>>) = Total(front) + Total(<<l[n + 1]>>)
        BY <1>1, <1>2, TotalConcat
    <2>2. QED
        BY <1>1, <1>3, <2>1, TotalShort
<1> DEFINE back == SubSeq(l, (n + 1) + 1, Len(l))
<1>5. Total(l) = Total(next) + Total(back) /\ Total(next) \in Nat /\ Total(back) \in Nat
    BY <1>0, Split DEF next
<1>6. Total(next) <= Total(l)
    BY <1>5
<1>7. QED
    BY <1>1, <1>4, <1>6 DEF front, next

\* A list that fits is loaded entry for entry.
LEMMA LoadKeeps ==
    ASSUME SizesFit, NEW l \in Seq(Entry), Distinct(l), Total(l) <= Capacity,
           NEW items, items = [n \in DOMAIN l |-> <<l[n].key, l[n].value>>]
    PROVE  /\ Consistent(LoadedCache(items))
           /\ ToSet(LoadedCache(items).list) = ToSet(l)
<1> DEFINE N == Len(items)
           IsLoad(f) == f = [n \in 0..N |-> IF n = 0 THEN EmptyCache
                                            ELSE AfterSet(f[n - 1], items[n][1], items[n][2])]
           Partial(f, k) == /\ f[0] = EmptyCache
                            /\ \A n \in 1..k : f[n] = AfterSet(f[n - 1], items[n][1], items[n][2])
           S == {k \in 0..N : \E f : DOMAIN f = 0..k /\ Partial(f, k)}
<1>0. /\ N = Len(l) /\ N \in Nat /\ DOMAIN l = 1..N
      /\ \A n \in 1..N : /\ l[n] \in Entry
                         /\ items[n][1] = l[n].key /\ items[n][2] = l[n].value
    <2>1. Len(l) \in Nat /\ DOMAIN l = 1..Len(l) /\ \A n \in 1..Len(l) : l[n] \in Entry
        BY LenProperties, ElementOfSeq
    <2>2. items \in Seq(Keys \X Values) /\ DOMAIN items = 1..Len(l)
        BY <2>1 DEF Entry
    <2>3. N = Len(l)
        BY <2>1, <2>2, LenProperties
    <2>4. QED
        BY <2>1, <2>3
<1> HIDE DEF N, Partial
<1>1. 0 \in S
    <2> DEFINE g == [n \in 0..0 |-> EmptyCache]
    <2>1. DOMAIN g = 0..0 /\ Partial(g, 0)
        BY DEF Partial
    <2> HIDE DEF g
    <2>2. QED
        BY <1>0, <2>1
<1>2. ASSUME NEW k \in 0..(N - 1), k \in S PROVE k + 1 \in S
    <2>1. PICK f : DOMAIN f = 0..k /\ Partial(f, k)
        BY <1>2
    <2> DEFINE last == AfterSet(f[k], items[k + 1][1], items[k + 1][2])
               g == [n \in 0..(k + 1) |-> IF n = k + 1 THEN last ELSE f[n]]
    <2> HIDE DEF last
    <2>2. /\ DOMAIN g = 0..(k + 1) /\ g[0] = f[0] /\ g[k + 1] = last
          /\ \A n \in 0..k : g[n] = f[n]
        BY <1>0
    <2> HIDE DEF g
    <2>3. Partial(g, k + 1)
        <3>1. g[0] = EmptyCache
            BY <2>1, <2>2 DEF Partial
        <3>2. ASSUME NEW n \in 1..k PROVE g[n] = AfterSet(g[n - 1], items[n][1], items[n][2])
            <4>1. n \in 0..k /\ n - 1 \in 0..k
                BY <1>0
            <4>2. g[n] = f[n] /\ g[n - 1] = f[n - 1]
                BY <2>2, <4>1
            <4>3. QED
                BY <2>1, <4>2 DEF Partial
        <3>3. g[k + 1] = AfterSet(g[(k + 1) - 1], items[k + 1][1], items[k + 1][2])
            <4>1. k \in 0..k /\ (k + 1) - 1 = k
                BY <1>0
            <4>2. QED
                BY <2>2, <4>1 DEF last
        <3>4. 1..(k + 1) = (1..k) \cup {k + 1}
            BY <1>0
        <3>5. QED
            BY <3>1, <3>2, <3>3, <3>4 DEF Partial
    <2>4. k + 1 \in 0..N
        BY <1>0
    <2>5. QED
        BY <2>2, <2>3, <2>4
<1>3. PICK f : DOMAIN f = 0..N /\ Partial(f, N)
    <2> HIDE DEF S
    <2>1. 0..N \subseteq S
        BY <1>0, <1>1, <1>2, IntervalInduction
    <2>2. N \in S
        BY <1>0, <2>1
    <2> USE DEF S
    <2>3. QED
        BY <2>2
<1> DEFINE g == [n \in 0..N |-> IF n = 0 THEN EmptyCache
                                ELSE AfterSet(f[n - 1], items[n][1], items[n][2])]
<1>4. \E h : IsLoad(h)
    <2>1. /\ g[0] = EmptyCache
          /\ \A n \in 1..N : g[n] = AfterSet(f[n - 1], items[n][1], items[n][2])
        BY <1>0
    <2>2. \A n \in 0..N : g[n] = f[n]
        <3>1. ASSUME NEW n \in 0..N, n # 0 PROVE n \in 1..N
            BY <1>0, <3>1
        <3> HIDE DEF g
        <3>2. QED
            BY <1>3, <2>1, <3>1 DEF Partial
    <2>3. ASSUME NEW n \in 0..N, n # 0 PROVE n - 1 \in 0..N
        BY <1>0, <2>3
    <2>4. g = [n \in 0..N |-> IF n = 0 THEN EmptyCache
                              ELSE AfterSet(g[n - 1], items[n][1], items[n][2])]
        <3> DEFINE A(n) == IF n = 0 THEN EmptyCache ELSE AfterSet(f[n - 1], items[n][1], items[n][2])
                   B(n) == IF n = 0 THEN EmptyCache ELSE AfterSet(g[n - 1], items[n][1], items[n][2])
        <3>1. ASSUME NEW n \in 0..N PROVE A(n) = B(n)
            <4>1. CASE n = 0
                BY <4>1
            <4>2. CASE n # 0
                <5>1. g[n - 1] = f[n - 1]
                    BY <2>2, <2>3, <4>2
                <5> HIDE DEF g
                <5>2. QED
                    BY <4>2, <5>1
            <4>3. QED
                BY <4>1, <4>2
        <3>2. g = [n \in 0..N |-> A(n)]
            OBVIOUS
        <3> HIDE DEF A, B, g
        <3>3. g = [n \in 0..N |-> B(n)]
            BY <3>1, <3>2
        <3>4. QED
            BY <3>3 DEF B
    <2> HIDE DEF g
    <2>5. QED
        BY <2>4
<1> DEFINE load == CHOOSE h : IsLoad(h)
<1>5. IsLoad(load)
    BY <1>4
<1>6. LoadedCache(items) = load[N]
    BY DEF LoadedCache, N
<1> HIDE DEF load
<1>7. /\ load[0] = EmptyCache
      /\ \A n \in 1..N : load[n] = AfterSet(load[n - 1], items[n][1], items[n][2])
    <2>1. \A n \in 1..N : n \in 0..N /\ n # 0
        BY <1>0
    <2>2. 0 \in 0..N
        BY <1>0
    <2> DEFINE A(h, n) == AfterSet(h[n - 1], items[n][1], items[n][2])
    <2>3. load = [n \in 0..N |-> IF n = 0 THEN EmptyCache ELSE A(load, n)]
        BY <1>5
    <2> HIDE DEF A
    <2>4. load[0] = EmptyCache /\ \A n \in 1..N : load[n] = A(load, n)
        BY <2>1, <2>2, <2>3
    <2>5. QED
        BY <2>4 DEF A
<1> DEFINE Good(n) == /\ Consistent(load[n])
                      /\ load[n].size = Total(SubSeq(l, 1, n))
                      /\ ToSet(load[n].list) = {l[i] : i \in 1..n}
           G == {n \in 0..N : Good(n)}
<1>8. Good(0)
    <2>1. EmptyCache.list = <<>> /\ EmptyCache.table = {} /\ EmptyCache.size = 0
        BY DEF EmptyCache
    <2>2. Consistent(EmptyCache)
        BY EmptyKeeps
    <2>3. SubSeq(l, 1, 0) = <<>>
        BY SubSeqEmpty
    <2>4. ToSet(<<>>) = {} /\ {l[i] : i \in 1..0} = {}
        BY DEF ToSet
    <2>5. QED
        BY <1>7, <2>1, <2>2, <2>3, <2>4, TotalShort
<1>9. ASSUME NEW n \in 0..(N - 1), Good(n) PROVE Good(n + 1)
    <2> DEFINE c == load[n]
               e == l[n + 1]
    <2>1. n \in 0..(Len(l) - 1) /\ n + 1 \in 1..N /\ (n + 1) - 1 = n
        BY <1>0
    <2>2. e \in Entry /\ load[n + 1] = AfterSet(c, e.key, e.value)
        BY <1>0, <1>7, <2>1
    <2>3. /\ Total(SubSeq(l, 1, n + 1)) = Total(SubSeq(l, 1, n)) + e.size
          /\ Total(SubSeq(l, 1, n + 1)) <= Total(l)
        BY <2>1, TotalFront
    <2>4. Consistent(c) /\ c.size = Total(SubSeq(l, 1, n)) /\ ToSet(c.list) = {l[i] : i \in 1..n}
        BY <1>9
    <2>5. 1..(n + 1) = (1..n) \cup {n + 1} /\ \A i \in 1..n : i \in 1..N /\ i # n + 1
        BY <1>0
    <2> HIDE DEF c, e
    <2>6. e.key \notin c.table
        <3>1. c.table = {x.key : x \in ToSet(c.list)}
            BY <2>4 DEF Consistent, Agrees, KeysOf, ToSet
        <3>2. \A i \in 1..n : l[i].key # e.key
            BY <1>0, <2>1, <2>5 DEF Distinct, e
        <3>3. QED
            BY <2>4, <3>1, <3>2
    <2>7. c.size + e.size <= Capacity
        <3>1. Total(SubSeq(l, 1, n + 1)) \in Nat /\ Total(l) \in Nat /\ Capacity \in Nat
            <4>1. n + 1 \in 0..Len(l)
                BY <1>0
            <4>2. QED
                BY <4>1, Split, TotalConcat DEF SizesFit
        <3>2. QED
            BY <2>3, <2>4, <3>1
    <2>8. /\ Consistent(load[n + 1]) /\ load[n + 1].size = c.size + e.size
          /\ load[n + 1].list = <<e>> \o c.list
        <3>1. PICK k \in Keys, v \in Values : k = e.key /\ v = e.value
            BY <2>2 DEF Entry
        <3>2. e.size = ValueSize[v] /\ NewEntry(k, v) = e
            BY <2>2, <3>1 DEF Entry, NewEntry
        <3>3. /\ Consistent(AfterSet(c, k, v))
              /\ AfterSet(c, k, v).size = c.size + ValueSize[v]
              /\ AfterSet(c, k, v).list = <<NewEntry(k, v)>> \o c.list
            BY <2>4, <2>6, <2>7, <3>1, <3>2, SetNew
        <3>4. load[n + 1] = AfterSet(c, k, v)
            BY <2>2, <3>1
        <3>5. QED
            BY <3>2, <3>3, <3>4
    <2>9. ToSet(<<e>> \o c.list) = {e} \cup ToSet(c.list)
        <3>1. c.list \in Seq(Entry)
            BY <2>4 DEF Consistent, Agrees
        <3>2. QED
            BY <2>2, <3>1, FrontToSet
    <2>10. {l[i] : i \in 1..(n + 1)} = {e} \cup {l[i] : i \in 1..n}
        BY <2>5 DEF e
    <2>11. QED
        BY <2>3, <2>4, <2>8, <2>9, <2>10
<1>10. Good(N)
    <2>1. 0 \in G
        BY <1>0, <1>8
    <2>2. ASSUME NEW n \in 0..(N - 1), n \in G PROVE n + 1 \in G
        <3>1. Good(n) /\ n + 1 \in 0..N
            BY <1>0, <2>2
        <3> HIDE DEF Good
        <3>2. Good(n + 1)
            BY <1>9, <3>1
        <3>3. QED
            BY <3>1, <3>2
    <2> HIDE DEF G, Good
    <2>3. 0..N \subseteq G
        BY <1>0, <2>1, <2>2, IntervalInduction
    <2>4. N \in G
        BY <1>0, <2>3
    <2> USE DEF G
    <2>5. QED
        BY <2>4
<1>11. ToSet(l) = {l[i] : i \in 1..N}
    BY <1>0 DEF ToSet
<1>12. QED
    BY <1>6, <1>10, <1>11

-----------------------------------------------------------------------------
(* The invariant, and what a step does *)

\* A file that was saved in full has the items of a list that fits, in order.
FileSound(f) ==
    /\ f \in [whole : BOOLEAN, items : Seq(Keys \X Values)]
    /\ f.whole => \E l \in Seq(Entry) :
          /\ Distinct(l) /\ Total(l) <= Capacity
          /\ f.items = [n \in DOMAIN l |-> <<l[n].key, l[n].value>>]

LRUInv == Consistent(lru) /\ FileSound(file)

\* An operation of the cache.  The server that is started again may find the
\* file gone.
Operation ==
    \/ \E k \in Keys, v \in Values : Set(k, v)
    \/ \E k \in Keys : Get(k)
    \/ SaveBegin \/ SaveEnd
    \/ Reload /\ file' \in {file, NoFile}

\* The invariant has the types, and that list, table and size agree.
LEMMA InvImplies ==
    ASSUME SizesFit, LRUInv
    PROVE  TypeOK /\ CacheConsistent
<1>1. Consistent(lru) /\ file \in [whole : BOOLEAN, items : Seq(Keys \X Values)]
    BY DEF LRUInv, FileSound
<1>2. lru.list \in Seq(Entry) /\ lru.table = KeysOf(lru.list) /\ lru.size = Total(lru.list)
      /\ Distinct(lru.list) /\ lru.size <= Capacity
    BY <1>1 DEF Consistent, Agrees
<1>3. \A i \in DOMAIN lru.list : lru.list[i] \in Entry
    BY <1>2, ElementOfSeq, LenProperties
<1>4. lru.list \in Seq([key : Keys, value : Values, size : Nat])
    <2>1. \A s \in Seq(Entry) : s \in Seq([key : Keys, value : Values, size : Nat])
        <3> DEFINE T == [key : Keys, value : Values, size : Nat]
        <3>1. Entry \subseteq T
            BY DEF Entry
        <3> HIDE DEF T
        <3>2. \A s \in Seq(Entry) : s \in Seq(T)
            BY <3>1
        <3>3. QED
            BY <3>2 DEF T
    <2>2. QED
        BY <1>2, <2>1
<1>5. lru.table \subseteq Keys
    BY <1>2, <1>3 DEF KeysOf, Entry
<1>6. lru.size \in 0..(2 ^ Width - 1)
    <2>1. lru.size \in Nat
        BY <1>2, TotalConcat
    <2>2. Capacity < 2 ^ Width \/ lru.list = <<>>
        <3>1. CASE Values = {}
            <4>1. Entry = {}
                BY <3>1 DEF Entry
            <4>2. QED
                BY <1>2, <4>1
        <3>2. CASE Values # {}
            <4>1. PICK v \in Values : Capacity + ValueSize[v] < 2 ^ Width
                BY <3>2 DEF SizesFit
            <4>2. ValueSize[v] \in Nat /\ Capacity \in Nat /\ 2 ^ Width \in Nat
                BY PowerOfTwo DEF SizesFit
            <4>3. QED
                BY <4>1, <4>2
        <3>3. QED
            BY <3>1, <3>2
    <2>3. Capacity \in Nat /\ 2 ^ Width \in Nat \ {0}
        BY PowerOfTwo DEF SizesFit
    <2>4. CASE lru.list = <<>>
        <3>1. lru.size = 0
            BY <1>2, <2>4, TotalShort
        <3>2. QED
            BY <2>3, <3>1
    <2>5. CASE Capacity < 2 ^ Width
        BY <1>2, <2>1, <2>3, <2>5
    <2>6. QED
        BY <2>2, <2>4, <2>5
<1>7. IsInjective([n \in DOMAIN lru.list |-> lru.list[n].key])
    BY <1>2 DEF Distinct, IsInjective
<1>8. QED
    BY <1>1, <1>2, <1>4, <1>5, <1>6, <1>7 DEF TypeOK, CacheConsistent

\* The same of the next state.
LEMMA InvTyped == SizesFit /\ LRUInv' => TypeOK'
<1>1. SizesFit /\ LRUInv => TypeOK
    BY InvImplies
<1>2. SizesFit => SizesFit'
    BY DEF SizesFit
<1>3. QED
    BY <1>1, <1>2, PTL

\* It holds of a new cache and no file.
LEMMA InvInit == SizesFit /\ Init => LRUInv
<1> SUFFICES ASSUME SizesFit, Init PROVE LRUInv
    OBVIOUS
<1>1. lru = EmptyCache /\ file = NoFile
    BY DEF Init
<1>2. FileSound(NoFile)
    BY DEF FileSound, NoFile
<1>3. QED
    BY <1>1, <1>2, EmptyKeeps DEF LRUInv

\* The entry in front is the first one with its key.
LEMMA FrontEntry ==
    ASSUME NEW c, Agrees(c), c.list # <<>>
    PROVE  Others(c, Head(c.list).key) = Tail(c.list)
<1> DEFINE l == c.list
           k == Head(l).key
<1>1. /\ l \in Seq(Entry) /\ Len(l) \in Nat \ {0} /\ DOMAIN l = 1..Len(l)
      /\ Distinct(l) /\ c.table = KeysOf(l) /\ Head(l) = l[1]
    BY LenProperties, EmptySeq DEF Agrees
<1>2. 1 \in DOMAIN l /\ l[1].key = k
    BY <1>1
<1>3. k \in c.table
    BY <1>1, <1>2 DEF KeysOf
<1>4. Place(c, k) = 1
    <2>1. \A n \in DOMAIN l : l[n].key = k <=> n = 1
        BY <1>1, <1>2 DEF Distinct
    <2> HIDE DEF k
    <2>2. QED
        BY <1>2, <2>1 DEF Place
<1>5. Others(c, k) = RemoveAt(l, 1)
    BY <1>3, <1>4 DEF Others
<1>6. RemoveAt(l, 1) = SubSeq(l, 1, 1 - 1) \o SubSeq(l, 1 + 1, Len(l))
    BY DEF RemoveAt
<1>7. SubSeq(l, 1, 1 - 1) = <<>>
    BY SubSeqEmpty
<1>8. SubSeq(l, 1 + 1, Len(l)) = Tail(l) /\ Tail(l) \in Seq(Entry)
    BY <1>1
<1> HIDE DEF l, k
<1>9. <<>> \o Tail(l) = Tail(l)
    BY <1>8, ConcatEmptySeq
<1>10. QED
    BY <1>5, <1>6, <1>7, <1>8, <1>9 DEF l, k

\* What LoadedCache or a new cache has of the file.
LEMMA ReloadStep ==
    ASSUME SizesFit, FileSound(file), Reload
    PROVE  /\ Consistent(lru')
           /\ file.whole =>
                {<<e.key, e.value>> : e \in ToSet(lru'.list)} = ToSet(file.items)
<1>1. CASE ~file.whole
    BY <1>1, EmptyKeeps DEF Reload
<1>2. CASE file.whole
    <2>1. PICK l \in Seq(Entry) :
              /\ Distinct(l) /\ Total(l) <= Capacity
              /\ file.items = [n \in DOMAIN l |-> <<l[n].key, l[n].value>>]
        BY <1>2 DEF FileSound
    <2>2. lru' = LoadedCache(file.items)
        BY <1>2 DEF Reload
    <2>3. Consistent(lru') /\ ToSet(lru'.list) = ToSet(l)
        BY <2>1, <2>2, LoadKeeps
    <2>4. ToSet(file.items) = {<<e.key, e.value>> : e \in ToSet(l)}
        BY <2>1 DEF ToSet
    <2>5. QED
        BY <2>3, <2>4
<1>3. QED
    BY <1>1, <1>2

\* What SaveItemsToFile writes can be loaded.
LEMMA SavedIsSound ==
    ASSUME NEW c, Consistent(c)
    PROVE  FileSound([whole |-> TRUE,
                      items |-> [n \in DOMAIN c.list |-> <<c.list[n].key, c.list[n].value>>]])
<1> DEFINE l == c.list
           items == [n \in DOMAIN l |-> <<l[n].key, l[n].value>>]
<1>1. l \in Seq(Entry) /\ Distinct(l) /\ Total(l) <= Capacity
    BY DEF Consistent, Agrees
<1>2. Len(l) \in Nat /\ DOMAIN l = 1..Len(l) /\ \A n \in 1..Len(l) : l[n] \in Entry
    BY <1>1, LenProperties, ElementOfSeq
<1> HIDE DEF l
<1>3. items \in Seq(Keys \X Values)
    BY <1>2 DEF Entry
<1>4. QED
    BY <1>1, <1>3 DEF FileSound, l

\* Nothing has been evicted when all the others are still behind the front.
LEMMA NothingEvicted ==
    ASSUME NEW rest \in Seq(Entry),
           Others(lru, Head(lru'.list).key) = rest, Tail(lru'.list) = rest
    PROVE  EvictsLeastRecent
<1>1. SubSeq(rest, 1, Len(rest)) = rest /\ ~(Len(rest) < Len(rest))
    BY SubSeqFull
<1>2. \A old, new : old = rest /\ new = rest =>
          new = SubSeq(old, 1, Len(new)) /\ ~(Len(new) < Len(old))
    BY <1>1
<1>3. QED
    BY <1>2 DEF EvictsLeastRecent

\* After an operation that leaves the cache as it is, nothing has been evicted.
LEMMA KeptOrder ==
    ASSUME Consistent(lru), lru' = lru
    PROVE  EvictsLeastRecent
<1>1. CASE lru.list = <<>>
    BY <1>1 DEF EvictsLeastRecent
<1>2. CASE lru.list # <<>>
    <2>1. lru.list \in Seq(Entry) /\ Others(lru, Head(lru.list).key) = Tail(lru.list)
        BY <1>2, FrontEntry DEF Consistent, Agrees
    <2>2. Tail(lru.list) \in Seq(Entry)
        BY <1>2, <2>1
    <2>3. QED
        BY <2>1, <2>2, NothingEvicted
<1>3. QED
    BY <1>1, <1>2

\* Get evicts nothing.
LEMMA GetOrder ==
    ASSUME Consistent(lru), NEW k, Get(k)
    PROVE  EvictsLeastRecent
<1>1. lru' = AfterGet(lru, k)
    BY DEF Get
<1>2. CASE k \notin lru.table
    BY <1>1, <1>2, GetKeeps, KeptOrder
<1>3. CASE k \in lru.table
    <2> DEFINE rest == Others(lru, k)
    <2>1. lru'.list = <<Find(lru, k)>> \o rest /\ Find(lru, k).key = k /\ Find(lru, k) \in Entry
        BY <1>1, <1>3, GetKeeps
    <2>2. rest \in Seq(Entry)
        BY OthersOf DEF Consistent
    <2> HIDE DEF rest
    <2>3. Head(lru'.list) = Find(lru, k) /\ Tail(lru'.list) = rest
        BY <2>1, <2>2, HeadTailOfFront
    <2>4. Others(lru, Head(lru'.list).key) = rest
        BY <2>1, <2>3 DEF rest
    <2>5. QED
        BY <2>2, <2>3, <2>4, NothingEvicted
<1>4. QED
    BY <1>2, <1>3

\* Set evicts the oldest, as few as it can.
LEMMA SetOrder ==
    ASSUME SizesFit, Consistent(lru), NEW k \in Keys, NEW v \in Values, Set(k, v)
    PROVE  EvictsLeastRecent
<1> DEFINE rest == Others(lru, k)
           full == <<NewEntry(k, v)>> \o rest
           new == lru'.list
<1>0. lru' = AfterSet(lru, k, v) /\ Agrees(lru)
    BY DEF Set, Consistent
<1>1. /\ full \in Seq(Entry)
      /\ \E n \in 0..Len(full) :
            /\ new = SubSeq(full, 1, Len(full) - n)
            /\ n > 0 => Total(SubSeq(full, 1, Len(full) - (n - 1))) > Capacity
            /\ Total(full) <= Capacity => n = 0
    <2>1. full \in Seq(Entry)
        BY SetKeeps
    <2>2. \E n \in 0..Len(full) :
              /\ AfterSet(lru, k, v).list = SubSeq(full, 1, Len(full) - n)
              /\ n > 0 => Total(SubSeq(full, 1, Len(full) - (n - 1))) > Capacity
              /\ Total(full) <= Capacity => n = 0
        BY SetKeeps
    <2> HIDE DEF full
    <2>3. QED
        BY <1>0, <2>1, <2>2
<1>2. rest \in Seq(Entry) /\ NewEntry(k, v) \in Entry /\ NewEntry(k, v).key = k
    <2>1. rest \in Seq(Entry)
        BY <1>0, OthersOf
    <2>2. NewEntry(k, v) \in Entry /\ NewEntry(k, v).key = k
        BY DEF NewEntry, Entry, SizesFit
    <2>3. QED
        BY <2>1, <2>2
<1> HIDE DEF rest
<1>3. /\ Len(rest) \in Nat /\ Len(full) = 1 + Len(rest)
      /\ full[1] = NewEntry(k, v) /\ \A i \in 1..Len(rest) : full[i + 1] = rest[i]
    <2>1. <<NewEntry(k, v)>> \in Seq(Entry) /\ Len(<<NewEntry(k, v)>>) = 1
          /\ <<NewEntry(k, v)>>[1] = NewEntry(k, v)
        BY <1>2
    <2>2. /\ Len(full) = 1 + Len(rest) /\ Len(rest) \in Nat
          /\ \A i \in 1..(1 + Len(rest)) :
                 full[i] = IF i <= 1 THEN <<NewEntry(k, v)>>[i] ELSE rest[i - 1]
        BY <1>2, <2>1, ConcatProperties, LenProperties
    <2> HIDE DEF full
    <2>3. QED
        BY <2>1, <2>2
<1> HIDE DEF full, new
<1>4. PICK n \in 0..Len(full) :
          /\ new = SubSeq(full, 1, Len(full) - n)
          /\ n > 0 => Total(SubSeq(full, 1, Len(full) - (n - 1))) > Capacity
    BY <1>1
<1> DEFINE m == Len(full) - n
<1>5. m \in 0..Len(full) /\ m \in Nat /\ Len(full) \in Nat
    BY <1>1, <1>3
<1>6. /\ new \in Seq(Entry) /\ Len(new) = m /\ \A i \in 1..m : new[i] = full[i]
    BY <1>1, <1>4, <1>5, Split
<1>7. CASE new = <<>>
    BY <1>7 DEF EvictsLeastRecent, new
<1>8. CASE new # <<>>
    <2>1. m \in Nat \ {0} /\ Head(new) = NewEntry(k, v)
        BY <1>3, <1>5, <1>6, <1>8
    <2> HIDE DEF m
    <2>2. /\ Tail(new) \in Seq(Entry) /\ Len(Tail(new)) = m - 1
          /\ \A i \in 1..(m - 1) : Tail(new)[i] = new[i + 1]
        BY <1>6, <2>1
    <2>3. m - 1 \in 0..Len(rest)
        BY <1>3, <1>5, <2>1
    <2>4. Tail(new) = SubSeq(rest, 1, m - 1)
        <3>1. /\ SubSeq(rest, 1, m - 1) \in Seq(Entry) /\ Len(SubSeq(rest, 1, m - 1)) = m - 1
              /\ \A i \in 1..(m - 1) : SubSeq(rest, 1, m - 1)[i] = rest[i]
            BY <1>2, <2>3, Split
        <3>2. \A i \in 1..(m - 1) : i + 1 \in 1..m /\ i \in 1..Len(rest)
            BY <1>3, <2>1, <2>3
        <3>3. \A i \in 1..(m - 1) : Tail(new)[i] = rest[i]
            BY <1>3, <1>6, <2>2, <3>2
        <3>4. QED
            BY <2>2, <3>1, <3>3, SeqEqual
    <2>5. Others(lru, Head(new).key) = rest
        BY <1>2, <2>1 DEF rest
    <2>6. ASSUME m - 1 < Len(rest)
          PROVE  Total(new) + rest[m].size > Capacity
        <3>1. m \in 0..(Len(full) - 1) /\ m \in 1..Len(rest)
            BY <1>3, <1>5, <2>1, <2>6
        <3>2. n > 0 /\ Len(full) - (n - 1) = m + 1 /\ Len(full) - n = m
            BY <1>3, <1>5, <2>6 DEF m
        <3>3. Total(SubSeq(full, 1, m + 1)) > Capacity /\ new = SubSeq(full, 1, m)
            BY <1>4, <3>2
        <3>4. Total(SubSeq(full, 1, m + 1)) = Total(SubSeq(full, 1, m)) + full[m + 1].size
            BY <1>1, <3>1, TotalFront
        <3>5. full[m + 1] = rest[m]
            BY <1>3, <3>1
        <3>6. QED
            BY <3>3, <3>4, <3>5
    <2>7. (m - 1) + 1 = m
        BY <2>1
    <2> DEFINE old == Others(lru, Head(new).key)
               last == Tail(new)
    <2>8. /\ last = SubSeq(old, 1, Len(last))
          /\ Len(last) < Len(old) => Total(new) + old[Len(last) + 1].size > Capacity
        BY <2>2, <2>4, <2>5, <2>6, <2>7
    <2>9. QED
        BY <2>8 DEF EvictsLeastRecent, new
<1>9. QED
    BY <1>7, <1>8

\* A step keeps the invariant, and does what CacheStep asks for.
LEMMA InvStep ==
    ASSUME SizesFit, LRUInv, Operation
    PROVE  LRUInv' /\ CacheStep
<1>0. Consistent(lru) /\ FileSound(file) /\ FileSound(NoFile)
    BY DEF LRUInv, FileSound, NoFile
<1>1. ASSUME Consistent(lru'), FileSound(file'), EvictsLeastRecent
      PROVE  LRUInv' /\ CacheStep
    <2>1. LRUInv'
        BY <1>1 DEF LRUInv
    <2>2. CacheConsistent'
        <3>1. IsInjective([n \in DOMAIN lru'.list |-> lru'.list[n].key])
            BY <1>1 DEF Consistent, Agrees, Distinct, IsInjective
        <3>2. QED
            BY <1>1, <3>1 DEF CacheConsistent, Consistent, Agrees
    <2>3. ReloadKeepsItems
        BY <1>0, ReloadStep DEF ReloadKeepsItems
    <2>4. QED
        BY <1>1, <2>1, <2>2, <2>3 DEF CacheStep
<1>2. ASSUME NEW k \in Keys, NEW v \in Values, Set(k, v) PROVE LRUInv' /\ CacheStep
    <2>1. lru' = AfterSet(lru, k, v) /\ file' = file
        BY <1>2 DEF Set
    <2>2. Consistent(AfterSet(lru, k, v))
        BY <1>0, SetKeeps
    <2>3. EvictsLeastRecent
        BY <1>0, <1>2, SetOrder
    <2>4. QED
        BY <1>0, <1>1, <2>1, <2>2, <2>3
<1>3. ASSUME NEW k \in Keys, Get(k) PROVE LRUInv' /\ CacheStep
    <2>1. lru' = AfterGet(lru, k) /\ file' = file
        BY <1>3 DEF Get
    <2>2. Consistent(AfterGet(lru, k))
        BY <1>0, GetKeeps
    <2>3. EvictsLeastRecent
        BY <1>0, <1>3, GetOrder
    <2>4. QED
        BY <1>0, <1>1, <2>1, <2>2, <2>3
<1>4. CASE SaveBegin
    BY <1>0, <1>1, <1>4, KeptOrder DEF SaveBegin
<1>5. CASE SaveEnd
    <2>1. FileSound(file') /\ lru' = lru
        BY <1>0, <1>5, SavedIsSound DEF SaveEnd
    <2>2. QED
        BY <1>0, <1>1, <2>1, KeptOrder
<1>6. CASE Reload /\ file' \in {file, NoFile}
    <2>1. Consistent(lru')
        BY <1>0, <1>6, ReloadStep
    <2>2. EvictsLeastRecent
        BY <1>6 DEF EvictsLeastRecent
    <2>3. QED
        BY <1>0, <1>1, <1>6, <2>1, <2>2
<1>7. QED
    BY <1>2, <1>3, <1>4, <1>5, <1>6 DEF Operation

-----------------------------------------------------------------------------
(* What is in the cache *)

Items(c) == {<<e.key, e.value>> : e \in ToSet(c.list)}

\* All that the cache holds, and all that its file would bring back, is in P.
Holds(P) ==
    /\ Items(lru) \subseteq P
    /\ file.whole => ToSet(file.items) \subseteq P

\* An operation that sets nothing that is not in P.
OperationIn(P) ==
    \/ \E k \in Keys, v \in Values : Set(k, v) /\ <<k, v>> \in P
    \/ \E k \in Keys : Get(k)
    \/ SaveBegin \/ SaveEnd
    \/ Reload /\ file' \in {file, NoFile}

\* What is found under a key has been set under it.
LEMMA FoundIsHeld ==
    ASSUME LRUInv, NEW P, Holds(P), NEW k \in lru.table
    PROVE  <<k, Find(lru, k).value>> \in P /\ Find(lru, k).value \in Values
<1>1. Agrees(lru)
    BY DEF LRUInv, Consistent
<1>2. /\ Place(lru, k) \in 1..Len(lru.list)
      /\ Find(lru, k) \in Entry /\ Find(lru, k).key = k
    BY <1>1, OthersOf
<1>3. Find(lru, k) \in ToSet(lru.list)
    BY <1>1, <1>2, LenProperties DEF Find, ToSet, Agrees
<1>4. <<Find(lru, k).key, Find(lru, k).value>> \in Items(lru)
    BY <1>3 DEF Items
<1>5. QED
    BY <1>2, <1>4 DEF Holds, Entry

\* The others were in the cache before.
LEMMA OthersToSet ==
    ASSUME NEW c, Agrees(c), NEW k
    PROVE  ToSet(Others(c, k)) \subseteq ToSet(c.list)
<1> DEFINE l == c.list
           p == Place(c, k)
           rest == Others(c, k)
<1>1. CASE k \notin c.table
    BY <1>1 DEF Others
<1>2. CASE k \in c.table
    <2>0. l \in Seq(Entry) /\ Len(l) \in Nat /\ DOMAIN l = 1..Len(l) /\ p \in 1..Len(l)
        BY <1>2, OthersOf, LenProperties DEF Agrees
    <2>1. rest = RemoveAt(l, p)
        BY <1>2 DEF Others
    <2> HIDE DEF l, p, rest
    <2>2. /\ rest \in Seq(Entry) /\ Len(rest) = Len(l) - 1
          /\ \A i \in 1..(Len(l) - 1) : rest[i] = IF i < p THEN l[i] ELSE l[i + 1]
        BY <2>0, <2>1, Removed
    <2>3. DOMAIN rest = 1..(Len(l) - 1)
        BY <2>2, LenProperties
    <2>4. \A i \in DOMAIN rest : \E j \in DOMAIN l : rest[i] = l[j]
        <3> SUFFICES ASSUME NEW i \in DOMAIN rest PROVE \E j \in DOMAIN l : rest[i] = l[j]
            OBVIOUS
        <3>1. i \in DOMAIN l /\ i + 1 \in DOMAIN l
            BY <2>0, <2>3
        <3>2. QED
            BY <2>2, <2>3, <3>1
    <2>5. QED
        BY <2>4 DEF ToSet, l, rest
<1>3. QED
    BY <1>1, <1>2

\* The items of a list in front of which an entry is put.
LEMMA FrontItems ==
    ASSUME NEW c, Agrees(c), NEW k, NEW e \in Entry, NEW x \in ToSet(<<e>> \o Others(c, k))
    PROVE  x = e \/ x \in ToSet(c.list)
<1>1. Others(c, k) \in Seq(Entry)
    BY OthersOf
<1>2. ToSet(<<e>> \o Others(c, k)) = {e} \cup ToSet(Others(c, k))
    BY <1>1, FrontToSet
<1>3. QED
    BY <1>2, OthersToSet

\* So the cache never has anything that was not set.
LEMMA HoldsStep ==
    ASSUME SizesFit, LRUInv, NEW P, Holds(P), OperationIn(P)
    PROVE  Holds(P)'
<1>0. Consistent(lru) /\ Agrees(lru) /\ FileSound(file) /\ Items(lru) \subseteq P
    BY DEF LRUInv, Consistent, Holds
<1>1. ASSUME NEW k \in Keys, NEW v \in Values, Set(k, v), <<k, v>> \in P PROVE Holds(P)'
    <2> DEFINE full == <<NewEntry(k, v)>> \o Others(lru, k)
    <2>1. NewEntry(k, v) \in Entry /\ NewEntry(k, v).key = k /\ NewEntry(k, v).value = v
        BY DEF NewEntry, Entry, SizesFit
    <2>2. full \in Seq(Entry)
        BY <1>0, SetKeeps
    <2>3. \E n \in 0..Len(full) :
              /\ AfterSet(lru, k, v).list = SubSeq(full, 1, Len(full) - n)
              /\ n > 0 => Total(SubSeq(full, 1, Len(full) - (n - 1))) > Capacity
              /\ Total(full) <= Capacity => n = 0
        BY <1>0, SetKeeps
    <2>4. \A x \in ToSet(full) : x = NewEntry(k, v) \/ x \in ToSet(lru.list)
        BY <1>0, <2>1, FrontItems
    <2> HIDE DEF full
    <2>5. ToSet(lru'.list) \subseteq ToSet(full)
        <3>1. PICK n \in 0..Len(full) : lru'.list = SubSeq(full, 1, Len(full) - n)
            BY <1>1, <2>3 DEF Set
        <3>2. Len(full) \in Nat /\ DOMAIN full = 1..Len(full)
            BY <2>2, LenProperties
        <3>3. Len(full) - n \in 0..Len(full)
            BY <3>2
        <3>4. /\ lru'.list \in Seq(Entry) /\ Len(lru'.list) = Len(full) - n
              /\ \A i \in 1..(Len(full) - n) : lru'.list[i] = full[i]
            BY <2>2, <3>1, <3>3, Split
        <3>5. DOMAIN lru'.list = 1..(Len(full) - n)
            BY <3>4, LenProperties
        <3>6. \A i \in DOMAIN lru'.list : i \in DOMAIN full /\ lru'.list[i] = full[i]
            <4>1. \A i \in 1..(Len(full) - n) : i \in DOMAIN full
                BY <3>2, <3>3
            <4>2. QED
                BY <3>4, <3>5, <4>1
        <3>7. QED
            BY <3>6 DEF ToSet
    <2>6. \A x \in ToSet(lru'.list) : <<x.key, x.value>> \in P
        BY <1>0, <1>1, <2>1, <2>4, <2>5 DEF Items
    <2>7. Items(lru') \subseteq P
        BY <2>6 DEF Items
    <2>8. QED
        BY <1>1, <2>7 DEF Holds, Set
<1>2. ASSUME NEW k \in Keys, Get(k) PROVE Holds(P)'
    <2>1. ToSet(lru'.list) \subseteq ToSet(lru.list)
        <3>1. CASE k \notin lru.table
            BY <1>0, <1>2, <3>1, GetKeeps DEF Get
        <3>2. CASE k \in lru.table
            <4>1. lru'.list = <<Find(lru, k)>> \o Others(lru, k) /\ Find(lru, k) \in Entry
                BY <1>0, <1>2, <3>2, GetKeeps DEF Get
            <4>2. Find(lru, k) \in ToSet(lru.list)
                <5>1. Place(lru, k) \in 1..Len(lru.list)
                    BY <1>0, <3>2, OthersOf
                <5>2. QED
                    BY <1>0, <5>1, LenProperties DEF Find, ToSet, Agrees
            <4>3. QED
                BY <1>0, <4>1, <4>2, FrontItems
        <3>3. QED
            BY <3>1, <3>2
    <2>2. Items(lru') \subseteq P
        BY <1>0, <2>1 DEF Items
    <2>3. QED
        BY <1>2, <2>2 DEF Holds, Get
<1>3. CASE SaveBegin
    <2>1. ~file'.whole /\ lru' = lru
        BY <1>3 DEF SaveBegin, NoFile
    <2>2. QED
        BY <1>0, <2>1 DEF Holds
<1>4. CASE SaveEnd
    <2>1. ToSet(file'.items) = Items(lru) /\ lru' = lru
        BY <1>4 DEF SaveEnd, ToSet, Items
    <2>2. QED
        BY <1>0, <2>1 DEF Holds
<1>5. CASE Reload /\ file' \in {file, NoFile}
    <2>1. Items(lru') \subseteq P
        <3>1. CASE file.whole
            BY <1>0, <1>5, <3>1, ReloadStep DEF Holds, Items
        <3>2. CASE ~file.whole
            BY <1>5, <3>2 DEF Reload, EmptyCache, Items, ToSet
        <3>3. QED
            BY <3>1, <3>2
    <2>2. file'.whole => file' = file
        BY <1>5 DEF NoFile
    <2>3. QED
        BY <2>1, <2>2 DEF Holds
<1>6. QED
    BY <1>1, <1>2, <1>3, <1>4, <1>5 DEF OperationIn

-----------------------------------------------------------------------------
(* Theorems *)

\* A cache that is used by its operations only has the types declared for it.
THEOREM CacheTypeCorrect == SizesFit => (Init /\ [][Operation]_cacheVars => []TypeOK)
<1> SUFFICES ASSUME SizesFit PROVE Init /\ [][Operation]_cacheVars => []TypeOK
    OBVIOUS
<1>1. Init => LRUInv
    BY InvInit
<1>2. LRUInv /\ [Operation]_cacheVars => LRUInv'
    <2>1. LRUInv /\ UNCHANGED cacheVars => LRUInv'
        BY DEF LRUInv, cacheVars
    <2>2. QED
        BY <2>1, InvStep
<1>3. LRUInv => TypeOK
    BY InvImplies
<1>4. QED
    BY <1>1, <1>2, <1>3, PTL

\* List, table and size agree after every operation of cache/lru.go, the
\* unsigned counter has not wrapped, what has been evicted was the oldest and no
\* more than had to be, and a file saved in full is loaded in full.
THEOREM CacheIsCorrect ==
    SizesFit => (Init /\ [][Operation]_cacheVars => [][CacheStep]_cacheVars)
<1> SUFFICES ASSUME SizesFit PROVE Init /\ [][Operation]_cacheVars => [][CacheStep]_cacheVars
    OBVIOUS
<1>1. Init => LRUInv
    BY InvInit
<1>2. LRUInv /\ [Operation]_cacheVars => LRUInv' /\ [CacheStep]_cacheVars
    <2>1. LRUInv /\ UNCHANGED cacheVars => LRUInv'
        BY DEF LRUInv, cacheVars
    <2>2. QED
        BY <2>1, InvStep
<1>3. QED
    BY <1>1, <1>2, PTL
=============================================================================
