---------------------------- MODULE IngestProofs ----------------------------
(* The partitions tile the key space; a merge holds all that its ranges       *)
(* cover, no key outside them and no other merge's; and where every commit    *)
(* syncs, a crash leaves the history's first writes and all that was          *)
(* promised: for any number of keys, writes, tables, merges and crashes.      *)
EXTENDS Ingest, FiniteSetTheorems, WellFoundedInduction, TLAPS

-----------------------------------------------------------------------------
(* Least and greatest.                                                        *)

\* A set of naturals has a least one.
LEMMA LeastKey ==
    ASSUME NEW S \in SUBSET Nat, S # {}
    PROVE  \E x \in S : \A y \in S : x <= y
<1>1. PICK x \in S : \A y \in S : ~(<<y, x>> \in OpToRel(<, Nat))
    BY NatLessThanWellFounded, WFMin, Zenon
<1>2. ASSUME NEW y \in S, ~(x <= y) PROVE FALSE
    <2>1. y < x /\ <<y, x>> \in Nat \X Nat
        BY <1>2
    <2>2. <<y, x>>[1] < <<y, x>>[2]
        BY <2>1
    <2> QED
        BY <2>1, <2>2, <1>1, Zenon DEF OpToRel
<1> QED
    BY <1>2

LEMMA MinKey ==
    ASSUME NEW S \in SUBSET Nat, S # {}
    PROVE  Min(S) \in S /\ \A y \in S : Min(S) <= y
BY LeastKey, Zenon DEF Min

\* And a bounded one a greatest.
LEMMA MaxBelow ==
    ASSUME NEW N \in Nat, NEW S \in SUBSET (0..N), S # {}
    PROVE  Max(S) \in S /\ \A y \in S : y <= Max(S)
<1> DEFINE T == {N - y : y \in S}
<1>1. \A y \in S : N - y \in Nat
    OBVIOUS
<1>2. PICK x \in T : \A y \in T : x <= y
    <2>1. T \in SUBSET Nat /\ T # {}
        BY <1>1
    <2> QED
        BY <2>1, LeastKey
<1>3. PICK m \in S : x = N - m
    BY <1>2
<1>4. \A y \in S : m >= y
    <2> TAKE y \in S
    <2>1. N - m <= N - y
        BY <1>2, <1>3
    <2> QED
        BY <2>1
<1>5. Max(S) \in S /\ \A y \in S : Max(S) >= y
    BY <1>4, Zenon DEF Max
<1> QED
    BY <1>5

-----------------------------------------------------------------------------
(* Places in an order.                                                        *)

\* The number of elements below one is its place in a finite, total order: every
\* place is taken, once.
LEMMA Places ==
    ASSUME NEW S, IsFiniteSet(S), NEW below \in [S -> SUBSET S],
           \A x \in S : x \notin below[x],
           \A x, y \in S : x # y => x \in below[y] \/ y \in below[x],
           \A x, y \in S : x \in below[y] => below[x] \subseteq below[y]
    PROVE  /\ \A x \in S : Cardinality(below[x]) \in 0..(Cardinality(S) - 1)
           /\ \A x, y \in S : x \in below[y] =>
                 Cardinality(below[x]) < Cardinality(below[y])
           /\ \A i \in 1..Cardinality(S) : \E x \in S : Cardinality(below[x]) = i - 1
<1> DEFINE c == Cardinality(S)
           rank == [x \in S |-> Cardinality(below[x])]
<1>1. c \in Nat
    BY FS_CardinalityType
<1>2. \A x \in S : /\ IsFiniteSet(below[x]) /\ Cardinality(below[x]) \in Nat
                   /\ Cardinality(below[x]) < c
    <2> TAKE x \in S
    <2>1. below[x] \in SUBSET S /\ x \notin below[x]
        OBVIOUS
    <2>2. IsFiniteSet(below[x]) /\ Cardinality(below[x]) <= c
        BY <2>1, FS_Subset
    <2>3. c # Cardinality(below[x])
        BY <2>1, FS_Subset
    <2>4. Cardinality(below[x]) \in Nat
        BY <2>2, FS_CardinalityType
    <2> QED
        BY <1>1, <2>2, <2>3, <2>4
<1>3. \A x, y \in S : x \in below[y] => Cardinality(below[x]) < Cardinality(below[y])
    <2> TAKE x, y \in S
    <2> HAVE x \in below[y]
    <2>1. below[x] \in SUBSET below[y] /\ below[x] # below[y]
        OBVIOUS
    <2>2. /\ Cardinality(below[x]) <= Cardinality(below[y])
          /\ Cardinality(below[y]) # Cardinality(below[x])
        BY <1>2, <2>1, FS_Subset
    <2> QED
        BY <1>2, <2>2
<1>4. rank \in [S -> 0..(c - 1)]
    <2>1. \A x \in S : Cardinality(below[x]) \in 0..(c - 1)
        BY <1>1, <1>2
    <2> QED
        BY <2>1
<1>5. \A x, y \in S : rank[x] = rank[y] => x = y
    BY <1>2, <1>3
<1>6. rank \in Injection(S, 0..(c - 1))
    BY <1>4, <1>5, Zenon DEF Injection, IsInjective
<1>7. IsFiniteSet(0..(c - 1)) /\ Cardinality(0..(c - 1)) = c
    <2>1. c - 1 \in Int /\ 0 \in Int
        BY <1>1
    <2>2. IsFiniteSet(0..(c - 1)) /\ Cardinality(0..(c - 1)) = IF 0 > c - 1 THEN 0 ELSE c - 1 - 0 + 1
        BY <2>1, FS_Interval
    <2> QED
        BY <1>1, <2>2
<1>8. rank \in Surjection(S, 0..(c - 1))
    BY <1>6, <1>7, FS_Injection, Zenon
<1>9. \A n \in 0..(c - 1) : \E x \in S : rank[x] = n
    BY <1>8, Zenon DEF Surjection
<1>10. \A i \in 1..c : \E x \in S : Cardinality(below[x]) = i - 1
    <2> TAKE i \in 1..c
    <2>1. i - 1 \in 0..(c - 1)
        BY <1>1
    <2> QED
        BY <1>9, <2>1
<1> QED
    BY <1>3, <1>4, <1>10

-----------------------------------------------------------------------------
(* Ranges that tile.                                                          *)

Inside(f, x) == f.lo <= x /\ x < f.hi
Apart(a, b) == a.hi <= b.lo \/ b.hi <= a.lo
Fenced(s) == s.lo \in 0..MaxKey /\ s.hi \in 1..Top /\ s.lo < s.hi

\* Every key is inside one of P, and none inside two.
Tiled(P) ==
    /\ \A p \in P : Fenced(p)
    /\ \A p, q \in P : p # q => Apart(p, q)
    /\ P # {} => \A x \in 0..MaxKey : \E p \in P : Inside(p, x)

LEMMA Numbers == MaxKey \in Nat /\ MaxKey >= 1 /\ Top \in Nat /\ Top = MaxKey + 1
BY MaxKeyAssumption DEF Top

\* Ranges that are apart have lower fences of their own.
LEMMA LowsDiffer ==
    ASSUME NEW P, Tiled(P), NEW p \in P, NEW q \in P, p.lo = q.lo
    PROVE  p = q
BY Numbers DEF Tiled, Fenced, Apart

LEMMA TiledFinite ==
    ASSUME NEW P, Tiled(P) PROVE IsFiniteSet(P)
<1> DEFINE low == [p \in P |-> p.lo]
<1>1. low \in [P -> 0..MaxKey]
    BY DEF Tiled, Fenced
<1>2. \A p, q \in P : low[p] = low[q] => p = q
    BY LowsDiffer
<1>3. low \in Injection(P, 0..MaxKey)
    BY <1>1, <1>2, Zenon DEF Injection, IsInjective
<1>4. IsFiniteSet(0..MaxKey)
    BY Numbers, FS_Interval
<1> QED
    BY <1>3, <1>4, FS_Injection, Zenon

\* seg_order of two partitions is the order of their lower fences.
LEMMA PartOrder ==
    ASSUME NEW a, NEW b, a.level = 1, b.level = 1, a.lo \in Int, b.lo \in Int,
           a.lo # b.lo
    PROVE  SegOrder(a, b) <=> a.lo < b.lo
<1>1. /\ Rank(a)[1] = 0 /\ Rank(b)[1] = 0
      /\ Rank(a)[2] = a.lo /\ Rank(b)[2] = b.lo
    BY DEF Rank
<1>2. ASSUME a.lo < b.lo PROVE SegOrder(a, b)
    <2>1. 2 \in 1..5 /\ \A j \in 1..(2 - 1) : j = 1
        OBVIOUS
    <2> QED
        BY <1>1, <1>2, <2>1 DEF SegOrder
<1>3. ASSUME SegOrder(a, b) PROVE a.lo < b.lo
    <2>1. PICK i \in 1..5 : /\ Rank(a)[i] < Rank(b)[i]
                            /\ \A j \in 1..(i - 1) : Rank(a)[j] = Rank(b)[j]
        BY <1>3 DEF SegOrder
    <2>2. i # 1
        BY <1>1, <2>1
    <2>3. i < 3
        <3> SUFFICES ASSUME i >= 3 PROVE FALSE
            BY <2>1
        <3>1. 2 \in 1..(i - 1)
            OBVIOUS
        <3> QED
            BY <1>1, <2>1, <3>1
    <2>4. i = 2
        BY <2>2, <2>3
    <2> QED
        BY <1>1, <2>1, <2>4
<1> QED
    BY <1>2, <1>3

\* What every segment is.
Segment(s) ==
    /\ s = [level |-> s.level, lo |-> s.lo, hi |-> s.hi, kind |-> s.kind, seq |-> s.seq,
            id |-> s.id, c |-> s.c]
    /\ Fenced(s) /\ s.level \in {0, 1} /\ s.seq \in Nat /\ s.id \in Nat

LEMMA SelfOrder ==
    ASSUME NEW s, Segment(s) PROVE ~SegOrder(s, s)
<1>1. \A i \in 1..5 : Rank(s)[i] \in Int
    <2> TAKE i \in 1..5
    <2>1. i = 1 \/ i = 2 \/ i = 3 \/ i = 4 \/ i = 5
        OBVIOUS
    <2>2. /\ Rank(s)[1] = 1 - s.level /\ Rank(s)[2] = s.lo /\ Rank(s)[3] = s.seq
          /\ Rank(s)[4] = (IF s.kind = "seg" THEN 1 ELSE 0) /\ Rank(s)[5] = s.id
        BY DEF Rank
    <2>3. 1 - s.level \in Int /\ s.lo \in Int /\ s.seq \in Int /\ s.id \in Int
        BY Numbers DEF Segment, Fenced
    <2> QED
        BY <2>1, <2>2, <2>3
<1> QED
    BY <1>1 DEF SegOrder

\* Maint::partitions_tile's walk over the sorted partitions finds no gap and no
\* overlap in ranges that tile.
LEMMA TiledOrdered ==
    ASSUME NEW S, \A s \in S : Segment(s), Tiled(Parts(S)) PROVE PartitionsTile(S)
<1> DEFINE P == Parts(S)
           n == Cardinality(P)
           O == InOrder(P)
           below == [s \in P |-> {t \in P : SegOrder(t, s)}]
           r(s) == Cardinality({t \in P : SegOrder(t, s)})
<1>1. IsFiniteSet(P) /\ n \in Nat
    BY TiledFinite, FS_CardinalityType
<1>2. \A p \in P : p.level = 1 /\ p.lo \in Int /\ p.hi \in Int /\ p.lo < p.hi
                   /\ p.lo >= 0 /\ p.lo <= MaxKey /\ p.hi <= Top
    BY Numbers DEF Tiled, Fenced, Parts
<1>3. \A p, q \in P : p \in below[q] <=> p.lo < q.lo
    <2> TAKE p, q \in P
    <2>1. CASE p = q
        BY <1>2, <2>1, SelfOrder DEF Parts
    <2>2. CASE p # q
        <3>1. p.lo # q.lo
            BY <2>2, LowsDiffer
        <3> QED
            BY <1>2, <3>1, PartOrder
    <2> QED
        BY <2>1, <2>2
<1>4. /\ \A x \in P : r(x) \in 0..(n - 1)
      /\ \A x, y \in P : x.lo < y.lo => r(x) < r(y)
      /\ \A i \in 1..n : \E x \in P : r(x) = i - 1
    <2>1. below \in [P -> SUBSET P] /\ \A x \in P : below[x] = {t \in P : SegOrder(t, x)}
        OBVIOUS
    <2>2. \A x \in P : x \notin below[x]
        BY <1>2, <1>3
    <2>3. \A x, y \in P : x # y => x \in below[y] \/ y \in below[x]
        <3> TAKE x, y \in P
        <3> HAVE x # y
        <3>1. x.lo # y.lo
            BY LowsDiffer
        <3> QED
            BY <1>2, <1>3, <3>1
    <2>4. \A x, y \in P : x \in below[y] => below[x] \subseteq below[y]
        <3> TAKE x, y \in P
        <3> HAVE x \in below[y]
        <3>1. \A z \in below[x] : z \in P
            BY <2>1
        <3>2. \A z \in below[x] : z.lo < y.lo
            BY <1>2, <1>3, <3>1
        <3> QED
            BY <1>3, <3>1, <3>2
    <2>5. IsFiniteSet(P) /\ below \in [P -> SUBSET P]
        BY <1>1, <2>1
    <2> HIDE DEF below, P, n
    <2>6. /\ \A x \in P : Cardinality(below[x]) \in 0..(n - 1)
          /\ \A x, y \in P : x \in below[y] => Cardinality(below[x]) < Cardinality(below[y])
          /\ \A i \in 1..n : \E x \in P : Cardinality(below[x]) = i - 1
        BY <2>2, <2>3, <2>4, <2>5, Places, Zenon DEF n
    <2> QED
        BY <1>3, <2>1, <2>6 DEF P, n
<1> HIDE DEF below
<1>5. O = [i \in 1..n |-> CHOOSE s \in P : r(s) = i - 1]
    BY DEF InOrder
<1>6. \A i \in 1..n : O[i] \in P /\ r(O[i]) = i - 1
    <2> TAKE i \in 1..n
    <2>1. O[i] = CHOOSE s \in P : r(s) = i - 1
        BY <1>5
    <2>2. \E s \in P : r(s) = i - 1
        BY <1>4
    <2> QED
        BY <2>1, <2>2, Zenon
<1>7. DOMAIN O = 1..n /\ O = [i \in 1..n |-> O[i]]
    BY <1>5
<1> HIDE DEF r, n, O, P
<1>15. O \in Seq(P) /\ Len(O) = n
    <2>1. O \in [1..n -> P]
        BY <1>6, <1>7
    <2> QED
        BY <1>1, <2>1
<1>8. SUFFICES ASSUME O # <<>>
               PROVE  /\ O[1].lo = 0 /\ O[Len(O)].hi = Top
                      /\ \A i \in DOMAIN O : O[i].lo < O[i].hi
                      /\ \A i \in 1..(Len(O) - 1) : O[i].hi = O[i + 1].lo
    BY DEF PartitionsTile, O, P
<1>9. n >= 1 /\ P # {}
    BY <1>1, <1>6, <1>7, <1>8, <1>15
<1>10. \A x \in 0..MaxKey : \E p \in P : p.lo <= x /\ x < p.hi
    BY <1>9 DEF Tiled, Inside, P
<1>11. \A p, q \in P : p # q => p.hi <= q.lo \/ q.hi <= p.lo
    BY DEF Tiled, Apart, P
<1>12. O[1].lo = 0
    <2>1. PICK p \in P : p.lo <= 0 /\ 0 < p.hi
        BY <1>10, Numbers
    <2>2. 1 \in 1..n /\ O[1] \in P /\ r(O[1]) = 0
        BY <1>1, <1>6, <1>9
    <2>3. ~(p.lo < O[1].lo)
        BY <1>1, <1>4, <2>2
    <2> QED
        BY <1>2, <2>1, <2>2, <2>3
<1>13. O[n].hi = Top
    <2>1. PICK p \in P : p.lo <= MaxKey /\ MaxKey < p.hi
        BY <1>10, Numbers
    <2>2. n \in 1..n /\ O[n] \in P /\ r(O[n]) = n - 1
        BY <1>1, <1>6, <1>9
    <2>3. p.hi = Top
        BY <1>2, <2>1, Numbers
    <2>4. ~(O[n].lo < p.lo)
        <3>1. r(p) \in 0..(n - 1)
            BY <1>4
        <3> QED
            BY <1>1, <1>4, <2>2, <3>1
    <2>5. O[n] = p
        BY <1>2, <1>11, <2>2, <2>3, <2>4
    <2> QED
        BY <2>3, <2>5
<1>14. ASSUME NEW i \in 1..(n - 1) PROVE O[i].hi = O[i + 1].lo
    <2> DEFINE a == O[i]
               b == O[i + 1]
    <2>1. i \in 1..n /\ i + 1 \in 1..n
        BY <1>1, <1>9
    <2>2. a \in P /\ b \in P /\ r(a) = i - 1 /\ r(b) = i
        BY <1>6, <2>1
    <2> HIDE DEF a, b
    <2>3. ~(b.lo < a.lo) /\ a # b
        BY <1>4, <2>2
    <2>4. a.hi <= b.lo
        BY <1>2, <1>11, <2>2, <2>3
    <2>5. ASSUME a.hi < b.lo PROVE FALSE
        <3>1. a.hi \in 0..MaxKey
            BY <1>2, <2>2, <2>5, Numbers
        <3>2. PICK p \in P : p.lo <= a.hi /\ a.hi < p.hi
            BY <1>10, <3>1
        <3>3. p # a
            BY <1>2, <2>2, <3>2
        <3>4. a.lo < p.lo
            BY <1>2, <1>11, <2>2, <3>2, <3>3
        <3>5. p.lo < b.lo
            BY <1>2, <2>2, <2>5, <3>2
        <3>6. r(a) < r(p) /\ r(p) < r(b) /\ r(p) \in Int
            BY <1>4, <2>2, <3>4, <3>5
        <3> QED
            BY <2>2, <3>6
    <2> QED
        BY <1>2, <2>2, <2>4, <2>5 DEF a, b
<1> QED
    BY <1>2, <1>6, <1>7, <1>12, <1>13, <1>14, <1>15

\* What takes the place of some of the ranges, and tiles each of them, tiles with
\* the rest.
LEMMA Retiled ==
    ASSUME NEW P, Tiled(P), NEW G \in SUBSET P, NEW N,
           \A q \in N : Fenced(q) /\ \E g \in G : g.lo <= q.lo /\ q.hi <= g.hi,
           \A q, r \in N : q # r => Apart(q, r),
           \A g \in G : \A x \in 0..MaxKey :
               Inside(g, x) => \E q \in N : Inside(q, x)
    PROVE  Tiled((P \ G) \cup N)
<1> DEFINE T == (P \ G) \cup N
<1>1. \A p \in T : Fenced(p)
    BY DEF Tiled
<1>2. \A p \in P \ G : \A q \in N : Apart(p, q)
    <2> TAKE p \in P \ G
    <2> TAKE q \in N
    <2>1. PICK g \in G : g.lo <= q.lo /\ q.hi <= g.hi
        OBVIOUS
    <2>2. Apart(p, g) /\ Fenced(p) /\ Fenced(g) /\ Fenced(q)
        BY DEF Tiled
    <2> QED
        BY <2>1, <2>2, Numbers DEF Apart, Fenced
<1>3. \A p, q \in T : p # q => Apart(p, q)
    <2> TAKE p, q \in T
    <2> HAVE p # q
    <2>1. CASE p \in N /\ q \in N
        BY <2>1
    <2>2. CASE p \in P \ G /\ q \in P \ G
        BY <2>2 DEF Tiled
    <2>3. CASE p \in P \ G /\ q \in N
        BY <2>3, <1>2
    <2>4. CASE p \in N /\ q \in P \ G
        <3>1. Apart(q, p)
            BY <1>2, <2>4
        <3> QED
            BY <3>1 DEF Apart
    <2> QED
        BY <2>1, <2>2, <2>3, <2>4
<1>4. ASSUME T # {}, NEW x \in 0..MaxKey PROVE \E p \in T : Inside(p, x)
    <2>1. P # {}
        BY <1>4
    <2>2. PICK p \in P : Inside(p, x)
        BY <2>1 DEF Tiled
    <2> QED
        BY <2>2
<1> QED
    BY <1>1, <1>3, <1>4 DEF Tiled

-----------------------------------------------------------------------------
(* The slices of a range.                                                     *)

LEMMA FenceShape ==
    ASSUME NEW f \in Fence
    PROVE  /\ Fenced(f) /\ f.lo \in Nat /\ f.hi \in Nat
           /\ f = [lo |-> f.lo, hi |-> f.hi]
BY Numbers DEF Fence, Fenced

\* The cuts of Slicer split a range into ranges that are apart and leave no key
\* of it out.
LEMMA SlicesTile ==
    ASSUME NEW f \in Fence, NEW cuts \in SUBSET Key
    PROVE  /\ \A g \in Slices(f, cuts) : g \in Fence /\ f.lo <= g.lo /\ g.hi <= f.hi
           /\ \A g, h \in Slices(f, cuts) : g # h => Apart(g, h)
           /\ \A x \in 0..MaxKey : Inside(f, x) =>
                 \E g \in Slices(f, cuts) : Inside(g, x)
<1> DEFINE at == {f.lo, f.hi} \cup {k \in cuts : f.lo < k /\ k < f.hi}
<1>1. Slices(f, cuts) = {g \in [lo : at, hi : at] :
                            /\ g.lo < g.hi
                            /\ \A x \in at : x <= g.lo \/ g.hi <= x}
    BY DEF Slices
<1>2. f.lo \in 0..MaxKey /\ f.hi \in 1..Top /\ f.lo < f.hi
    BY DEF Fence
<1>3. /\ \A a \in at : a \in 0..Top /\ a \in Nat /\ f.lo <= a /\ a <= f.hi
      /\ f.lo \in at /\ f.hi \in at
    <2>1. \A k \in cuts : k \in 1..MaxKey
        BY DEF Key
    <2> QED
        BY <1>2, <2>1, Numbers
<1> HIDE DEF at
<1>4. \A g \in Slices(f, cuts) : g \in Fence /\ f.lo <= g.lo /\ g.hi <= f.hi
    <2> TAKE g \in Slices(f, cuts)
    <2>1. g \in [lo : at, hi : at] /\ g.lo < g.hi
        BY <1>1
    <2>2. g.lo \in at /\ g.hi \in at /\ g = [lo |-> g.lo, hi |-> g.hi]
        BY <2>1
    <2>3. g.lo \in 0..MaxKey /\ g.hi \in 1..Top
        BY <1>3, <2>1, <2>2, Numbers
    <2> QED
        BY <1>3, <2>1, <2>2, <2>3 DEF Fence
<1>5. ASSUME NEW g \in Slices(f, cuts), NEW h \in Slices(f, cuts), g # h
      PROVE  Apart(g, h)
    <2>1. /\ g.lo \in at /\ g.hi \in at /\ g.lo < g.hi /\ g = [lo |-> g.lo, hi |-> g.hi]
          /\ h.lo \in at /\ h.hi \in at /\ h.lo < h.hi /\ h = [lo |-> h.lo, hi |-> h.hi]
          /\ \A x \in at : x <= g.lo \/ g.hi <= x
          /\ \A x \in at : x <= h.lo \/ h.hi <= x
        BY <1>1
    <2>2. g.lo # h.lo \/ g.hi # h.hi
        BY <1>5, <2>1
    <2>3. g.lo \in Nat /\ g.hi \in Nat /\ h.lo \in Nat /\ h.hi \in Nat
        BY <1>3, <2>1
    <2>4. /\ h.lo <= g.lo \/ g.hi <= h.lo
          /\ h.hi <= g.lo \/ g.hi <= h.hi
          /\ g.lo <= h.lo \/ h.hi <= g.lo
          /\ g.hi <= h.lo \/ h.hi <= g.hi
        BY <2>1
    <2> QED
        BY <2>1, <2>2, <2>3, <2>4 DEF Apart
<1>6. ASSUME NEW x \in 0..MaxKey, Inside(f, x)
      PROVE  \E g \in Slices(f, cuts) : Inside(g, x)
    <2> DEFINE lower == {a \in at : a <= x}
               upper == {a \in at : x < a}
               g == [lo |-> Max(lower), hi |-> Min(upper)]
    <2>1. lower \in SUBSET (0..Top) /\ lower # {} /\ upper \in SUBSET Nat /\ upper # {}
        BY <1>3, <1>6 DEF Inside
    <2>2. Max(lower) \in lower /\ \A y \in lower : y <= Max(lower)
        BY <2>1, MaxBelow, Numbers
    <2>3. Min(upper) \in upper /\ \A y \in upper : Min(upper) <= y
        BY <2>1, MinKey
    <2>4. Max(lower) \in at /\ Max(lower) <= x /\ Min(upper) \in at /\ x < Min(upper)
        BY <2>2, <2>3
    <2>5. Max(lower) < Min(upper)
        BY <1>3, <2>4
    <2>6. \A y \in at : y <= Max(lower) \/ Min(upper) <= y
        <3> TAKE y \in at
        <3>1. y \in lower \/ y \in upper
            BY <1>3
        <3> QED
            BY <2>2, <2>3, <3>1
    <2> HIDE DEF lower, upper
    <2>7. g \in [lo : at, hi : at] /\ g.lo = Max(lower) /\ g.hi = Min(upper)
        BY <2>4
    <2>8. g \in Slices(f, cuts)
        BY <1>1, <2>5, <2>6, <2>7
    <2> QED
        BY <2>4, <2>7, <2>8 DEF Inside
<1> QED
    BY <1>4, <1>5, <1>6

\* The first and the last key of a segment that has one.
LEMMA FirstLast ==
    ASSUME NEW s, Keys(s.c) # {}
    PROVE  /\ FirstKey(s) \in Keys(s.c) /\ LastKey(s) \in Keys(s.c)
           /\ FirstKey(s) \in Key /\ LastKey(s) \in Key
           /\ \A k \in Keys(s.c) : FirstKey(s) <= k /\ k <= LastKey(s)
<1>1. Keys(s.c) \in SUBSET Key /\ Key \subseteq 0..MaxKey /\ Key \subseteq Nat
    BY Numbers DEF Keys, Key
<1>2. Keys(s.c) \in SUBSET Nat /\ Keys(s.c) \in SUBSET (0..MaxKey) /\ MaxKey \in Nat
    BY <1>1, Numbers
<1>3. FirstKey(s) \in Keys(s.c) /\ \A k \in Keys(s.c) : FirstKey(s) <= k
    BY <1>2, MinKey, Zenon DEF FirstKey
<1>4. LastKey(s) \in Keys(s.c) /\ \A k \in Keys(s.c) : k <= LastKey(s)
    BY <1>2, MaxBelow, Zenon DEF LastKey
<1> QED
    BY <1>1, <1>3, <1>4

FirstKeys(ps) == {FirstKey(s) : s \in ps}

\* promotion_chain's pieces, each from its first key to the next one's, and what
\* is left under the first, are the range cut at their first keys.
StairsOver(f, ps, F) ==
    /\ F \in SUBSET Key
    /\ \A s \in ps : FirstKey(s) \in Key /\ f.lo < FirstKey(s) /\ FirstKey(s) < f.hi
    /\ \A s, t \in ps : FirstKey(s) = FirstKey(t) => s = t
    /\ Min(F) \in F /\ \A k \in F : Min(F) <= k
    /\ [lo |-> f.lo, hi |-> Min(F)] \in Slices(f, F)
    /\ \A s \in ps : [lo |-> FirstKey(s), hi |-> Above(f, ps, s)] \in Slices(f, F)
    /\ \A g \in Slices(f, F) :
          \/ g = [lo |-> f.lo, hi |-> Min(F)]
          \/ \E s \in ps : g = [lo |-> FirstKey(s), hi |-> Above(f, ps, s)]

LEMMA Stairs ==
    ASSUME NEW f \in Fence, NEW floor, NEW ps, Chain(f, floor, ps)
    PROVE  StairsOver(f, ps, FirstKeys(ps))
<1>13. PICK F : F = FirstKeys(ps)
    OBVIOUS
<1>12. F = {FirstKey(s) : s \in ps}
    BY <1>13 DEF FirstKeys
<1>1. \A s \in ps : /\ FirstKey(s) \in Key /\ LastKey(s) \in Key
                    /\ FirstKey(s) <= LastKey(s)
                    /\ f.lo < FirstKey(s) /\ FirstKey(s) < f.hi
    <2> TAKE s \in ps
    <2>1. Keys(s.c) # {} /\ FirstKey(s) > f.lo /\ FirstKey(s) < f.hi
        BY DEF Chain
    <2>2. /\ FirstKey(s) \in Key /\ LastKey(s) \in Key
          /\ FirstKey(s) <= LastKey(s)
        BY <2>1, FirstLast
    <2>3. FirstKey(s) \in Nat /\ f.lo \in Nat
        BY <2>2, FenceShape DEF Key
    <2> QED
        BY <2>1, <2>2, <2>3
<1>2. \A s, t \in ps : FirstKey(s) = FirstKey(t) => s = t
    <2> SUFFICES ASSUME NEW s \in ps, NEW t \in ps, FirstKey(s) = FirstKey(t), s # t
                 PROVE  FALSE
        OBVIOUS
    <2>1. LastKey(s) < FirstKey(t) \/ LastKey(t) < FirstKey(s)
        BY DEF Chain
    <2> QED
        BY <1>1, <2>1 DEF Key
<1>3. F \in SUBSET Key /\ F # {} /\ F \in SUBSET Nat
    BY <1>1, <1>12, Numbers DEF Chain, Key
<1>4. Min(F) \in F /\ \A k \in F : Min(F) <= k
    BY <1>3, MinKey
<1>5. \A k \in F : k \in Nat /\ f.lo < k /\ k < f.hi
    BY <1>1, <1>3, <1>12
<1>6. f.lo \in Nat /\ f.hi \in Nat /\ f.lo < f.hi
    BY FenceShape DEF Fenced
<1> DEFINE at == {f.lo, f.hi} \cup F
<1>7. Slices(f, F) = {g \in [lo : at, hi : at] :
                         /\ g.lo < g.hi
                         /\ \A x \in at : x <= g.lo \/ g.hi <= x}
    <2>1. at = {f.lo, f.hi} \cup {k \in F : f.lo < k /\ k < f.hi}
        BY <1>5
    <2> QED
        BY <2>1 DEF Slices
<1>8. ASSUME NEW s \in ps
      PROVE  /\ Above(f, ps, s) \in at /\ FirstKey(s) < Above(f, ps, s)
             /\ \A x \in at : x <= FirstKey(s) \/ Above(f, ps, s) <= x
    <2> DEFINE up == {k \in F : k > FirstKey(s)}
    <2>1. Above(f, ps, s) = IF up = {} THEN f.hi ELSE Min(up)
        <3>1. {FirstKey(t) : t \in ps \ {s}} \cap {k \in Key : k > FirstKey(s)} = up
            <4>1. ASSUME NEW k \in F, k > FirstKey(s)
                  PROVE  k \in Key /\ \E t \in ps \ {s} : k = FirstKey(t)
                <5>1. PICK t \in ps : k = FirstKey(t)
                    BY <1>12
                <5>2. t # s
                    BY <1>1, <4>1, <5>1 DEF Key
                <5> QED
                    BY <1>3, <5>1, <5>2
            <4> QED
                BY <1>12, <4>1
        <3> QED
            BY <3>1 DEF Above
    <2>2. FirstKey(s) \in Nat /\ FirstKey(s) \in F
        BY <1>1, <1>3, <1>12
    <2>3. CASE up = {}
        BY <1>1, <1>5, <1>6, <2>1, <2>2, <2>3
    <2>4. CASE up # {}
        <3>1. up \in SUBSET Nat
            BY <1>5
        <3>2. Min(up) \in up /\ \A y \in up : Min(up) <= y
            BY <2>4, <3>1, MinKey
        <3>3. Above(f, ps, s) = Min(up)
            BY <2>1, <2>4
        <3> QED
            BY <1>5, <1>6, <2>2, <3>2, <3>3
    <2> QED
        BY <2>3, <2>4
<1>9. [lo |-> f.lo, hi |-> Min(F)] \in Slices(f, F)
    <2> DEFINE g == [lo |-> f.lo, hi |-> Min(F)]
    <2>1. g \in [lo : at, hi : at] /\ g.lo < g.hi
        BY <1>4, <1>5
    <2>2. \A x \in at : x <= g.lo \/ g.hi <= x
        BY <1>4, <1>5, <1>6
    <2> QED
        BY <1>7, <2>1, <2>2
<1>10. ASSUME NEW s \in ps
       PROVE  [lo |-> FirstKey(s), hi |-> Above(f, ps, s)] \in Slices(f, F)
    <2> DEFINE g == [lo |-> FirstKey(s), hi |-> Above(f, ps, s)]
    <2>1. g \in [lo : at, hi : at] /\ g.lo < g.hi
        BY <1>8, <1>12
    <2>2. \A x \in at : x <= g.lo \/ g.hi <= x
        BY <1>8
    <2> QED
        BY <1>7, <2>1, <2>2
<1>11. ASSUME NEW g \in Slices(f, F)
       PROVE  \/ g = [lo |-> f.lo, hi |-> Min(F)]
              \/ \E s \in ps : g = [lo |-> FirstKey(s), hi |-> Above(f, ps, s)]
    <2>1. \A h \in Slices(f, F) : h.lo = g.lo => h = g
        <3> TAKE h \in Slices(f, F)
        <3> HAVE h.lo = g.lo
        <3>1. h # g => Apart(h, g)
            BY <1>3, SlicesTile
        <3>2. g \in Fence /\ h \in Fence
            BY <1>3, SlicesTile
        <3>3. Fenced(g) /\ Fenced(h)
            BY <3>2, FenceShape
        <3> QED
            BY <3>1, <3>3, Numbers DEF Apart, Fenced
    <2>2. g.lo \in at /\ g.hi \in at /\ g.lo < g.hi
        BY <1>7
    <2>3. g.lo # f.hi
        BY <1>5, <1>6, <2>2
    <2>4. CASE g.lo = f.lo
        BY <1>9, <2>1, <2>4
    <2>5. CASE g.lo \in F
        <3>1. PICK s \in ps : g.lo = FirstKey(s)
            BY <1>12, <2>5
        <3> QED
            BY <1>10, <2>1, <3>1
    <2> QED
        BY <2>2, <2>3, <2>4, <2>5
<1>14. StairsOver(f, ps, F)
    BY <1>1, <1>2, <1>3, <1>4, <1>9, <1>10, <1>11 DEF StairsOver
<1> QED
    BY <1>13, <1>14

-----------------------------------------------------------------------------
(* Subsequences.                                                              *)

\* A subsequence has the elements at its places and no other, in their order.
LEMMA SubsequenceOf ==
    ASSUME NEW T, NEW s \in Seq(T), NEW I \in SUBSET DOMAIN s
    PROVE  LET u == Subsequence(s, I) IN
           /\ u \in Seq(T) /\ Len(u) = Cardinality(I) /\ Len(u) \in Nat
           /\ \A j \in DOMAIN u : \E i \in I : u[j] = s[i]
           /\ \A i \in I : \E j \in DOMAIN u : u[j] = s[i]
<1> DEFINE u == Subsequence(s, I)
           n == Cardinality(I)
           below == [i \in I |-> {h \in I : h < i}]
           at == [j \in 1..n |-> CHOOSE i \in I : Cardinality({h \in I : h < i}) = j - 1]
<1>1. DOMAIN s = 1..Len(s) /\ Len(s) \in Nat /\ \A i \in DOMAIN s : s[i] \in T
    OBVIOUS
<1>2. \A i \in I : i \in Nat /\ i \in DOMAIN s
    BY <1>1
<1>3. IsFiniteSet(I) /\ n \in Nat
    <2>1. IsFiniteSet(1..Len(s))
        BY <1>1, FS_Interval
    <2>2. IsFiniteSet(I)
        BY <1>1, <2>1, FS_Subset
    <2> QED
        BY <2>2, FS_CardinalityType
<1>4. /\ \A x \in I : Cardinality(below[x]) \in 0..(n - 1)
      /\ \A x, y \in I : x \in below[y] => Cardinality(below[x]) < Cardinality(below[y])
      /\ \A i \in 1..n : \E x \in I : Cardinality(below[x]) = i - 1
    <2>1. below \in [I -> SUBSET I]
        OBVIOUS
    <2>2. \A x \in I : x \notin below[x]
        BY <1>2
    <2>3. \A x, y \in I : x # y => x \in below[y] \/ y \in below[x]
        BY <1>2
    <2>4. \A x, y \in I : x \in below[y] => below[x] \subseteq below[y]
        BY <1>2
    <2> HIDE DEF below, n
    <2> QED
        BY <1>3, <2>1, <2>2, <2>3, <2>4, Places, Zenon DEF n
<1>5. \A x \in I : below[x] = {h \in I : h < x}
    OBVIOUS
<1> HIDE DEF below, n
<1>6. \A j \in 1..n : at[j] \in I /\ Cardinality(below[at[j]]) = j - 1
    <2> TAKE j \in 1..n
    <2>1. at[j] = CHOOSE i \in I : Cardinality({h \in I : h < i}) = j - 1
        OBVIOUS
    <2>2. \E i \in I : Cardinality({h \in I : h < i}) = j - 1
        BY <1>4, <1>5
    <2>3. at[j] \in I /\ Cardinality({h \in I : h < at[j]}) = j - 1
        BY <2>1, <2>2, Zenon
    <2> QED
        BY <1>5, <2>3
<1>7. u = [j \in 1..n |-> s[at[j]]]
    BY DEF Subsequence, n
<1> HIDE DEF at, u
<1>8. u \in [1..n -> T] /\ DOMAIN u = 1..n
    BY <1>1, <1>2, <1>6, <1>7
<1>9. u \in Seq(T) /\ Len(u) = n
    BY <1>3, <1>8
<1>10. \A j \in DOMAIN u : \E i \in I : u[j] = s[i]
    BY <1>6, <1>7, <1>8
<1>11. ASSUME NEW i \in I PROVE \E j \in DOMAIN u : u[j] = s[i]
    <2> DEFINE j == Cardinality(below[i]) + 1
    <2>1. Cardinality(below[i]) \in 0..(n - 1)
        BY <1>4
    <2>2. j \in 1..n /\ Cardinality(below[i]) = j - 1
        BY <1>3, <2>1
    <2> HIDE DEF j
    <2>3. at[j] \in I /\ Cardinality(below[at[j]]) = Cardinality(below[i])
        BY <1>6, <2>2
    <2>4. at[j] = i
        <3>1. i \in below[at[j]] => Cardinality(below[i]) < Cardinality(below[at[j]])
            BY <1>4, <2>3
        <3>2. at[j] \in below[i] => Cardinality(below[at[j]]) < Cardinality(below[i])
            BY <1>4, <2>3
        <3>3. i \notin below[at[j]] /\ at[j] \notin below[i]
            BY <2>1, <2>3, <3>1, <3>2
        <3> QED
            BY <1>2, <1>5, <2>3, <3>3
    <2> QED
        BY <1>7, <1>8, <2>2, <2>4
<1> QED
    BY <1>3, <1>9, <1>10, <1>11 DEF u, n

\* It is empty where no place is taken.
LEMMA SubsequenceEmpty ==
    ASSUME NEW T, NEW s \in Seq(T), NEW I \in SUBSET DOMAIN s
    PROVE  Subsequence(s, I) = <<>> <=> I = {}
<1> DEFINE u == Subsequence(s, I)
<1>1. /\ u \in Seq(T)
      /\ \A j \in DOMAIN u : \E i \in I : u[j] = s[i]
      /\ \A i \in I : \E j \in DOMAIN u : u[j] = s[i]
    BY SubsequenceOf
<1> HIDE DEF u
<1>2. u = <<>> <=> DOMAIN u = {}
    BY <1>1
<1> QED
    BY <1>1, <1>2 DEF u

\* The keys of a table are those of its writes.
LEMMA ChainsKeys ==
    ASSUME NEW ws \in Seq(Write)
    PROVE  /\ Keys(Chains(ws)) = {ws[i].k : i \in DOMAIN ws}
           /\ \A k \in Key : \A j \in DOMAIN Chains(ws)[k] : Chains(ws)[k][j] \in Range(ws)
<1>1. \A i \in DOMAIN ws : ws[i] \in Write /\ ws[i].k \in Key
    <2>1. \A i \in DOMAIN ws : ws[i] \in Write
        OBVIOUS
    <2>2. \A w \in Write : w.k \in Key
        BY DEF Write
    <2> QED
        BY <2>1, <2>2
<1> DEFINE at(k) == {i \in DOMAIN ws : ws[i].k = k}
<1>2. \A k \in Key : Chains(ws)[k] = Subsequence(ws, at(k))
    BY DEF Chains
<1>3. \A k \in Key : Chains(ws)[k] = <<>> <=> at(k) = {}
    <2> TAKE k \in Key
    <2>1. at(k) \in SUBSET DOMAIN ws
        OBVIOUS
    <2> QED
        BY <1>2, <2>1, SubsequenceEmpty
<1>4. \A k \in Key : \A j \in DOMAIN Chains(ws)[k] : Chains(ws)[k][j] \in Range(ws)
    <2> TAKE k \in Key
    <2>1. at(k) \in SUBSET DOMAIN ws
        OBVIOUS
    <2> DEFINE u == Subsequence(ws, at(k))
    <2>2. \A j \in DOMAIN u : \E i \in at(k) : u[j] = ws[i]
        BY <2>1, SubsequenceOf
    <2>3. u = Chains(ws)[k]
        BY <1>2
    <2> HIDE DEF u
    <2> QED
        BY <2>2, <2>3 DEF Range
<1> QED
    BY <1>1, <1>3, <1>4 DEF Keys

-----------------------------------------------------------------------------
(* The invariant's parts.                                                     *)

\* The writer's state: a table holds writes that count.
WriterInv ==
    /\ phase \in {"up", "down"} /\ hist \in Seq(Write) /\ com \in 0..Len(hist)
    /\ prom \in Nat /\ mem \in Table /\ Range(mem.log) \subseteq Range(hist)
    /\ maxKey \in 0..MaxKey /\ run \in Nat /\ (run # 0 => mem.ord)

\* The log and the files of runs.
LogInv ==
    /\ covered \in Nat /\ wal \in Seq(Write) /\ Range(wal) \subseteq Range(hist)
    /\ walDur \in 0..Len(wal) /\ unsynced \in Nat /\ unsynced < SyncEvery
    /\ tmps \subseteq Run /\ \A t, u \in tmps : t.id = u.id => t = u
    /\ \A t \in tmps : /\ t.dur <= Len(t.recs)
                       /\ t.id = run => Len(t.recs) <= Len(mem.log)
    /\ nextSeg \in Nat \ {0} /\ fails \in Nat
    /\ phase = "up" => run < nextSeg /\ \A t \in tmps : t.id < nextSeg
    /\ phase = "down" => run = 0

\* A sealed table's name covers no less than the one before it and no more than
\* the log, and only the first table over an empty store may become its first
\* partition.
JobInv ==
    /\ frozen \in Seq(Job) /\ Len(frozen) <= FrozenCap
    /\ phase = "down" => frozen = <<>>
    /\ \A i \in DOMAIN frozen :
          /\ covered <= frozen[i].seq /\ frozen[i].seq <= Seq0
          /\ frozen[i].tmp # 0 => \A g \in frozen[i].fences : g.hi = Top
          /\ frozen[i].first => i = 1 /\ frozen[i].fences = {} /\ segs = {}
    /\ \A i, j \in DOMAIN frozen : i < j => frozen[i].seq <= frozen[j].seq

SegInv ==
    /\ \A s \in segs : Segment(s) /\ s.seq <= covered
    /\ Tiled(Parts(segs))
    /\ \E N \in Nat : \A s \in segs : s.id <= N

\* A merge in flight holds the live partitions of its ranges and no other's, all
\* of the store where it has none, and no segment another holds: the merges M over
\* the segments S, none named past the log records cov.
MergesHold(M, S, cov) ==
    /\ IsFiniteSet(M) /\ Cardinality(M) <= MergeParallel
    /\ \A m \in M :
          /\ m.inputs \subseteq S /\ m.inputs # {} /\ m.fences \subseteq Fence
          /\ m.seq \in Nat /\ m.seq <= cov
          /\ m.fences \subseteq Fences(Parts(S))
          /\ \A p \in Parts(S) : p \in m.inputs <=> FenceOf(p) \in m.fences
          /\ m.fences = {} => Parts(S) = {} /\ M = {m}
    /\ \A m, o \in M : m # o => m.inputs \cap o.inputs = {}

MergeInv == MergesHold(merges, segs, covered)

\* A piece merge holds pieces that no partition merge does.
TierInv ==
    /\ tier = {} \/ \E t : tier = {t}
    /\ \A t \in tier :
          /\ t.inputs \subseteq Pieces(segs) /\ t.inputs # {}
          /\ t.fence \in Fence /\ t.id \in Nat
          /\ \A m \in merges : m.inputs \cap t.inputs = {}

ShapeInv == WriterInv /\ LogInv /\ JobInv /\ SegInv /\ MergeInv /\ TierInv

LEMMA ShapeInit == Init => ShapeInv
<1> SUFFICES ASSUME Init PROVE ShapeInv
    OBVIOUS
<1> USE DEF Init
<1>1. WriterInv
    BY Numbers DEF WriterInv, Table, Range
<1>2. LogInv
    BY IngestAssumption DEF LogInv, Range
<1>3. JobInv
    BY IngestAssumption DEF JobInv
<1>4. SegInv
    BY DEF SegInv, Tiled, Parts
<1>5. MergeInv
    <2>1. IsFiniteSet({}) /\ Cardinality({}) = 0
        BY FS_EmptySet
    <2> QED
        BY <2>1, IngestAssumption DEF MergeInv, MergesHold
<1>6. TierInv
    BY DEF TierInv
<1> QED
    BY <1>1, <1>2, <1>3, <1>4, <1>5, <1>6 DEF ShapeInv

-----------------------------------------------------------------------------
(* What the writer's steps keep.                                              *)

LEMMA AppendRange ==
    ASSUME NEW T, NEW s \in Seq(T), NEW e \in T
    PROVE  Append(s, e) \in Seq(T) /\ Range(Append(s, e)) = Range(s) \cup {e}
<1>1. DOMAIN s = 1..Len(s) /\ Len(s) \in Nat
    OBVIOUS
<1>2. /\ Append(s, e) \in Seq(T) /\ DOMAIN Append(s, e) = 1..(Len(s) + 1)
      /\ Append(s, e)[Len(s) + 1] = e /\ \A i \in 1..Len(s) : Append(s, e)[i] = s[i]
    OBVIOUS
<1>3. \A i \in 1..(Len(s) + 1) : i \in 1..Len(s) \/ i = Len(s) + 1
    BY <1>1
<1>4. Len(s) + 1 \in 1..(Len(s) + 1) /\ 1..Len(s) \subseteq 1..(Len(s) + 1)
    BY <1>1
<1> QED
    BY <1>1, <1>2, <1>3, <1>4 DEF Range

LEMMA ConcatRange ==
    ASSUME NEW T, NEW s \in Seq(T), NEW t \in Seq(T)
    PROVE  /\ s \o t \in Seq(T) /\ Range(s \o t) = Range(s) \cup Range(t)
           /\ Len(s \o t) = Len(s) + Len(t)
           /\ \A i \in 1..Len(s) : (s \o t)[i] = s[i]
           /\ \A i \in 1..Len(t) : (s \o t)[Len(s) + i] = t[i]
<1>1. DOMAIN s = 1..Len(s) /\ Len(s) \in Nat /\ DOMAIN t = 1..Len(t) /\ Len(t) \in Nat
    OBVIOUS
<1>2. /\ s \o t \in Seq(T) /\ DOMAIN (s \o t) = 1..(Len(s) + Len(t))
      /\ Len(s \o t) = Len(s) + Len(t)
      /\ \A i \in 1..Len(s) : (s \o t)[i] = s[i]
    OBVIOUS
<1>3. \A i \in 1..Len(t) : (s \o t)[Len(s) + i] = t[i] /\ Len(s) + i \in 1..(Len(s) + Len(t))
    BY <1>1
<1>4. \A i \in 1..(Len(s) + Len(t)) :
         i \in 1..Len(s) \/ (i - Len(s) \in 1..Len(t) /\ i = Len(s) + (i - Len(s)))
    BY <1>1
<1>5. 1..Len(s) \subseteq 1..(Len(s) + Len(t))
    BY <1>1
<1>6. Range(s \o t) \subseteq Range(s) \cup Range(t)
    <2> SUFFICES ASSUME NEW i \in 1..(Len(s) + Len(t))
                 PROVE  (s \o t)[i] \in Range(s) \cup Range(t)
        BY <1>2 DEF Range
    <2>1. CASE i \in 1..Len(s)
        BY <1>1, <1>2, <2>1 DEF Range
    <2>2. CASE i - Len(s) \in 1..Len(t)
        <3>1. (s \o t)[i] = t[i - Len(s)]
            BY <1>3, <1>4, <2>2
        <3> QED
            BY <1>1, <2>2, <3>1 DEF Range
    <2> QED
        BY <1>4, <2>1, <2>2
<1>7. Range(s) \cup Range(t) \subseteq Range(s \o t)
    <2>1. \A i \in 1..Len(s) : s[i] \in Range(s \o t)
        BY <1>2, <1>5 DEF Range
    <2>2. \A i \in 1..Len(t) : t[i] \in Range(s \o t)
        BY <1>2, <1>3 DEF Range
    <2> QED
        BY <1>1, <2>1, <2>2 DEF Range
<1> QED
    BY <1>2, <1>3, <1>6, <1>7

LEMMA StagedOf ==
    ASSUME NEW ws \in Seq(Write)
    PROVE  /\ Staged(ws) \in Seq(Write) /\ Range(Staged(ws)) \subseteq Range(ws)
           /\ Committed(ws) \in Seq(Write) /\ Range(Committed(ws)) \subseteq Range(ws)
<1> DEFINE I == {i \in DOMAIN ws : ws[i].n <= com}
           J == {i \in DOMAIN ws : ws[i].n > com}
           a == Subsequence(ws, I)
           b == Subsequence(ws, J)
<1>1. I \in SUBSET DOMAIN ws /\ J \in SUBSET DOMAIN ws
    OBVIOUS
<1>2. a \in Seq(Write) /\ \A j \in DOMAIN a : \E i \in I : a[j] = ws[i]
    BY <1>1, SubsequenceOf
<1>3. b \in Seq(Write) /\ \A j \in DOMAIN b : \E i \in J : b[j] = ws[i]
    BY <1>1, SubsequenceOf
<1>4. a = Committed(ws) /\ b = Staged(ws)
    BY DEF Committed, Staged
<1> HIDE DEF a, b
<1> QED
    BY <1>2, <1>3, <1>4 DEF Range

\* The segment work and what it holds, where it and the manifest are left alone.
LEMMA WorkKept ==
    ASSUME SegInv, MergeInv, TierInv, UNCHANGED <<segs, merges, tier, covered>>
    PROVE  SegInv' /\ MergeInv' /\ TierInv'
BY DEF SegInv, MergeInv, MergesHold, TierInv

LEMMA JobsKept ==
    ASSUME JobInv, LogInv, UNCHANGED <<phase, frozen, segs, covered>>,
           Len(wal') \in Nat, Len(wal') >= Len(wal)
    PROVE  JobInv'
<1>1. Seq0 \in Nat /\ Seq0' \in Nat /\ Seq0 <= Seq0'
    BY DEF LogInv, Seq0
<1>2. \A i \in DOMAIN frozen : frozen[i].seq \in Nat
    <2>1. \A i \in DOMAIN frozen : frozen[i] \in Job
        BY DEF JobInv
    <2> QED
        BY <2>1 DEF Job
<1> QED
    BY <1>1, <1>2 DEF JobInv

\* A table sealed at the end of the log.
LEMMA JobAppended ==
    ASSUME JobInv, LogInv, Room, phase' = "up", UNCHANGED <<segs, covered>>,
           Len(wal') \in Nat, Len(wal') >= Len(wal),
           NEW j \in Job, frozen' = Append(frozen, j), j.seq = Seq0',
           j.tmp # 0 => \A g \in j.fences : g.hi = Top,
           j.first => MayBeFirst /\ j.fences = {}
    PROVE  JobInv'
<1>1. Seq0 \in Nat /\ Seq0' \in Nat /\ Seq0 <= Seq0' /\ covered <= Seq0' /\ covered \in Nat
    BY DEF LogInv, Seq0
<1>2. frozen \in Seq(Job) /\ Len(frozen) \in Nat /\ DOMAIN frozen = 1..Len(frozen)
    BY DEF JobInv
<1>3. /\ frozen' \in Seq(Job) /\ Len(frozen') = Len(frozen) + 1
      /\ DOMAIN frozen' = 1..(Len(frozen) + 1)
      /\ frozen'[Len(frozen) + 1] = j
      /\ \A i \in 1..Len(frozen) : frozen'[i] = frozen[i]
    BY <1>2
<1>4. \A i \in 1..Len(frozen) : frozen[i].seq \in Nat
    <2>1. \A i \in 1..Len(frozen) : frozen[i] \in Job
        BY <1>2
    <2> QED
        BY <2>1 DEF Job
<1>5. Len(frozen') <= FrozenCap
    BY <1>2, <1>3, IngestAssumption DEF Room
<1>6. \A i \in 1..(Len(frozen) + 1) : i \in 1..Len(frozen) \/ i = Len(frozen) + 1
    BY <1>2
<1>7. \A i \in DOMAIN frozen' :
          /\ covered' <= frozen'[i].seq /\ frozen'[i].seq <= Seq0'
          /\ frozen'[i].tmp # 0 => \A g \in frozen'[i].fences : g.hi = Top
          /\ frozen'[i].first => i = 1 /\ frozen'[i].fences = {} /\ segs' = {}
    <2> SUFFICES ASSUME NEW i \in 1..(Len(frozen) + 1)
                 PROVE  /\ covered' <= frozen'[i].seq /\ frozen'[i].seq <= Seq0'
                        /\ frozen'[i].tmp # 0 => \A g \in frozen'[i].fences : g.hi = Top
                        /\ frozen'[i].first => i = 1 /\ frozen'[i].fences = {} /\ segs' = {}
        BY <1>3
    <2>1. CASE i \in 1..Len(frozen)
        BY <1>1, <1>2, <1>3, <1>4, <2>1 DEF JobInv
    <2>2. CASE i = Len(frozen) + 1
        <3>1. j.first => Len(frozen) = 0
            BY <1>2 DEF MayBeFirst
        <3> QED
            BY <1>1, <1>2, <1>3, <2>2, <3>1 DEF MayBeFirst
    <2> QED
        BY <1>6, <2>1, <2>2
<1>8. \A i, k \in DOMAIN frozen' : i < k => frozen'[i].seq <= frozen'[k].seq
    <2> SUFFICES ASSUME NEW i \in 1..(Len(frozen) + 1), NEW k \in 1..(Len(frozen) + 1), i < k
                 PROVE  frozen'[i].seq <= frozen'[k].seq
        BY <1>3
    <2>1. i \in 1..Len(frozen)
        BY <1>2
    <2>2. CASE k \in 1..Len(frozen)
        BY <1>2, <1>3, <2>1, <2>2 DEF JobInv
    <2>3. CASE k = Len(frozen) + 1
        <3>1. frozen[i].seq <= Seq0
            BY <1>2, <2>1 DEF JobInv
        <3> QED
            BY <1>1, <1>3, <1>4, <2>1, <2>3, <3>1
    <2> QED
        BY <1>6, <2>2, <2>3
<1> QED
    BY <1>3, <1>5, <1>7, <1>8 DEF JobInv

\* The live partitions' ranges.
LEMMA LiveFences ==
    ASSUME SegInv
    PROVE  /\ Fences(Parts(segs)) \subseteq Fence
           /\ LastRange \subseteq Fence /\ \A g \in LastRange : g.hi = Top
<1>1. \A p \in Parts(segs) : FenceOf(p) \in Fence
    BY DEF SegInv, Tiled, Fenced, FenceOf, Fence
<1> QED
    BY <1>1 DEF Fences, LastRange

\* A run closed with what it holds (close_run).
LEMMA RunClosed ==
    ASSUME JobInv, LogInv, SegInv, phase' = "up", UNCHANGED <<segs, covered, wal>>,
           NEW id \in Nat, NEW ws \in Seq(Write), CloseRun(id, ws)
    PROVE  JobInv' /\ run' = 0
<1>1. PICK first \in BOOLEAN : /\ first => MayBeFirst
                               /\ frozen' = Append(frozen, RunJob(id, ws, first))
    BY DEF CloseRun
<1> DEFINE j == RunJob(id, ws, first)
<1>2. Seq0' = Seq0 /\ Seq0 \in Nat /\ Len(wal') \in Nat /\ Len(wal') = Len(wal)
    BY DEF Seq0, LogInv
<1>3. /\ j \in Job /\ j.seq = Seq0 /\ j.fences = LastRange /\ j.first = first
    BY <1>2, LiveFences DEF RunJob, Job
<1>4. first => LastRange = {}
    BY <1>1 DEF MayBeFirst, LastRange, Fences, Parts
<1>5. \A g \in j.fences : g.hi = Top
    BY <1>3, LiveFences
<1>6. frozen' = Append(frozen, j) /\ Room
    BY <1>1 DEF CloseRun
<1> HIDE DEF j
<1>7. JobInv'
    BY <1>1, <1>2, <1>3, <1>4, <1>5, <1>6, JobAppended
<1> QED
    BY <1>7 DEF CloseRun

\* A write through the log, with what it closes.
LEMMA HashedKept ==
    ASSUME WriterInv, LogInv, JobInv, SegInv, phase = "up",
           UNCHANGED <<phase, segs, covered, wal>>,
           NEW ws \in Seq(Write), Hashed(ws)
    PROVE  /\ mem' \in Table /\ Range(mem'.log) \subseteq Range(mem.log) \cup Range(ws)
           /\ run' = 0 /\ JobInv'
<1>1. mem.log \in Seq(Write) /\ mem.ord \in BOOLEAN /\ run \in Nat /\ (~mem.ord => run = 0)
    BY DEF WriterInv, Table
<1>2. Len(wal') \in Nat /\ Len(wal') >= Len(wal)
    BY DEF LogInv
<1>3. CASE ~mem.ord /\ UNCHANGED <<run, frozen>> /\ mem' = [mem EXCEPT !.log = @ \o ws]
    <2>1. mem.log \o ws \in Seq(Write) /\ Range(mem.log \o ws) = Range(mem.log) \cup Range(ws)
        BY <1>1, ConcatRange
    <2>2. mem' \in Table /\ mem'.log = mem.log \o ws
        BY <1>3, <2>1 DEF WriterInv, Table
    <2>3. JobInv'
        BY <1>2, <1>3, JobsKept
    <2> QED
        BY <1>1, <1>3, <2>1, <2>2, <2>3
<1>4. CASE /\ mem.ord
           /\ mem' = [ord |-> FALSE, log |-> Staged(mem.log) \o ws]
           /\ IF run = 0 THEN UNCHANGED <<run, frozen>>
              ELSE CloseRun(run, Committed(mem.log))
    <2>1. /\ Staged(mem.log) \in Seq(Write) /\ Range(Staged(mem.log)) \subseteq Range(mem.log)
          /\ Committed(mem.log) \in Seq(Write)
        BY <1>1, StagedOf
    <2>2. /\ Staged(mem.log) \o ws \in Seq(Write)
          /\ Range(Staged(mem.log) \o ws) = Range(Staged(mem.log)) \cup Range(ws)
        BY <2>1, ConcatRange
    <2>3. mem' \in Table /\ mem'.log = Staged(mem.log) \o ws
        BY <1>4, <2>2 DEF Table
    <2>4. CASE run = 0
        <3>1. JobInv'
            BY <1>2, <1>4, <2>4, JobsKept
        <3> QED
            BY <1>1, <1>4, <2>1, <2>2, <2>3, <2>4, <3>1
    <2>5. CASE run # 0
        <3>1. JobInv' /\ run' = 0
            BY <1>1, <1>4, <2>1, <2>5, RunClosed
        <3> QED
            BY <2>1, <2>2, <2>3, <3>1
    <2> QED
        BY <2>4, <2>5
<1> QED
    BY <1>3, <1>4 DEF Hashed

LEMMA ShapeWrites == ShapeInv /\ Writes => ShapeInv'
<1> SUFFICES ASSUME ShapeInv, Writes PROVE ShapeInv'
    OBVIOUS
<1>1. WriterInv /\ LogInv /\ JobInv /\ SegInv /\ MergeInv /\ TierInv
    BY DEF ShapeInv
<1>2. /\ phase = "up"
      /\ UNCHANGED <<phase, com, prom, wal, walDur, unsynced, covered, segs, merges, tier,
                     tmps, nextSeg, fails>>
    BY DEF Writes, log, shape
<1>3. PICK k \in Key : \/ Direct(k)
                       \/ \E inline \in BOOLEAN : Append1(k, inline)
                       \/ Put(k)
                       \/ Delete(k)
    BY DEF Writes
<1>4. /\ hist \in Seq(Write) /\ Len(hist) \in Nat /\ mem.log \in Seq(Write)
      /\ com \in 0..Len(hist) /\ k \in Nat /\ k <= MaxKey /\ MaxKey \in Nat /\ maxKey \in 0..MaxKey
      /\ Range(mem.log) \subseteq Range(hist) /\ mem \in Table
    BY <1>1, Numbers DEF WriterInv, Table, Key
<1>5. /\ Next1(k, FALSE) \in Write /\ Next1(k, TRUE) \in Write
      /\ [n |-> Next1(k, TRUE).n + 1, k |-> k, del |-> FALSE] \in Write
    BY <1>4 DEF Next1, Write
<1>6. Raised(k) \in 0..MaxKey
    BY <1>4 DEF Raised
\* What is appended to the history goes into the table, and no other write.
<1>7. ASSUME NEW ws \in Seq(Write), Hashed(ws), hist' = hist \o ws, maxKey' \in 0..MaxKey
      PROVE  WriterInv' /\ JobInv' /\ run' = 0
    <2>1. /\ hist' \in Seq(Write) /\ Range(hist') = Range(hist) \cup Range(ws)
          /\ Len(hist') = Len(hist) + Len(ws)
        BY <1>4, <1>7, ConcatRange
    <2>2. /\ mem' \in Table /\ Range(mem'.log) \subseteq Range(mem.log) \cup Range(ws)
          /\ run' = 0 /\ JobInv'
        BY <1>1, <1>2, <1>7, HashedKept
    <2>3. com' \in 0..Len(hist')
        BY <1>2, <1>4, <2>1
    <2> QED
        BY <1>1, <1>2, <1>4, <1>7, <2>1, <2>2, <2>3 DEF WriterInv
<1>8. \A w \in Write : Append(hist, w) = hist \o <<w>> /\ <<w>> \in Seq(Write)
    BY <1>4
<1>9. WriterInv' /\ JobInv' /\ (run' = 0 \/ (run' = run /\ Len(mem'.log) >= Len(mem.log)))
    <2>1. CASE Direct(k)
        <3> DEFINE w == Next1(k, FALSE)
        <3>1. /\ hist' = Append(hist, w) /\ mem' = [ord |-> TRUE, log |-> Append(mem.log, w)]
              /\ maxKey' = k /\ UNCHANGED <<run, frozen>>
            BY <2>1 DEF Direct
        <3>2. w \in Write
            BY <1>5
        <3> HIDE DEF w
        <3>3. /\ hist' \in Seq(Write) /\ Range(hist') = Range(hist) \cup {w}
              /\ Append(mem.log, w) \in Seq(Write)
              /\ Range(Append(mem.log, w)) = Range(mem.log) \cup {w}
              /\ Len(hist') = Len(hist) + 1
            BY <1>4, <3>1, <3>2, AppendRange
        <3>4. mem' \in Table /\ mem'.log = Append(mem.log, w)
            BY <3>1, <3>3 DEF Table
        <3>5. com' \in 0..Len(hist') /\ maxKey' \in 0..MaxKey
            BY <1>2, <1>4, <3>1, <3>3
        <3>6. WriterInv'
            BY <1>1, <1>2, <1>4, <3>1, <3>3, <3>4, <3>5 DEF WriterInv
        <3>7. Len(wal') \in Nat /\ Len(wal') >= Len(wal)
            BY <1>1, <1>2 DEF LogInv
        <3>8. JobInv'
            BY <1>1, <1>2, <3>1, <3>7, JobsKept
        <3> QED
            BY <1>4, <3>1, <3>3, <3>4, <3>6, <3>8
    <2>2. ASSUME NEW inline \in BOOLEAN, Append1(k, inline) PROVE WriterInv' /\ JobInv' /\ run' = 0
        <3>1. /\ hist' = Append(hist, Next1(k, FALSE)) /\ Hashed(<<Next1(k, FALSE)>>)
              /\ maxKey' = Raised(k)
            BY <2>2 DEF Append1
        <3> QED
            BY <1>5, <1>6, <1>7, <1>8, <3>1
    <2>3. CASE Put(k)
        <3> DEFINE t == Next1(k, TRUE)
                   w == [n |-> t.n + 1, k |-> k, del |-> FALSE]
        <3>1. hist' = hist \o <<t, w>> /\ Hashed(<<t, w>>) /\ maxKey' = Raised(k)
            BY <2>3 DEF Put
        <3>2. t \in Write /\ w \in Write
            BY <1>5
        <3> HIDE DEF t, w
        <3>3. <<t, w>> \in Seq(Write)
            BY <3>2
        <3> QED
            BY <1>6, <1>7, <3>1, <3>3
    <2>4. CASE Delete(k)
        <3>1. /\ hist' = Append(hist, Next1(k, TRUE)) /\ Hashed(<<Next1(k, TRUE)>>)
              /\ maxKey' = maxKey
            BY <2>4 DEF Delete
        <3> QED
            BY <1>4, <1>5, <1>7, <1>8, <3>1
    <2> QED
        BY <1>3, <2>1, <2>2, <2>3, <2>4
<1>10. LogInv'
    <2>1. Range(hist) \subseteq Range(hist')
        <3>1. \E ws \in Seq(Write) : hist' = hist \o ws
            <4>1. \/ \E w \in Write : hist' = Append(hist, w)
                  \/ hist' = hist \o <<Next1(k, TRUE), [n |-> Next1(k, TRUE).n + 1, k |-> k, del |-> FALSE]>>
                BY <1>3, <1>5 DEF Direct, Append1, Put, Delete
            <4>2. \A t, w \in Write : <<t, w>> \in Seq(Write)
                OBVIOUS
            <4> QED
                BY <1>5, <1>8, <4>1, <4>2
        <3> QED
            BY <1>4, <3>1, ConcatRange
    <2>2. run' < nextSeg
        BY <1>1, <1>2, <1>9 DEF LogInv
    <2>3. \A t \in tmps : /\ t.id # 0 /\ t.dur <= Len(t.recs) /\ Len(t.recs) \in Nat
                          /\ t.id = run => Len(t.recs) <= Len(mem.log)
        BY <1>1 DEF LogInv, Run
    <2>4. Len(mem.log) \in Nat /\ Len(mem'.log) \in Nat
        <3>1. mem'.log \in Seq(Write)
            BY <1>9 DEF WriterInv, Table
        <3> QED
            BY <1>4, <3>1
    <2>5. \A t \in tmps' : t.dur <= Len(t.recs) /\ (t.id = run' => Len(t.recs) <= Len(mem'.log))
        BY <1>2, <1>9, <2>3, <2>4
    <2> QED
        BY <1>1, <1>2, <2>1, <2>2, <2>5 DEF LogInv
<1>11. SegInv' /\ MergeInv' /\ TierInv'
    BY <1>1, <1>2, WorkKept
<1> QED
    BY <1>9, <1>10, <1>11 DEF ShapeInv

\* The policy's count after a commit.
LEMMA LeftBelow ==
    ASSUME NEW u \in Nat PROVE Left(u) \in Nat /\ Left(u) < SyncEvery
BY IngestAssumption DEF Left, Due

\* A batch committed into the run's file.
LEMMA RunWritten ==
    ASSUME WriterInv, LogInv, phase = "up", CommitDirect
    PROVE  /\ tmps' \subseteq Run /\ \A t, u \in tmps' : t.id = u.id => t = u
           /\ nextSeg' \in Nat \ {0} /\ RunId \in Nat \ {0} /\ RunId < nextSeg'
           /\ \A t \in tmps' : t.id # 0 /\ t.id < nextSeg' /\ t.dur <= Len(t.recs)
           /\ \A t \in tmps' : t.id = RunId => Len(t.recs) <= Len(mem.log)
           /\ com' = Len(hist) /\ UNCHANGED <<wal, walDur>>
<1> DEFINE old == {t \in tmps : t.id = run}
           dur == IF Due(unsynced + 1) THEN Len(mem.log) ELSE Max({0} \cup {t.dur : t \in old})
           new == [id |-> RunId, recs |-> mem.log, dur |-> dur]
<1>1. /\ tmps' = (tmps \ old) \cup {new}
      /\ nextSeg' = IF run = 0 THEN nextSeg + 1 ELSE nextSeg
      /\ com' = Len(hist) /\ UNCHANGED <<wal, walDur>>
    BY DEF CommitDirect
<1>2. /\ tmps \subseteq Run /\ nextSeg \in Nat \ {0} /\ run < nextSeg /\ run \in Nat
      /\ mem.log \in Seq(Write) /\ \A t, u \in tmps : t.id = u.id => t = u
      /\ \A t \in tmps : t.id < nextSeg /\ t.dur <= Len(t.recs)
      /\ \A t \in tmps : t.id = run => Len(t.recs) <= Len(mem.log)
    BY DEF LogInv, WriterInv, Table
<1>3. /\ \A t \in tmps : t.id \in Nat \ {0} /\ t.dur \in Nat /\ Len(t.recs) \in Nat
      /\ Len(mem.log) \in Nat
    BY <1>2 DEF Run
<1>4. dur \in 0..Len(mem.log)
    <2> DEFINE durs == {0} \cup {t.dur : t \in old}
    <2>1. Max(durs) \in 0..Len(mem.log)
        <3>1. CASE old = {}
            <4>1. durs = {0}
                BY <3>1
            <4> HIDE DEF durs
            <4> QED
                BY <1>3, <4>1 DEF Max
        <3>2. CASE old # {}
            <4>1. PICK t \in old : TRUE
                BY <3>2
            <4>2. old = {t}
                BY <1>2, <4>1
            <4>3. durs = {0, t.dur} /\ t.dur \in 0..Len(mem.log)
                BY <1>2, <1>3, <4>1, <4>2
            <4> HIDE DEF durs
            <4> QED
                BY <1>3, <4>3 DEF Max
        <3> QED
            BY <3>1, <3>2
    <2> HIDE DEF durs
    <2>2. dur = IF Due(unsynced + 1) THEN Len(mem.log) ELSE Max(durs)
        BY DEF durs
    <2> HIDE DEF dur
    <2> QED
        BY <1>3, <2>1, <2>2
<1>5. RunId \in Nat \ {0} /\ RunId < nextSeg' /\ nextSeg' \in Nat \ {0} /\ nextSeg <= nextSeg'
    BY <1>1, <1>2 DEF RunId
<1>6. new \in Run /\ new.id = RunId /\ new.dur <= Len(new.recs) /\ new.recs = mem.log
    BY <1>2, <1>4, <1>5 DEF Run
<1>7. \A t \in tmps \ old : t.id # RunId
    BY <1>2, <1>3 DEF RunId
<1> HIDE DEF old, new
<1>8. \A t, u \in tmps' : t.id = u.id => t = u
    BY <1>1, <1>2, <1>6, <1>7
<1>9. \A t \in tmps' : t.id # 0 /\ t.id < nextSeg' /\ t.dur <= Len(t.recs)
    BY <1>1, <1>2, <1>3, <1>5, <1>6
<1>10. \A t \in tmps' : t.id = RunId => Len(t.recs) <= Len(mem.log)
    BY <1>1, <1>3, <1>6, <1>7
<1> QED
    BY <1>1, <1>2, <1>5, <1>6, <1>8, <1>9, <1>10

\* What is staged logged.
LEMMA Logged ==
    ASSUME WriterInv, LogInv, wal' = wal \o Staged(mem.log)
    PROVE  /\ wal' \in Seq(Write) /\ Range(wal') \subseteq Range(hist)
           /\ Len(wal') \in Nat /\ Len(wal') >= Len(wal)
           /\ walDur \in 0..Len(wal') /\ Len(wal') \in 0..Len(wal')
<1>1. /\ mem.log \in Seq(Write) /\ Range(mem.log) \subseteq Range(hist)
      /\ wal \in Seq(Write) /\ Range(wal) \subseteq Range(hist) /\ walDur \in 0..Len(wal)
    BY DEF WriterInv, LogInv, Table
<1>2. Staged(mem.log) \in Seq(Write) /\ Range(Staged(mem.log)) \subseteq Range(mem.log)
    BY <1>1, StagedOf
<1>3. /\ wal' \in Seq(Write) /\ Range(wal') = Range(wal) \cup Range(Staged(mem.log))
      /\ Len(wal') = Len(wal) + Len(Staged(mem.log))
    BY <1>1, <1>2, ConcatRange
<1>4. Len(wal) \in Nat /\ Len(Staged(mem.log)) \in Nat
    BY <1>1, <1>2
<1> QED
    BY <1>1, <1>2, <1>3, <1>4

\* A commit, wherever the table's batches go.
LEMMA ShapeCommitted ==
    ASSUME ShapeInv, phase = "up",
           UNCHANGED <<phase, hist, mem, maxKey, frozen, covered, shape, fails>>,
           prom' \in Nat, unsynced' \in Nat, unsynced' < SyncEvery,
           \/ mem.ord /\ CommitDirect /\ run' = RunId
           \/ UNCHANGED <<wal, walDur, tmps, nextSeg, com, run>>
           \/ \E u : CommitLog(u) /\ UNCHANGED run
    PROVE  ShapeInv'
<1>1. WriterInv /\ LogInv /\ JobInv /\ SegInv /\ MergeInv /\ TierInv
    BY DEF ShapeInv
<1>2. UNCHANGED <<segs, merges, tier>>
    BY DEF shape
<1>3. hist \in Seq(Write) /\ Len(hist) \in 0..Len(hist)
    BY <1>1 DEF WriterInv
<1>4. SegInv' /\ MergeInv' /\ TierInv'
    BY <1>1, <1>2, WorkKept
<1>5. CASE CommitDirect /\ run' = RunId
    <2>1. /\ tmps' \subseteq Run /\ \A t, u \in tmps' : t.id = u.id => t = u
          /\ nextSeg' \in Nat \ {0} /\ RunId \in Nat \ {0} /\ RunId < nextSeg'
          /\ \A t \in tmps' : t.id # 0 /\ t.id < nextSeg' /\ t.dur <= Len(t.recs)
          /\ \A t \in tmps' : t.id = RunId => Len(t.recs) <= Len(mem.log)
          /\ com' = Len(hist) /\ UNCHANGED <<wal, walDur>>
        BY <1>1, <1>5, RunWritten
    <2>2. WriterInv'
        BY <1>1, <1>3, <1>5, <2>1 DEF WriterInv
    <2>3. LogInv'
        BY <1>1, <1>5, <2>1 DEF LogInv
    <2>4. JobInv'
        <3>1. Len(wal') \in Nat /\ Len(wal') >= Len(wal)
            BY <1>1, <2>1 DEF LogInv
        <3> QED
            BY <1>1, <1>2, <3>1, JobsKept
    <2> QED
        BY <1>4, <2>2, <2>3, <2>4 DEF ShapeInv
<1>6. CASE UNCHANGED <<wal, walDur, tmps, nextSeg, com, run>>
    <2>1. WriterInv'
        BY <1>1, <1>6 DEF WriterInv
    <2>2. LogInv'
        BY <1>1, <1>6 DEF LogInv
    <2>3. JobInv'
        <3>1. Len(wal') \in Nat /\ Len(wal') >= Len(wal)
            BY <1>1, <1>6 DEF LogInv
        <3> QED
            BY <1>1, <1>2, <3>1, JobsKept
    <2> QED
        BY <1>4, <2>1, <2>2, <2>3 DEF ShapeInv
<1>7. ASSUME NEW u, CommitLog(u), UNCHANGED run PROVE ShapeInv'
    <2>1. /\ wal' = wal \o Staged(mem.log) /\ walDur' \in {Len(wal'), walDur}
          /\ com' = Len(hist) /\ UNCHANGED <<tmps, nextSeg>>
        BY <1>7 DEF CommitLog
    <2>2. /\ wal' \in Seq(Write) /\ Range(wal') \subseteq Range(hist)
          /\ Len(wal') \in Nat /\ Len(wal') >= Len(wal)
          /\ walDur \in 0..Len(wal') /\ Len(wal') \in 0..Len(wal')
        BY <1>1, <2>1, Logged
    <2>3. WriterInv'
        BY <1>1, <1>3, <1>7, <2>1 DEF WriterInv
    <2>4. LogInv'
        BY <1>1, <1>7, <2>1, <2>2 DEF LogInv
    <2>5. JobInv'
        BY <1>1, <1>2, <2>2, JobsKept
    <2> QED
        BY <1>4, <2>3, <2>4, <2>5 DEF ShapeInv
<1> QED
    BY <1>5, <1>6, <1>7

LEMMA ShapeCommit == ShapeInv /\ (Commit \/ Sync) => ShapeInv'
<1> SUFFICES ASSUME ShapeInv, Commit \/ Sync PROVE ShapeInv'
    OBVIOUS
<1>1. /\ hist \in Seq(Write) /\ Len(hist) \in Nat /\ prom \in Nat /\ unsynced \in Nat
      /\ 0 < SyncEvery /\ SyncEvery \in Nat
    BY IngestAssumption DEF ShapeInv, WriterInv, LogInv
<1>2. CASE Commit
    <2>1. /\ phase = "up" /\ unsynced' = Left(unsynced + 1) /\ Promise
          /\ UNCHANGED <<phase, hist, mem, maxKey, frozen, covered, shape, fails>>
          /\ \/ mem.ord /\ CommitDirect /\ run' = RunId
             \/ CommitLog(unsynced + 1) /\ UNCHANGED run
        BY <1>2 DEF Commit
    <2>2. unsynced' \in Nat /\ unsynced' < SyncEvery
        <3>1. unsynced + 1 \in Nat
            BY <1>1
        <3> QED
            BY <2>1, <3>1, LeftBelow
    <2>3. prom' \in Nat
        BY <1>1, <2>1 DEF Promise
    <2> QED
        BY <2>1, <2>2, <2>3, ShapeCommitted
<1>3. CASE Sync
    <2>1. /\ phase = "up" /\ unsynced' = 0 /\ prom' = Len(hist)
          /\ UNCHANGED <<phase, hist, mem, maxKey, frozen, covered, shape, fails>>
          /\ \/ mem.ord /\ CommitDirect /\ run' = RunId
             \/ UNCHANGED <<wal, walDur, tmps, nextSeg, com, run>>
             \/ CommitLog(SyncEvery) /\ UNCHANGED run
        BY <1>3 DEF Sync
    <2>2. unsynced' \in Nat /\ unsynced' < SyncEvery /\ prom' \in Nat
        BY <1>1, <2>1
    <2> QED
        BY <2>1, <2>2, ShapeCommitted
<1> QED
    BY <1>2, <1>3

LEMMA ShapeSealRun == ShapeInv /\ SealRun => ShapeInv'
<1> SUFFICES ASSUME ShapeInv, SealRun PROVE ShapeInv'
    OBVIOUS
<1>1. WriterInv /\ LogInv /\ JobInv /\ SegInv /\ MergeInv /\ TierInv
    BY DEF ShapeInv
<1>2. /\ phase = "up" /\ mem.ord /\ CloseRun(RunId, mem.log)
      /\ mem' = [ord |-> FALSE, log |-> <<>>]
      /\ UNCHANGED <<phase, hist, maxKey, covered, segs, merges, tier, fails>>
    BY DEF SealRun, shape
<1>3. /\ hist \in Seq(Write) /\ Len(hist) \in 0..Len(hist) /\ mem.log \in Seq(Write)
      /\ prom \in Nat /\ unsynced \in Nat /\ run \in Nat /\ nextSeg \in Nat
    BY <1>1 DEF WriterInv, LogInv, Table
<1>4. SegInv' /\ MergeInv' /\ TierInv'
    BY <1>1, <1>2, WorkKept
<1>5. mem' \in Table /\ Range(mem'.log) = {}
    BY <1>2 DEF Table, Range
<1>6. UNCHANGED wal
    BY DEF SealRun, CommitDirect
<1>7. JobInv' /\ run' = 0
    <2>1. RunId \in Nat
        BY <1>3 DEF RunId
    <2> QED
        BY <1>1, <1>2, <1>3, <1>6, <2>1, RunClosed
<1>8. CASE CommitDirect /\ unsynced' = Left(unsynced + 1) /\ Promise
    <2>1. /\ tmps' \subseteq Run /\ \A t, u \in tmps' : t.id = u.id => t = u
          /\ nextSeg' \in Nat \ {0} /\ RunId \in Nat \ {0} /\ RunId < nextSeg'
          /\ \A t \in tmps' : t.id # 0 /\ t.id < nextSeg' /\ t.dur <= Len(t.recs)
          /\ \A t \in tmps' : t.id = RunId => Len(t.recs) <= Len(mem.log)
          /\ com' = Len(hist) /\ UNCHANGED <<wal, walDur>>
        BY <1>1, <1>2, <1>8, RunWritten
    <2>2. unsynced' \in Nat /\ unsynced' < SyncEvery
        <3>1. unsynced + 1 \in Nat
            BY <1>3
        <3> QED
            BY <1>8, <3>1, LeftBelow
    <2>3. prom' \in Nat
        BY <1>3, <1>8 DEF Promise
    <2>4. WriterInv'
        BY <1>1, <1>2, <1>3, <1>5, <1>7, <2>1, <2>3 DEF WriterInv
    <2>5. LogInv'
        BY <1>1, <1>2, <1>7, <2>1, <2>2 DEF LogInv
    <2> QED
        BY <1>4, <1>7, <2>4, <2>5 DEF ShapeInv
<1>9. CASE UNCHANGED <<wal, walDur, tmps, nextSeg, com, unsynced, prom>>
    <2>1. WriterInv'
        BY <1>1, <1>2, <1>5, <1>7, <1>9 DEF WriterInv
    <2>2. LogInv'
        <3>1. \A t \in tmps : t.id # 0
            BY <1>1 DEF LogInv, Run
        <3> QED
            BY <1>1, <1>2, <1>7, <1>9, <3>1 DEF LogInv
    <2> QED
        BY <1>4, <1>7, <2>1, <2>2 DEF ShapeInv
<1> QED
    BY <1>8, <1>9 DEF SealRun

LEMMA ShapeSealTable == ShapeInv /\ SealTable => ShapeInv'
<1> SUFFICES ASSUME ShapeInv, SealTable PROVE ShapeInv'
    OBVIOUS
<1> DEFINE u == IF Staged(mem.log) = <<>> THEN unsynced ELSE unsynced + 1
           fs == Fences(Parts(segs))
<1>1. WriterInv /\ LogInv /\ JobInv /\ SegInv /\ MergeInv /\ TierInv
    BY DEF ShapeInv
<1>2. /\ phase = "up" /\ ~mem.ord /\ Room /\ wal' = wal \o Staged(mem.log)
      /\ walDur' \in {Len(wal'), walDur} /\ unsynced' = Left(u) /\ com' = Len(hist) /\ Promise
      /\ nextSeg' = nextSeg + Max({1, Cardinality(fs)})
      /\ mem' = [ord |-> FALSE, log |-> <<>>]
      /\ UNCHANGED <<phase, hist, maxKey, run, covered, segs, merges, tier, tmps, fails>>
    BY DEF SealTable, shape
<1>3. /\ hist \in Seq(Write) /\ Len(hist) \in 0..Len(hist) /\ mem.log \in Seq(Write)
      /\ prom \in Nat /\ unsynced \in Nat /\ run = 0 /\ nextSeg \in Nat \ {0} /\ covered \in Nat
    BY <1>1, <1>2 DEF WriterInv, LogInv, Table
<1>4. /\ wal' \in Seq(Write) /\ Range(wal') \subseteq Range(hist)
      /\ Len(wal') \in Nat /\ Len(wal') >= Len(wal)
      /\ walDur \in 0..Len(wal') /\ Len(wal') \in 0..Len(wal')
    BY <1>1, <1>2, Logged
<1>5. unsynced' \in Nat /\ unsynced' < SyncEvery
    <2>1. u \in Nat
        BY <1>3
    <2> QED
        BY <1>2, <2>1, LeftBelow
<1>6. nextSeg' \in Nat \ {0} /\ nextSeg <= nextSeg'
    <2>1. IsFiniteSet(fs)
        <3>1. IsFiniteSet(Parts(segs))
            BY <1>1, TiledFinite DEF SegInv
        <3> DEFINE f == [p \in Parts(segs) |-> FenceOf(p)]
        <3>2. f \in Surjection(Parts(segs), fs)
            BY Zenon DEF Surjection, Fences
        <3> QED
            BY <3>1, <3>2, FS_Surjection
    <2>2. Cardinality(fs) \in Nat
        BY <2>1, FS_CardinalityType
    <2> HIDE DEF fs
    <2>3. Max({1, Cardinality(fs)}) \in Nat
        BY <2>2 DEF Max
    <2> QED
        BY <1>2, <1>3, <2>3
<1>7. JobInv'
    <2>1. PICK first \in BOOLEAN :
              /\ first => MayBeFirst
              /\ frozen' = Append(frozen,
                    [log |-> mem.log, tmp |-> 0, seq |-> covered + Len(wal'),
                     fences |-> fs, id |-> nextSeg, first |-> first])
        BY DEF SealTable
    <2> DEFINE j == [log |-> mem.log, tmp |-> 0, seq |-> covered + Len(wal'),
                     fences |-> fs, id |-> nextSeg, first |-> first]
    <2>2. fs \subseteq Fence
        BY <1>1, LiveFences
    <2>3. j \in Job /\ j.tmp = 0 /\ j.fences = fs /\ j.first = first
        BY <1>3, <1>4, <2>2 DEF Job
    <2>4. j.seq = Seq0'
        BY <1>2 DEF Seq0
    <2>5. first => fs = {}
        BY <2>1 DEF MayBeFirst, Fences, Parts
    <2> HIDE DEF j, fs
    <2>6. frozen' = Append(frozen, j)
        BY <2>1 DEF j
    <2> QED
        BY <1>1, <1>2, <1>4, <2>1, <2>3, <2>4, <2>5, <2>6, JobAppended
<1>8. WriterInv'
    <2>1. mem' \in Table /\ Range(mem'.log) = {}
        BY <1>2 DEF Table, Range
    <2>2. prom' \in Nat
        BY <1>2, <1>3 DEF Promise
    <2> QED
        BY <1>1, <1>2, <1>3, <2>1, <2>2 DEF WriterInv
<1>9. LogInv'
    <2>1. run < nextSeg /\ \A t \in tmps : t.id \in Nat /\ t.id < nextSeg
        BY <1>1, <1>2 DEF LogInv, Run
    <2> HIDE DEF u, fs
    <2>2. run' < nextSeg' /\ \A t \in tmps' : t.id < nextSeg'
        <3>1. run' = run /\ tmps' = tmps /\ nextSeg' \in Nat /\ nextSeg <= nextSeg'
            BY <1>2, <1>6
        <3> QED
            BY <1>3, <2>1, <3>1
    <2>3. \A t \in tmps : t.id # 0
        BY <1>1 DEF LogInv, Run
    <2> QED
        BY <1>1, <1>2, <1>3, <1>4, <1>5, <1>6, <2>2, <2>3 DEF LogInv
<1>10. SegInv' /\ MergeInv' /\ TierInv'
    BY <1>1, <1>2, WorkKept
<1> QED
    BY <1>7, <1>8, <1>9, <1>10 DEF ShapeInv

-----------------------------------------------------------------------------
(* What a seal lands as.                                                      *)

LEMMA WholeFence == Whole \in Fence /\ Whole.lo = 0 /\ Whole.hi = Top
BY Numbers DEF Whole, Fence

LEMMA FenceFinite == IsFiniteSet(Fence)
<1> DEFINE f == [g \in Fence |-> <<g.lo, g.hi>>]
           T == (0..MaxKey) \X (1..Top)
<1>1. IsFiniteSet(0..MaxKey) /\ IsFiniteSet(1..Top)
    BY Numbers, FS_Interval
<1>2. IsFiniteSet(T)
    BY <1>1, FS_Product
<1>3. f \in [Fence -> T]
    BY DEF Fence
<1>4. \A g, h \in Fence : f[g] = f[h] => g = h
    BY FenceShape
<1>5. f \in Injection(Fence, T)
    BY <1>3, <1>4, Zenon DEF Injection, IsInjective
<1> QED
    BY <1>2, <1>5, FS_Injection, Zenon

LEMMA RunShape ==
    ASSUME NEW fs \in SUBSET Fence, \A g \in fs : g.hi = Top, NEW seq \in Nat, NEW id \in Nat,
           NEW recs
    PROVE  LET p == RunPiece(fs, seq, id, recs) IN
           /\ Segment(p) /\ p.level = 0 /\ p.seq = seq /\ p.id = id /\ p.c = Chains(recs)
           /\ p.hi = Top /\ (p.lo = 0 \/ \E g \in fs : p.lo = g.lo)
           /\ fs = {} => p.lo = 0
<1> DEFINE p == RunPiece(fs, seq, id, recs)
           f == IF fs = {} THEN Whole ELSE CHOOSE g \in fs : g.hi = Top
<1>1. f \in Fence /\ f.hi = Top /\ (f.lo = 0 \/ \E g \in fs : f.lo = g.lo) /\ (fs = {} => f.lo = 0)
    <2>1. CASE fs = {}
        BY <2>1, WholeFence
    <2>2. CASE fs # {}
        <3>1. (CHOOSE g \in fs : g.hi = Top) \in fs
            BY <2>2
        <3>2. f \in fs
            BY <2>2, <3>1
        <3> QED
            BY <2>2, <3>2
    <2> QED
        BY <2>1, <2>2
<1> HIDE DEF f
<1>2. /\ p.level = 0 /\ p.lo = f.lo /\ p.hi = f.hi /\ p.seq = seq /\ p.id = id
      /\ p.c = Chains(recs)
      /\ p = [level |-> p.level, lo |-> p.lo, hi |-> p.hi, kind |-> p.kind, seq |-> p.seq,
              id |-> p.id, c |-> p.c]
    BY DEF RunPiece, f
<1>3. Fenced(f)
    BY <1>1, FenceShape
<1> HIDE DEF p
<1>4. Segment(p)
    BY <1>2, <1>3 DEF Segment, Fenced
<1> QED
    BY <1>1, <1>2, <1>4 DEF p

LEMMA PromotedShape ==
    ASSUME NEW s, Segment(s), NEW f \in Fence
    PROVE  LET p == Promoted(s, f) IN
           /\ Segment(p) /\ p.level = 1 /\ p.lo = f.lo /\ p.hi = f.hi
           /\ FenceOf(p) = f /\ p.seq = s.seq /\ p.id = s.id /\ p.c = s.c
<1> DEFINE r == [level |-> s.level, lo |-> s.lo, hi |-> s.hi, kind |-> s.kind, seq |-> s.seq,
                 id |-> s.id, c |-> s.c]
           q == [level |-> 1, lo |-> f.lo, hi |-> f.hi, kind |-> "par", seq |-> s.seq,
                 id |-> s.id, c |-> s.c]
<1>1. s = r
    BY DEF Segment
<1>2. [r EXCEPT !.level = 1, !.kind = "par", !.lo = f.lo, !.hi = f.hi] = q
    <2> DEFINE r1 == [r EXCEPT !.level = 1]
               r2 == [r1 EXCEPT !.kind = "par"]
               r3 == [r2 EXCEPT !.lo = f.lo]
    <2>1. r1 = [level |-> 1, lo |-> s.lo, hi |-> s.hi, kind |-> s.kind, seq |-> s.seq,
                id |-> s.id, c |-> s.c]
        OBVIOUS
    <2> HIDE DEF r1
    <2>2. r2 = [level |-> 1, lo |-> s.lo, hi |-> s.hi, kind |-> "par", seq |-> s.seq,
                id |-> s.id, c |-> s.c]
        BY <2>1
    <2> HIDE DEF r2
    <2>3. r3 = [level |-> 1, lo |-> f.lo, hi |-> s.hi, kind |-> "par", seq |-> s.seq,
                id |-> s.id, c |-> s.c]
        BY <2>2
    <2> HIDE DEF r3
    <2>4. [r3 EXCEPT !.hi = f.hi] = q
        BY <2>3
    <2> QED
        BY <2>4 DEF r1, r2, r3
<1>3. Promoted(s, f) = q
    BY <1>1, <1>2 DEF Promoted
<1>4. Fenced(f) /\ f = [lo |-> f.lo, hi |-> f.hi]
    BY FenceShape
<1>5. Segment(q)
    BY <1>4 DEF Segment, Fenced
<1>6. FenceOf(q) = f
    BY <1>4 DEF FenceOf
<1> QED
    BY <1>3, <1>5, <1>6

\* What a seal lands as: pieces, or the store's first partition.
LEMMA LandedShape ==
    ASSUME NEW j \in Job, j.tmp # 0 => \A g \in j.fences : g.hi = Top, j.first => j.fences = {}
    PROVE  /\ \E N \in Nat : \A p \in LandedSegs(j) : Segment(p) /\ p.seq = j.seq /\ p.id <= N
           /\ \/ \A p \in LandedSegs(j) : p.level = 0
              \/ /\ j.first
                 /\ \A p \in LandedSegs(j) : p.level = 1 /\ p.lo = 0 /\ p.hi = Top
                 /\ \A p, q \in LandedSegs(j) : p = q
<1> DEFINE fs == IF j.fences = {} THEN {Whole} ELSE j.fences
           at(f) == Cardinality({g \in fs : g.lo < f.lo})
           kind == IF j.fences = {} THEN "seg" ELSE "pcs"
           ps == IF j.tmp # 0 THEN {RunPiece(j.fences, j.seq, j.id, j.log)}
                 ELSE CutAt(j.fences, j.seq, j.id, Chains(j.log))
           N == j.id + Cardinality(Fence)
<1>1. j.seq \in Nat /\ j.id \in Nat /\ j.fences \in SUBSET Fence
    BY DEF Job
<1>2. fs \in SUBSET Fence /\ (j.first => fs = {Whole})
    BY <1>1, WholeFence
<1>3. N \in Nat /\ Cardinality(Fence) \in Nat
    BY <1>1, FenceFinite, FS_CardinalityType
<1>4. \A f \in fs : at(f) \in Nat /\ at(f) <= Cardinality(Fence)
    <2> TAKE f \in fs
    <2>1. {g \in fs : g.lo < f.lo} \in SUBSET Fence
        BY <1>2
    <2>2. IsFiniteSet({g \in fs : g.lo < f.lo}) /\ at(f) <= Cardinality(Fence)
        BY <2>1, FenceFinite, FS_Subset
    <2> QED
        BY <2>2, FS_CardinalityType
<1>5. /\ \A p \in ps : /\ Segment(p) /\ p.level = 0 /\ p.seq = j.seq /\ p.id <= N
                       /\ p.id \in Nat
      /\ j.first => \A p, q \in ps : p = q
    <2>1. CASE j.tmp # 0
        <3> DEFINE p == RunPiece(j.fences, j.seq, j.id, j.log)
        <3>1. Segment(p) /\ p.level = 0 /\ p.seq = j.seq /\ p.id = j.id
            BY <1>1, <2>1, RunShape
        <3>2. ps = {p}
            BY <2>1
        <3> HIDE DEF p, ps
        <3>3. j.id <= N
            BY <1>1, <1>3
        <3> HIDE DEF N
        <3> QED
            BY <1>1, <3>1, <3>2, <3>3
    <2>2. CASE ~(j.tmp # 0)
        <3>1. \A p \in ps : \E f \in fs : p = Piece(f, kind, j.seq, j.id + at(f), Chains(j.log))
            BY <2>2 DEF CutAt
        <3>2. ASSUME NEW f \in fs, NEW p, p = Piece(f, kind, j.seq, j.id + at(f), Chains(j.log))
              PROVE  /\ Segment(p) /\ p.level = 0 /\ p.seq = j.seq /\ p.id <= N /\ p.id \in Nat
            <4>1. f \in Fence /\ j.id + at(f) \in Nat /\ j.id + at(f) <= N
                BY <1>1, <1>2, <1>3, <1>4
            <4> DEFINE n == j.id + at(f)
                       ch == Chains(j.log)
            <4>2. n \in Nat /\ n <= N /\ p = Piece(f, kind, j.seq, n, ch)
                BY <3>2, <4>1
            <4> HIDE DEF at, N, fs, kind, ps, n, ch
            <4>3. Segment(p) /\ p.level = 0 /\ p.seq = j.seq /\ p.id = n
                <5>1. /\ p.level = 0 /\ p.lo = f.lo /\ p.hi = f.hi /\ p.seq = j.seq /\ p.id = n
                      /\ p = [level |-> p.level, lo |-> p.lo, hi |-> p.hi, kind |-> p.kind,
                              seq |-> p.seq, id |-> p.id, c |-> p.c]
                    BY <4>2 DEF Piece
                <5>2. Fenced(f)
                    BY <4>1, FenceShape
                <5> QED
                    BY <1>1, <4>2, <5>1, <5>2 DEF Segment, Fenced
            <4> QED
                BY <4>2, <4>3
        <3>3. j.first => \A f, g \in fs : f = g
            BY <1>2
        <3> HIDE DEF ps, fs, at, kind, N
        <3>4. j.first => \A p, q \in ps : p = q
            BY <3>1, <3>3
        <3> QED
            BY <3>1, <3>2, <3>4
    <2> QED
        BY <2>1, <2>2
<1>6. LandedSegs(j) = IF j.first /\ \A p \in ps : ~HasTomb(p)
                      THEN {Promoted(p, Whole) : p \in ps} ELSE ps
    BY DEF LandedSegs
<1> HIDE DEF ps, N
<1>7. CASE ~(j.first /\ \A p \in ps : ~HasTomb(p))
    <2>1. LandedSegs(j) = ps
        BY <1>6, <1>7
    <2> QED
        BY <1>3, <1>5, <2>1
<1>8. CASE j.first /\ \A p \in ps : ~HasTomb(p)
    <2>1. LandedSegs(j) = {Promoted(p, Whole) : p \in ps}
        BY <1>6, <1>8
    <2>2. \A p \in ps : /\ Segment(Promoted(p, Whole)) /\ Promoted(p, Whole).level = 1
                        /\ Promoted(p, Whole).lo = 0 /\ Promoted(p, Whole).hi = Top
                        /\ Promoted(p, Whole).seq = j.seq /\ Promoted(p, Whole).id <= N
        BY <1>5, WholeFence, PromotedShape
    <2> QED
        BY <1>3, <1>5, <1>8, <2>1, <2>2
<1> QED
    BY <1>7, <1>8

\* Bounds on the ids of two sets.
LEMMA IdsJoined ==
    ASSUME NEW A, NEW B, \A s \in A \cup B : s.id \in Nat,
           \E N \in Nat : \A s \in A : s.id <= N, \E N \in Nat : \A s \in B : s.id <= N
    PROVE  \E N \in Nat : \A s \in A \cup B : s.id <= N
<1>1. PICK M \in Nat : \A s \in A : s.id <= M
    OBVIOUS
<1>2. PICK N \in Nat : \A s \in B : s.id <= N
    OBVIOUS
<1>3. M + N \in Nat /\ \A s \in A \cup B : s.id <= M + N
    BY <1>1, <1>2
<1> QED
    BY <1>3

\* A piece that lands takes nothing from a merge in flight.
LEMMA PiecesAdded ==
    ASSUME SegInv, MergeInv, TierInv, UNCHANGED <<merges, tier>>,
           covered \in Nat, covered' \in Nat, covered <= covered',
           NEW L, segs' = segs \cup L,
           \A p \in L : Segment(p) /\ p.level = 0 /\ p.seq <= covered',
           \E N \in Nat : \A p \in L : p.id <= N
    PROVE  SegInv' /\ MergeInv' /\ TierInv'
<1>1. Parts(segs') = Parts(segs) /\ Pieces(segs) \subseteq Pieces(segs')
    BY DEF Parts, Pieces
<1>2. \A s \in segs' : Segment(s) /\ s.seq <= covered'
    BY DEF SegInv, Segment
<1>3. \E N \in Nat : \A s \in segs' : s.id <= N
    <2>1. \A s \in segs \cup L : s.id \in Nat
        BY DEF SegInv, Segment
    <2>2. \E N \in Nat : \A s \in segs : s.id <= N
        BY DEF SegInv
    <2> QED
        BY <2>1, <2>2, IdsJoined
<1>4. SegInv'
    BY <1>1, <1>2, <1>3 DEF SegInv
<1>5. MergeInv'
    <2>1. \A m \in merges : m.inputs \subseteq segs' /\ m.seq <= covered'
        BY DEF MergeInv, MergesHold
    <2> QED
        BY <1>1, <2>1 DEF MergeInv, MergesHold
<1>6. TierInv'
    BY <1>1 DEF TierInv
<1> QED
    BY <1>4, <1>5, <1>6

LEMMA ShapeLandSeal == ShapeInv /\ LandSeal => ShapeInv'
<1> SUFFICES ASSUME ShapeInv, LandSeal PROVE ShapeInv'
    OBVIOUS
<1> DEFINE j == Head(frozen)
           gone == j.seq - covered
           L == LandedSegs(j)
<1>1. WriterInv /\ LogInv /\ JobInv /\ SegInv /\ MergeInv /\ TierInv
    BY DEF ShapeInv
<1>2. /\ phase = "up" /\ frozen # <<>> /\ segs' = segs \cup L /\ frozen' = Tail(frozen)
      /\ covered' = j.seq /\ wal' = SubSeq(wal, gone + 1, Len(wal))
      /\ walDur' = Max({0, walDur - gone})
      /\ UNCHANGED <<phase, hist, com, prom, mem, maxKey, run, unsynced, tmps, merges, tier,
                     nextSeg, fails>>
    BY DEF LandSeal, Working
<1>3. /\ frozen \in Seq(Job) /\ Len(frozen) \in Nat /\ Len(frozen) >= 1
      /\ DOMAIN frozen = 1..Len(frozen) /\ j = frozen[1] /\ 1 \in DOMAIN frozen /\ j \in Job
    BY <1>1, <1>2 DEF JobInv
<1> HIDE DEF j
<1>4. /\ covered <= j.seq /\ j.seq <= Seq0
      /\ j.tmp # 0 => \A g \in j.fences : g.hi = Top
      /\ j.first => j.fences = {} /\ segs = {}
    BY <1>1, <1>3 DEF JobInv
<1>5. /\ covered \in Nat /\ j.seq \in Nat /\ Len(wal) \in Nat /\ wal \in Seq(Write)
      /\ walDur \in 0..Len(wal) /\ gone \in 0..Len(wal)
    <2>1. covered \in Nat /\ wal \in Seq(Write) /\ walDur \in 0..Len(wal)
        BY <1>1 DEF LogInv
    <2>2. j.seq \in Nat
        BY <1>3 DEF Job
    <2> QED
        BY <1>4, <2>1, <2>2 DEF Seq0
<1> HIDE DEF gone
<1>6. wal' \in Seq(Write) /\ Len(wal') = Len(wal) - gone
      /\ \A i \in 1..Len(wal') : wal'[i] = wal[i + gone] /\ i + gone \in 1..Len(wal)
    BY <1>2, <1>5
<1>7. walDur' \in 0..Len(wal')
    <2>1. walDur - gone \in Int /\ walDur - gone <= Len(wal')
        BY <1>5, <1>6
    <2>2. Max({0, walDur - gone}) = IF 0 >= walDur - gone THEN 0 ELSE walDur - gone
        BY <2>1 DEF Max
    <2> QED
        BY <1>2, <1>5, <1>6, <2>1, <2>2
<1>8. Seq0' = Seq0
    <2>1. /\ Seq0 = covered + Len(wal) /\ Seq0' = j.seq + Len(wal') /\ gone = j.seq - covered
        BY <1>2 DEF Seq0, gone
    <2>2. Len(wal') = Len(wal) - gone
        BY <1>6
    <2>3. covered \in Nat /\ j.seq \in Nat /\ Len(wal) \in Nat
        BY <1>5
    <2> DEFINE old == Len(wal)
               new == Len(wal')
               to == j.seq
    <2> HIDE DEF old, new, to
    <2>4. /\ old \in Nat /\ to \in Nat /\ covered \in Nat /\ new = old - gone
          /\ gone = to - covered
        BY <2>1, <2>2, <2>3 DEF old, new, to
    <2>5. to + new = covered + old
        BY ONLY <2>4
    <2> QED
        BY <2>1, <2>5 DEF old, new, to
<1>9. WriterInv'
    BY <1>1, <1>2 DEF WriterInv
<1>10. LogInv'
    <2>1. Range(wal') \subseteq Range(wal)
        <3>1. DOMAIN wal = 1..Len(wal) /\ DOMAIN wal' = 1..Len(wal')
            BY <1>5, <1>6
        <3> QED
            BY <1>6, <3>1 DEF Range
    <2> QED
        BY <1>1, <1>2, <1>5, <1>6, <1>7, <2>1 DEF LogInv
<1>11. JobInv'
    <2>1. /\ frozen' \in Seq(Job) /\ Len(frozen') = Len(frozen) - 1
          /\ DOMAIN frozen' = 1..(Len(frozen) - 1)
          /\ \A i \in 1..(Len(frozen) - 1) : frozen'[i] = frozen[i + 1] /\ i + 1 \in 1..Len(frozen)
        BY <1>2, <1>3
    <2>2. Len(frozen') <= FrozenCap
        BY <1>1, <1>3, <2>1, IngestAssumption DEF JobInv
    <2>3. ASSUME NEW i \in DOMAIN frozen'
          PROVE  /\ covered' <= frozen'[i].seq /\ frozen'[i].seq <= Seq0'
                 /\ frozen'[i].tmp # 0 => \A g \in frozen'[i].fences : g.hi = Top
                 /\ ~frozen'[i].first
        <3>1. i \in 1..(Len(frozen) - 1) /\ frozen'[i] = frozen[i + 1] /\ i + 1 \in DOMAIN frozen
            BY <1>3, <2>1
        <3>2. 1 < i + 1 /\ i + 1 # 1
            BY <3>1
        <3>3. frozen[1].seq <= frozen[i + 1].seq
            BY <1>1, <1>3, <3>1, <3>2 DEF JobInv
        <3>4. frozen[i + 1].first => i + 1 = 1
            BY <1>1, <3>1 DEF JobInv
        <3> QED
            BY <1>1, <1>2, <1>3, <1>8, <3>1, <3>2, <3>3, <3>4 DEF JobInv
    <2>4. \A i, k \in DOMAIN frozen' : i < k => frozen'[i].seq <= frozen'[k].seq
        <3> SUFFICES ASSUME NEW i \in 1..(Len(frozen) - 1), NEW k \in 1..(Len(frozen) - 1), i < k
                     PROVE  frozen[i + 1].seq <= frozen[k + 1].seq
            BY <2>1
        <3>1. i + 1 < k + 1 /\ i + 1 \in DOMAIN frozen /\ k + 1 \in DOMAIN frozen
            BY <1>3
        <3> QED
            BY <1>1, <3>1 DEF JobInv
    <2> QED
        BY <1>2, <2>1, <2>2, <2>3, <2>4 DEF JobInv
<1>12. /\ \E N \in Nat : \A p \in L : Segment(p) /\ p.seq = j.seq /\ p.id <= N
       /\ \/ \A p \in L : p.level = 0
          \/ /\ j.first
             /\ \A p \in L : p.level = 1 /\ p.lo = 0 /\ p.hi = Top
             /\ \A p, q \in L : p = q
    BY <1>3, <1>4, LandedShape
<1> HIDE DEF L
<1>13. SegInv' /\ MergeInv' /\ TierInv'
    <2>1. CASE \A p \in L : p.level = 0
        <3>1. covered' \in Nat /\ covered <= covered' /\ UNCHANGED <<merges, tier>>
            BY <1>2, <1>4, <1>5
        <3>2. \A p \in L : Segment(p) /\ p.level = 0 /\ p.seq <= covered'
            BY <1>2, <1>5, <1>12, <2>1
        <3>3. \E N \in Nat : \A p \in L : p.id <= N
            BY <1>12
        <3> QED
            BY <1>1, <1>2, <1>5, <3>1, <3>2, <3>3, PiecesAdded
    <2>2. CASE /\ j.first
               /\ \A p \in L : p.level = 1 /\ p.lo = 0 /\ p.hi = Top
               /\ \A p, q \in L : p = q
        <3>1. segs = {} /\ segs' = L
            BY <1>2, <1>4, <2>2
        <3>2. merges = {} /\ tier = {}
            <4>1. \A m \in merges : m.inputs \subseteq {} /\ m.inputs # {}
                BY <1>1, <3>1 DEF MergeInv, MergesHold
            <4>2. \A t \in tier : t.inputs \subseteq {} /\ t.inputs # {}
                BY <1>1, <3>1 DEF TierInv, Pieces
            <4> QED
                BY <4>1, <4>2
        <3>3. Parts(segs') = L
            BY <2>2, <3>1 DEF Parts
        <3>4. Tiled(L)
            <4>1. \A p \in L : Fenced(p)
                BY <2>2, Numbers DEF Fenced
            <4>2. \A p \in L : \A x \in 0..MaxKey : Inside(p, x)
                BY <2>2, Numbers DEF Inside
            <4> QED
                BY <2>2, <4>1, <4>2 DEF Tiled
        <3>5. \A s \in segs' : Segment(s) /\ s.seq <= covered'
            BY <1>2, <1>5, <1>12, <3>1
        <3>6. \E N \in Nat : \A s \in segs' : s.id <= N
            BY <1>12, <3>1
        <3>7. SegInv'
            BY <3>3, <3>4, <3>5, <3>6 DEF SegInv
        <3>8. MergeInv'
            BY <1>1, <1>2, <3>2 DEF MergeInv, MergesHold
        <3>9. TierInv'
            BY <1>1, <1>2, <3>2 DEF TierInv
        <3> QED
            BY <3>7, <3>8, <3>9
    <2> QED
        BY <1>12, <2>1, <2>2
<1> QED
    BY <1>9, <1>10, <1>11, <1>13 DEF ShapeInv

LEMMA ShapeUnlink == ShapeInv /\ Unlink => ShapeInv'
<1> SUFFICES ASSUME ShapeInv, Unlink PROVE ShapeInv'
    OBVIOUS
<1>1. /\ tmps' = tmps \ LandedTmps
      /\ UNCHANGED <<phase, hist, com, prom, mem, maxKey, run, frozen, wal, walDur, unsynced,
                     covered, segs, merges, tier, nextSeg, fails>>
    BY DEF Unlink, tables, log, shape
<1>2. WriterInv /\ LogInv /\ JobInv /\ SegInv /\ MergeInv /\ TierInv
    BY DEF ShapeInv
<1>3. WriterInv' /\ LogInv'
    BY <1>1, <1>2 DEF WriterInv, LogInv
<1>4. JobInv'
    <2>1. Len(wal') \in Nat /\ Len(wal') >= Len(wal)
        BY <1>1, <1>2 DEF LogInv
    <2> QED
        BY <1>1, <1>2, <2>1, JobsKept
<1>5. SegInv' /\ MergeInv' /\ TierInv'
    BY <1>1, <1>2, WorkKept
<1> QED
    BY <1>3, <1>4, <1>5 DEF ShapeInv

-----------------------------------------------------------------------------
(* What a plan starts and promotes.                                           *)

LEMMA OverlapApart ==
    ASSUME NEW a, NEW b, Fenced(a), Fenced(b) PROVE Overlap(a, b) <=> ~Apart(a, b)
BY Numbers DEF Overlap, Apart, Fenced

\* A partition's range stands for it.
LEMMA OnePart ==
    ASSUME NEW S, Tiled(Parts(S)), NEW p \in Parts(S), NEW q \in Parts(S), FenceOf(p) = FenceOf(q)
    PROVE  p = q
<1>1. p.lo = q.lo
    BY DEF FenceOf
<1> QED
    BY <1>1, LowsDiffer

LEMMA PartFence ==
    ASSUME NEW S, Tiled(Parts(S)), NEW p \in Parts(S)
    PROVE  /\ FenceOf(p) \in Fence /\ FenceOf(p).lo = p.lo /\ FenceOf(p).hi = p.hi
           /\ FenceOf(p) \in Fences(Parts(S))
BY DEF Tiled, Fenced, FenceOf, Fence, Fences

\* The merges in flight hold the same, whatever else the store becomes, while what
\* they took stays in it.
LEMMA MergesKept ==
    ASSUME NEW M, NEW S, NEW T, NEW c \in Nat, NEW d \in Nat, c <= d, MergesHold(M, S, c),
           Tiled(Parts(T)), \A m \in M : m.fences # {}, \A m \in M : m.inputs \subseteq T
    PROVE  MergesHold(M, T, d)
<1>1. ASSUME NEW m \in M
      PROVE  /\ m.inputs \subseteq T /\ m.inputs # {} /\ m.fences \subseteq Fence
             /\ m.seq \in Nat /\ m.seq <= d
             /\ m.fences \subseteq Fences(Parts(T))
             /\ \A p \in Parts(T) : p \in m.inputs <=> FenceOf(p) \in m.fences
    <2>1. /\ m.inputs \subseteq S /\ m.inputs # {} /\ m.fences \subseteq Fence
          /\ m.seq \in Nat /\ m.seq <= c
          /\ m.fences \subseteq Fences(Parts(S))
          /\ \A p \in Parts(S) : p \in m.inputs <=> FenceOf(p) \in m.fences
        BY DEF MergesHold
    <2>2. ASSUME NEW f \in m.fences PROVE \E p \in Parts(T) : FenceOf(p) = f /\ p \in m.inputs
        <3>1. PICK p \in Parts(S) : f = FenceOf(p)
            BY <2>1 DEF Fences
        <3>2. p \in m.inputs /\ p.level = 1
            BY <2>1, <3>1 DEF Parts
        <3> QED
            BY <3>1, <3>2 DEF Parts
    <2>3. m.fences \subseteq Fences(Parts(T))
        BY <2>2 DEF Fences
    <2>4. ASSUME NEW p \in Parts(T) PROVE p \in m.inputs <=> FenceOf(p) \in m.fences
        <3>1. ASSUME p \in m.inputs PROVE FenceOf(p) \in m.fences
            <4>1. p \in Parts(S)
                BY <2>1, <3>1 DEF Parts
            <4> QED
                BY <2>1, <3>1, <4>1
        <3>2. ASSUME FenceOf(p) \in m.fences PROVE p \in m.inputs
            <4>1. PICK q \in Parts(T) : FenceOf(q) = FenceOf(p) /\ q \in m.inputs
                BY <2>2, <3>2
            <4>2. p = q
                BY <4>1, OnePart
            <4> QED
                BY <4>1, <4>2
        <3> QED
            BY <3>1, <3>2
    <2> QED
        BY <2>1, <2>3, <2>4
<1> QED
    BY <1>1 DEF MergesHold

\* start_compact takes partitions of the store, those it was given among them.
LEMMA Resolved ==
    ASSUME NEW S, Tiled(Parts(S)), NEW given \in SUBSET Fences(Parts(S))
    PROVE  LET fs == ResolveFences(Fences(Parts(S)), Fences(Pieces(S)), given) IN
           /\ fs \subseteq Fences(Parts(S)) /\ given \subseteq fs
<1> DEFINE parts == Fences(Parts(S))
           start == {p \in parts : \E g \in given : Overlap(g, p)}
           fs == ResolveFences(parts, Fences(Pieces(S)), given)
<1>1. fs \subseteq parts /\ start \subseteq fs
    BY DEF ResolveFences
<1>2. \A g \in given : Overlap(g, g)
    <2> TAKE g \in given
    <2>1. PICK p \in Parts(S) : g = FenceOf(p)
        BY DEF Fences
    <2>2. g \in Fence
        BY <2>1, PartFence
    <2> QED
        BY <2>2, FenceShape DEF Overlap, Fenced
<1> HIDE DEF fs
<1> QED
    BY <1>1, <1>2 DEF fs

LEMMA StartedHolds ==
    ASSUME NEW S, MergesHold(merges, S, covered), covered \in Nat, Tiled(Parts(S)),
           S # {}, NEW given \in SUBSET Fences(Parts(S)), given = {} => Parts(S) = {},
           StartCompact(S, given)
    PROVE  MergesHold(merges', S, covered)
<1> DEFINE fs == ResolveFences(Fences(Parts(S)), Fences(Pieces(S)), given)
           inputs == IF given = {} THEN S ELSE Covered(S, fs)
           m == [inputs |-> inputs, fences |-> fs, seq |-> covered]
<1>1. fs \subseteq Fences(Parts(S)) /\ given \subseteq fs
    BY Resolved
<1>2. CASE merges' = merges
    BY <1>2
<1>3. ASSUME merges' = merges \cup {m},
             ~(merges # {} /\ (given = {} \/ Cardinality(merges) >= MergeParallel)),
             \A o \in merges : ~MergesMeet(o, inputs, fs)
      PROVE  MergesHold(merges', S, covered)
    <2> HIDE DEF fs
    <2>1. m.inputs = inputs /\ m.fences = fs /\ m.seq = covered
        OBVIOUS
    <2>2. given = {} => fs = {}
        BY <1>1 DEF Fences
    <2>3. fs = {} => given = {}
        BY <1>1
    <2>4. ASSUME NEW p \in Parts(S) PROVE p \in inputs <=> FenceOf(p) \in fs
        <3>1. given # {} /\ inputs = Covered(S, fs)
            BY <2>4
        <3>2. ASSUME p \in inputs PROVE FenceOf(p) \in fs
            <4>1. PICK f \in fs : Overlap(p, f)
                BY <3>1, <3>2 DEF Covered
            <4>2. PICK q \in Parts(S) : f = FenceOf(q)
                BY <1>1, <4>1 DEF Fences
            <4>3. Overlap(p, q)
                BY <4>1, <4>2, PartFence DEF Overlap
            <4>4. p = q
                <5>1. Fenced(p) /\ Fenced(q) /\ (p # q => Apart(p, q))
                    BY DEF Tiled
                <5> QED
                    BY <4>3, <5>1, OverlapApart
            <4> QED
                BY <4>1, <4>2, <4>4
        <3>3. ASSUME FenceOf(p) \in fs PROVE p \in inputs
            <4>1. Overlap(p, FenceOf(p))
                BY PartFence, Numbers DEF Overlap, Tiled, Fenced
            <4>2. p \in S
                BY DEF Parts
            <4> QED
                BY <3>1, <3>3, <4>1, <4>2 DEF Covered
        <3> QED
            BY <3>2, <3>3
    <2>5. inputs \subseteq S /\ inputs # {}
        <3>1. CASE given = {}
            BY <3>1
        <3>2. CASE given # {}
            <4>1. PICK g \in given : TRUE
                BY <3>2
            <4>2. PICK p \in Parts(S) : g = FenceOf(p)
                BY DEF Fences
            <4>3. p \in inputs
                BY <1>1, <2>4, <4>1, <4>2
            <4> QED
                BY <3>2, <4>3 DEF Covered
        <3> QED
            BY <3>1, <3>2
    <2>6. fs \subseteq Fence
        <3>1. \A p \in Parts(S) : FenceOf(p) \in Fence
            BY PartFence
        <3> QED
            BY <1>1, <3>1 DEF Fences
    <2> HIDE DEF inputs, m
    <2>7. \A o \in merges : o.fences # {} /\ o.inputs \cap inputs = {} /\ fs # {}
        BY <1>3 DEF MergesMeet
    <2>8. IsFiniteSet(merges') /\ Cardinality(merges') <= MergeParallel
        <3>1. IsFiniteSet(merges) /\ Cardinality(merges) \in Nat /\ MergeParallel \in Nat \ {0}
            BY IngestAssumption, FS_CardinalityType DEF MergesHold
        <3>2. IsFiniteSet(merges') /\ (Cardinality(merges') = Cardinality(merges) + 1 \/ merges' = merges)
            <4>1. m \in merges => merges' = merges
                BY <1>3
            <4>2. m \notin merges => Cardinality(merges') = Cardinality(merges) + 1
                BY <1>3, <3>1, FS_AddElement
            <4> QED
                BY <1>3, <3>1, <4>1, <4>2, FS_AddElement
        <3>3. merges = {} => Cardinality(merges) = 0
            BY FS_EmptySet
        <3>4. Cardinality(merges) <= MergeParallel
            BY DEF MergesHold
        <3> QED
            BY <1>3, <3>1, <3>2, <3>3, <3>4
    <2>9. ASSUME NEW o \in merges'
          PROVE  /\ o.inputs \subseteq S /\ o.inputs # {} /\ o.fences \subseteq Fence
                 /\ o.seq \in Nat /\ o.seq <= covered
                 /\ o.fences \subseteq Fences(Parts(S))
                 /\ \A p \in Parts(S) : p \in o.inputs <=> FenceOf(p) \in o.fences
                 /\ o.fences = {} => Parts(S) = {} /\ merges' = {o}
        <3>1. CASE o \in merges
            BY <2>7, <3>1 DEF MergesHold
        <3>2. CASE o = m
            <4>1. fs = {} => Parts(S) = {} /\ merges = {}
                BY <2>3, <2>7
            <4> QED
                BY <1>1, <1>3, <2>1, <2>4, <2>5, <2>6, <3>2, <4>1
        <3> QED
            BY <1>3, <3>1, <3>2
    <2>10. \A a, o \in merges' : a # o => a.inputs \cap o.inputs = {}
        <3>1. \A a, o \in merges : a # o => a.inputs \cap o.inputs = {}
            BY DEF MergesHold
        <3> QED
            BY <1>3, <2>1, <2>7, <3>1
    <2> QED
        BY <2>8, <2>9, <2>10 DEF MergesHold
<1> QED
    BY <1>2, <1>3 DEF StartCompact

\* Work that leaves the log and the queue alone, in a store that has a segment: no
\* table sealed before it can be its first partition.
LEMMA QueueKept ==
    ASSUME JobInv, segs # {}, UNCHANGED <<phase, frozen, covered, wal>>
    PROVE  JobInv'
<1>1. \A i \in DOMAIN frozen : ~frozen[i].first
    <2>1. \A i \in DOMAIN frozen : frozen[i].first => segs = {}
        BY DEF JobInv
    <2> QED
        BY <2>1
<1>2. Seq0' = Seq0
    BY DEF Seq0
<1> QED
    BY <1>1, <1>2 DEF JobInv

\* promote_unpartitioned's partitions tile the key space.
LEMMA PromotedAll ==
    ASSUME NEW S, \A s \in S : Segment(s), Chain(Whole, 0, S)
    PROVE  /\ \A p \in PromoteAll(S) :
                 /\ Segment(p) /\ p.level = 1
                 /\ \E s \in S : p.seq = s.seq /\ p.id = s.id
           /\ Tiled(PromoteAll(S))
<1>15. PICK F : F = FirstKeys(S)
    OBVIOUS
<1>16. StairsOver(Whole, S, F)
    <2>1. \E floor : Chain(Whole, floor, S)
        OBVIOUS
    <2> QED
        BY <1>15, <2>1, WholeFence, Stairs
<1> DEFINE low == Min(F)
           lowest(s) == IF FirstKey(s) = low THEN 0 ELSE FirstKey(s)
           g(s) == [lo |-> lowest(s), hi |-> Above(Whole, S, s)]
           slice(s) == [lo |-> FirstKey(s), hi |-> Above(Whole, S, s)]
<1>1. /\ F \in SUBSET Key
      /\ \A s \in S : FirstKey(s) \in Key /\ Whole.lo < FirstKey(s) /\ FirstKey(s) < Whole.hi
      /\ \A s, t \in S : FirstKey(s) = FirstKey(t) => s = t
      /\ low \in F /\ \A k \in F : low <= k
      /\ \A s \in S : slice(s) \in Slices(Whole, F)
      /\ \A h \in Slices(Whole, F) :
            h = [lo |-> Whole.lo, hi |-> low] \/ \E s \in S : h = slice(s)
    BY <1>16, Zenon DEF StairsOver
<1>2. PromoteAll(S) = {Promoted(s, g(s)) : s \in S}
    BY <1>15 DEF PromoteAll, FirstKeys
<1>3. \A h \in Slices(Whole, F) : h \in Fence /\ Whole.lo <= h.lo /\ h.hi <= Whole.hi
    BY <1>1, WholeFence, SlicesTile
<1>4. \A h, i \in Slices(Whole, F) : h # i => Apart(h, i)
    BY <1>1, WholeFence, SlicesTile
<1>5. \A x \in 0..MaxKey : Inside(Whole, x) => \E h \in Slices(Whole, F) : Inside(h, x)
    BY <1>1, WholeFence, SlicesTile
<1>6. \A s \in S : /\ FirstKey(s) \in Nat /\ FirstKey(s) \in F /\ FirstKey(s) <= MaxKey
                   /\ FirstKey(s) >= 1
    BY <1>1, <1>15, Numbers DEF Key, FirstKeys
<1>7. low \in Nat /\ low >= 1
    <2>1. low \in Key
        BY <1>1
    <2> HIDE DEF low
    <2> QED
        BY <2>1, Numbers DEF Key
<1> HIDE DEF low
<1>8. \A s \in S : /\ Above(Whole, S, s) \in 1..Top /\ FirstKey(s) < Above(Whole, S, s)
                   /\ slice(s).lo = FirstKey(s) /\ slice(s).hi = Above(Whole, S, s)
    <2> TAKE s \in S
    <2>1. slice(s) \in Fence
        BY <1>1, <1>3
    <2> QED
        BY <2>1 DEF Fence
<1>9. \A s \in S : /\ g(s) \in Fence /\ g(s).lo = lowest(s) /\ g(s).hi = Above(Whole, S, s)
                   /\ lowest(s) \in Nat /\ lowest(s) <= FirstKey(s)
    <2> TAKE s \in S
    <2>1. lowest(s) \in 0..MaxKey /\ lowest(s) <= FirstKey(s)
        BY <1>6, Numbers
    <2>2. lowest(s) < Above(Whole, S, s)
        BY <1>6, <1>8, <2>1, Numbers
    <2> HIDE DEF lowest
    <2> QED
        BY <1>8, <2>1, <2>2 DEF Fence
<1>10. \A s \in S : LET p == Promoted(s, g(s)) IN
                    /\ Segment(p) /\ p.level = 1 /\ p.lo = lowest(s) /\ p.hi = Above(Whole, S, s)
                    /\ p.seq = s.seq /\ p.id = s.id
    BY <1>9, PromotedShape
<1>11. ASSUME NEW s \in S, NEW t \in S, s # t
       PROVE  Above(Whole, S, s) <= lowest(t) \/ Above(Whole, S, t) <= lowest(s)
    <2>1. FirstKey(s) # FirstKey(t)
        BY <1>1, <1>11
    <2>2. slice(s) # slice(t)
        BY <1>8, <2>1
    <2>3. Apart(slice(s), slice(t))
        BY <1>1, <1>4, <2>2
    <2>4. Above(Whole, S, s) <= FirstKey(t) \/ Above(Whole, S, t) <= FirstKey(s)
        BY <1>8, <2>3 DEF Apart
    <2>5. low <= FirstKey(s) /\ low <= FirstKey(t)
        BY <1>1, <1>6
    <2> QED
        BY <1>6, <1>7, <1>8, <2>1, <2>4, <2>5
<1>12. ASSUME NEW x \in 0..MaxKey
       PROVE  \E s \in S : lowest(s) <= x /\ x < Above(Whole, S, s)
    <2>1. PICK h \in Slices(Whole, F) : Inside(h, x)
        BY <1>5, WholeFence, Numbers DEF Inside
    <2>2. CASE h = [lo |-> Whole.lo, hi |-> low]
        <3>1. x < low
            BY <2>1, <2>2 DEF Inside
        <3>2. PICK s \in S : FirstKey(s) = low
            BY <1>1, <1>15 DEF FirstKeys
        <3> QED
            BY <1>6, <1>7, <1>8, <3>1, <3>2
    <2>3. ASSUME NEW s \in S, h = slice(s) PROVE lowest(s) <= x /\ x < Above(Whole, S, s)
        <3>1. FirstKey(s) <= x /\ x < Above(Whole, S, s)
            BY <1>8, <2>1, <2>3 DEF Inside
        <3> QED
            BY <1>6, <1>9, <3>1
    <2> QED
        BY <1>1, <2>2, <2>3
<1> HIDE DEF g, slice, lowest
<1>13. \A p \in PromoteAll(S) : Segment(p) /\ p.level = 1 /\ \E s \in S : p.seq = s.seq /\ p.id = s.id
    BY <1>2, <1>10
<1>14. Tiled(PromoteAll(S))
    <2>1. \A p \in PromoteAll(S) : Fenced(p)
        BY <1>13 DEF Segment
    <2>2. ASSUME NEW p \in PromoteAll(S), NEW q \in PromoteAll(S), p # q PROVE Apart(p, q)
        <3>1. PICK s \in S : p = Promoted(s, g(s))
            BY <1>2
        <3>2. PICK t \in S : q = Promoted(t, g(t))
            BY <1>2
        <3>3. s # t
            BY <2>2, <3>1, <3>2
        <3> QED
            BY <1>10, <1>11, <3>1, <3>2, <3>3 DEF Apart
    <2>3. ASSUME NEW x \in 0..MaxKey PROVE \E p \in PromoteAll(S) : Inside(p, x)
        <3>1. PICK s \in S : lowest(s) <= x /\ x < Above(Whole, S, s)
            BY <1>12
        <3>2. Promoted(s, g(s)) \in PromoteAll(S) /\ Inside(Promoted(s, g(s)), x)
            BY <1>2, <1>10, <3>1 DEF Inside
        <3> QED
            BY <3>2
    <2> QED
        BY <2>1, <2>2, <2>3 DEF Tiled
<1> QED
    BY <1>13, <1>14

\* The partition over a range, and what it and the pieces over it become.
LEMMA HolderOf ==
    ASSUME NEW S, NEW f \in Fences(Parts(S))
    PROVE  Holder(S, f) \in Parts(S) /\ FenceOf(Holder(S, f)) = f
<1>1. \E p \in Parts(S) : FenceOf(p) = f
    BY DEF Fences
<1> QED
    BY <1>1, Zenon DEF Holder

LEMMA BecameShape ==
    ASSUME NEW S, \A s \in S : Segment(s), Tiled(Parts(S)), NEW f \in Fences(Parts(S)), NEW busy,
           Promotable(S, f, busy)
    PROVE  /\ \A q \in Became(S, f) :
                 /\ Segment(q) /\ q.level = 1 /\ f.lo <= q.lo /\ q.hi <= f.hi
                 /\ \E s \in S : q.seq = s.seq /\ q.id = s.id
           /\ \A q, r \in Became(S, f) : q # r => Apart(q, r)
           /\ \A x \in 0..MaxKey : Inside(f, x) => \E q \in Became(S, f) : Inside(q, x)
<1> DEFINE ps == Candidates(S, f)
           h == Holder(S, f)
<1>15. PICK F : F = FirstKeys(ps)
    OBVIOUS
<1> DEFINE low == Min(F)
           bot == [lo |-> f.lo, hi |-> low]
           slice(s) == [lo |-> FirstKey(s), hi |-> Above(f, ps, s)]
<1>1. h \in Parts(S) /\ FenceOf(h) = f /\ f \in Fence
    BY HolderOf, PartFence
<1>2. \E floor : Chain(f, floor, ps)
    BY DEF Promotable
<1>3. /\ F \in SUBSET Key
      /\ \A s \in ps : FirstKey(s) \in Key /\ f.lo < FirstKey(s) /\ FirstKey(s) < f.hi
      /\ \A s, t \in ps : FirstKey(s) = FirstKey(t) => s = t
      /\ bot \in Slices(f, F)
      /\ \A s \in ps : slice(s) \in Slices(f, F)
      /\ \A g \in Slices(f, F) : g = bot \/ \E s \in ps : g = slice(s)
    <2>1. StairsOver(f, ps, F)
        BY <1>1, <1>2, <1>15, Stairs
    <2> QED
        BY <2>1, Zenon DEF StairsOver
<1>4. Became(S, f) = {Promoted(s, slice(s)) : s \in ps} \cup {Promoted(h, bot)}
    BY <1>15 DEF Became, Renamed, FirstKeys
<1>5. ps \subseteq S /\ h \in S
    BY <1>1 DEF Candidates, Pieces, Parts
<1>6. /\ \A g \in Slices(f, F) : g \in Fence /\ f.lo <= g.lo /\ g.hi <= f.hi
      /\ \A g, i \in Slices(f, F) : g # i => Apart(g, i)
      /\ \A x \in 0..MaxKey : Inside(f, x) => \E g \in Slices(f, F) : Inside(g, x)
    BY <1>1, <1>3, SlicesTile
<1>7. /\ bot.lo = f.lo /\ \A s \in ps : slice(s).lo = FirstKey(s)
      /\ f.lo \in Nat /\ \A s \in ps : FirstKey(s) \in Nat
    BY <1>1, <1>3, FenceShape, Numbers DEF Key
<1>8. \A s \in ps : s \in S /\ slice(s) \in Fence
    BY <1>3, <1>5, <1>6
<1> HIDE DEF ps, h, low, bot, slice
<1>9. \A s \in ps : LET q == Promoted(s, slice(s)) IN
                    /\ Segment(q) /\ q.level = 1 /\ FenceOf(q) = slice(s)
                    /\ q.seq = s.seq /\ q.id = s.id /\ q.lo = slice(s).lo /\ q.hi = slice(s).hi
    BY <1>8, PromotedShape
<1>10. LET q == Promoted(h, bot) IN
       /\ Segment(q) /\ q.level = 1 /\ FenceOf(q) = bot /\ q.seq = h.seq /\ q.id = h.id
       /\ q.lo = bot.lo /\ q.hi = bot.hi
    BY <1>3, <1>5, <1>6, PromotedShape
<1>11. \A q \in Became(S, f) :
          /\ Segment(q) /\ q.level = 1 /\ \E s \in S : q.seq = s.seq /\ q.id = s.id
          /\ \E g \in Slices(f, F) : q.lo = g.lo /\ q.hi = g.hi
    <2> TAKE q \in Became(S, f)
    <2>1. CASE q = Promoted(h, bot)
        BY <1>3, <1>5, <1>10, <2>1
    <2>2. CASE \E s \in ps : q = Promoted(s, slice(s))
        BY <1>3, <1>5, <1>9, <2>2
    <2> QED
        BY <1>4, <2>1, <2>2
<1>12. \A q, r \in Became(S, f) : q # r => q.lo # r.lo
    <2> SUFFICES ASSUME NEW q \in Became(S, f), NEW r \in Became(S, f), q # r PROVE q.lo # r.lo
        OBVIOUS
    <2>1. CASE q = Promoted(h, bot)
        <3>1. PICK s \in ps : r = Promoted(s, slice(s))
            BY <1>4, <2>1
        <3> QED
            BY <1>3, <1>7, <1>9, <1>10, <2>1, <3>1
    <2>2. ASSUME NEW s \in ps, q = Promoted(s, slice(s)) PROVE q.lo # r.lo
        <3>1. CASE r = Promoted(h, bot)
            BY <1>3, <1>7, <1>9, <1>10, <2>2, <3>1
        <3>2. ASSUME NEW t \in ps, r = Promoted(t, slice(t)) PROVE q.lo # r.lo
            <4>1. s # t
                BY <2>2, <3>2
            <4> QED
                BY <1>3, <1>7, <1>9, <2>2, <3>2, <4>1
        <3> QED
            BY <1>4, <3>1, <3>2
    <2> QED
        BY <1>4, <2>1, <2>2
<1>13. \A q, r \in Became(S, f) : q # r => Apart(q, r)
    <2> SUFFICES ASSUME NEW q \in Became(S, f), NEW r \in Became(S, f), q # r PROVE Apart(q, r)
        OBVIOUS
    <2>1. PICK g \in Slices(f, F) : q.lo = g.lo /\ q.hi = g.hi
        BY <1>11
    <2>2. PICK i \in Slices(f, F) : r.lo = i.lo /\ r.hi = i.hi
        BY <1>11
    <2>3. g # i
        BY <1>12, <2>1, <2>2
    <2> QED
        BY <1>6, <2>1, <2>2, <2>3 DEF Apart
<1>14. ASSUME NEW x \in 0..MaxKey, Inside(f, x) PROVE \E q \in Became(S, f) : Inside(q, x)
    <2>1. PICK g \in Slices(f, F) : Inside(g, x)
        BY <1>6, <1>14
    <2>2. \E q \in Became(S, f) : q.lo = g.lo /\ q.hi = g.hi
        BY <1>3, <1>4, <1>9, <1>10
    <2> QED
        BY <2>1, <2>2 DEF Inside
<1> QED
    BY <1>6, <1>11, <1>13, <1>14

\* Ranges in key order are the ranges.
LEMMA KeyOrderOf ==
    ASSUME NEW P, Tiled(Parts(P)), NEW R \in SUBSET Fences(Parts(P))
    PROVE  /\ DOMAIN KeyOrder(R) = 1..Cardinality(R) /\ Cardinality(R) \in Nat
           /\ \A i \in DOMAIN KeyOrder(R) : KeyOrder(R)[i] \in R
<1> DEFINE below == [f \in R |-> {g \in R : g.lo < f.lo}]
           n == Cardinality(R)
           O == KeyOrder(R)
<1>1. \A f, g \in R : f.lo = g.lo => f = g
    <2> SUFFICES ASSUME NEW f \in R, NEW g \in R, f.lo = g.lo PROVE f = g
        OBVIOUS
    <2>1. PICK p \in Parts(P) : f = FenceOf(p)
        BY DEF Fences
    <2>2. PICK q \in Parts(P) : g = FenceOf(q)
        BY DEF Fences
    <2>3. p.lo = q.lo
        BY <2>1, <2>2, PartFence
    <2>4. p = q
        BY <2>3, LowsDiffer
    <2> QED
        BY <2>1, <2>2, <2>4
<1>2. R \in SUBSET Fence /\ \A f \in R : f.lo \in Nat
    <2>1. \A f \in R : f \in Fence
        <3> TAKE f \in R
        <3>1. PICK p \in Parts(P) : f = FenceOf(p)
            BY DEF Fences
        <3> QED
            BY <3>1, PartFence
    <2> QED
        BY <2>1, FenceShape
<1>3. IsFiniteSet(R) /\ n \in Nat
    BY <1>2, FenceFinite, FS_Subset, FS_CardinalityType
<1>4. \A x \in R : below[x] = {g \in R : g.lo < x.lo}
    OBVIOUS
<1>5. \A i \in 1..n : \E x \in R : Cardinality(below[x]) = i - 1
    <2>1. below \in [R -> SUBSET R]
        OBVIOUS
    <2>2. \A x \in R : x \notin below[x]
        BY <1>2
    <2>3. \A x, y \in R : x # y => x \in below[y] \/ y \in below[x]
        <3> TAKE x, y \in R
        <3> HAVE x # y
        <3>1. x.lo # y.lo
            BY <1>1
        <3> QED
            BY <1>2, <3>1
    <2>4. \A x, y \in R : x \in below[y] => below[x] \subseteq below[y]
        BY <1>2
    <2> HIDE DEF below, n
    <2> QED
        BY <1>3, <2>1, <2>2, <2>3, <2>4, Places, Zenon DEF n
<1>6. O = [i \in 1..n |-> CHOOSE f \in R : Cardinality({g \in R : g.lo < f.lo}) = i - 1]
    BY DEF KeyOrder
<1> HIDE DEF below, n, O
<1>7. ASSUME NEW i \in 1..n PROVE O[i] \in R
    <2>1. O[i] = CHOOSE f \in R : Cardinality({g \in R : g.lo < f.lo}) = i - 1
        BY <1>6
    <2>2. \E f \in R : Cardinality({g \in R : g.lo < f.lo}) = i - 1
        BY <1>4, <1>5
    <2> QED
        BY <2>1, <2>2, Zenon
<1>8. DOMAIN O = 1..n
    BY <1>6
<1> QED
    BY <1>3, <1>7, <1>8 DEF O, n

\* promote_ranges: the due ranges promoted, the partitions still tile, the ranges
\* left over are partitions yet, and nothing a merge holds is taken.
LEMMA PromotedDue ==
    ASSUME NEW S, \A s \in S : Segment(s), Tiled(Parts(S)), NEW due \in SUBSET Fences(Parts(S)),
           NEW busy \in SUBSET S
    PROVE  LET p == PromoteDue(S, due, busy) IN
           /\ \A q \in p.segs : Segment(q) /\ \E s \in S : q.seq = s.seq /\ q.id = s.id
           /\ Tiled(Parts(p.segs)) /\ busy \subseteq p.segs
           /\ \E R \in SUBSET Fences(Parts(p.segs)) : p.rest = KeyOrder(R)
<1> DEFINE now == {f \in due : Promotable(S, f, busy)}
           gone == UNION {Candidates(S, f) \cup {Holder(S, f)} : f \in now}
           new == UNION {Became(S, f) : f \in now}
           all == (S \ gone) \cup new
           R == {f \in due \ now : \E s \in Pieces(all) : Overlap(s, f)}
           G == {Holder(S, f) : f \in now}
<1>1. PromoteDue(S, due, busy) = [segs |-> all, rest |-> KeyOrder(R)]
    BY DEF PromoteDue
<1>2. \A f \in now : f \in Fences(Parts(S)) /\ Promotable(S, f, busy)
    OBVIOUS
<1>3. \A f \in now : Holder(S, f) \in Parts(S) /\ FenceOf(Holder(S, f)) = f
    BY <1>2, HolderOf
<1>4. \A f \in now : /\ Holder(S, f).lo = f.lo /\ Holder(S, f).hi = f.hi
    BY <1>3, PartFence
<1>5. ASSUME NEW f \in now
      PROVE  /\ \A q \in Became(S, f) :
                   /\ Segment(q) /\ q.level = 1 /\ f.lo <= q.lo /\ q.hi <= f.hi
                   /\ \E s \in S : q.seq = s.seq /\ q.id = s.id
             /\ \A q, r \in Became(S, f) : q # r => Apart(q, r)
             /\ \A x \in 0..MaxKey : Inside(f, x) => \E q \in Became(S, f) : Inside(q, x)
    BY <1>2, BecameShape
<1>6. \A f \in now : Candidates(S, f) \subseteq Pieces(S)
    BY DEF Candidates
<1>7. G \in SUBSET Parts(S)
    BY <1>3
<1>8. \A q \in new : \E f \in now : q \in Became(S, f)
    OBVIOUS
<1>9. \A f \in now : Became(S, f) \subseteq new
    OBVIOUS
<1>10. \A s \in gone : s \in Pieces(S) \/ s \in G
    BY <1>6
<1>11. G \subseteq gone
    OBVIOUS
<1>17. \A f \in now : Holder(S, f) \in G
    OBVIOUS
<1>18. \A g \in G : \E f \in now : g = Holder(S, f)
    OBVIOUS
<1>19. \A s \in gone : \E f \in now : s \in Candidates(S, f) \cup {Holder(S, f)}
    OBVIOUS
<1>20. \A f \in now : busy \cap (Candidates(S, f) \cup {Holder(S, f)}) = {}
    BY <1>2 DEF Promotable
<1>21. R \subseteq due /\ \A f \in R : f \notin now
    OBVIOUS
<1> HIDE DEF now, gone, new, G, R
<1>12. Parts(all) = (Parts(S) \ G) \cup new
    <2>1. \A q \in new : q.level = 1
        BY <1>5, <1>8
    <2>2. \A s \in Parts(S) : s \in gone <=> s \in G
        BY <1>10, <1>11 DEF Pieces
    <2> QED
        BY <2>1, <2>2 DEF Parts
<1>13. Tiled(Parts(all))
    <2>1. \A q \in new : Fenced(q) /\ \E g \in G : g.lo <= q.lo /\ q.hi <= g.hi
        <3> TAKE q \in new
        <3>1. PICK f \in now : q \in Became(S, f)
            BY <1>8
        <3>2. Segment(q) /\ f.lo <= q.lo /\ q.hi <= f.hi
            BY <1>5, <3>1
        <3> QED
            BY <1>4, <1>17, <3>2 DEF Segment
    <2>2. ASSUME NEW q \in new, NEW r \in new, q # r PROVE Apart(q, r)
        <3>1. PICK f \in now : q \in Became(S, f)
            BY <1>8
        <3>2. PICK g \in now : r \in Became(S, g)
            BY <1>8
        <3>3. CASE f = g
            BY <1>5, <2>2, <3>1, <3>2, <3>3
        <3>4. CASE f # g
            <4> DEFINE h == Holder(S, f)
                       i == Holder(S, g)
            <4>1. h \in Parts(S) /\ i \in Parts(S) /\ h # i
                BY <1>3, <3>4
            <4>2. /\ h.lo <= q.lo /\ q.hi <= h.hi /\ i.lo <= r.lo /\ r.hi <= i.hi
                  /\ Fenced(q) /\ Fenced(r)
                BY <1>4, <1>5, <3>1, <3>2 DEF Segment
            <4> HIDE DEF h, i
            <4>3. Apart(h, i) /\ Fenced(h) /\ Fenced(i)
                BY <4>1 DEF Tiled
            <4> QED
                BY <4>2, <4>3, Numbers DEF Apart, Fenced
        <3> QED
            BY <3>3, <3>4
    <2>3. ASSUME NEW g \in G, NEW x \in 0..MaxKey, Inside(g, x)
          PROVE  \E q \in new : Inside(q, x)
        <3>1. PICK f \in now : g = Holder(S, f)
            BY <1>18
        <3>2. Inside(f, x)
            BY <1>4, <2>3, <3>1 DEF Inside
        <3>3. PICK q \in Became(S, f) : Inside(q, x)
            BY <1>5, <3>2
        <3> QED
            BY <1>9, <3>3
    <2>4. Tiled((Parts(S) \ G) \cup new)
        BY <1>7, <2>1, <2>2, <2>3, Retiled
    <2> QED
        BY <1>12, <2>4
<1>14. \A q \in all : Segment(q) /\ \E s \in S : q.seq = s.seq /\ q.id = s.id
    <2> TAKE q \in all
    <2>1. CASE q \in S
        BY <2>1
    <2>2. CASE q \in new
        BY <1>5, <1>8, <2>2
    <2> QED
        BY <2>1, <2>2
<1>15. busy \subseteq all
    BY <1>19, <1>20
<1>16. R \subseteq Fences(Parts(all))
    <2> SUFFICES ASSUME NEW f \in R PROVE f \in Fences(Parts(all))
        OBVIOUS
    <2>1. PICK p \in Parts(S) : f = FenceOf(p)
        BY <1>21 DEF Fences
    <2>2. p \notin G
        BY <1>3, <1>18, <1>21, <2>1
    <2> QED
        BY <1>12, <2>1, <2>2 DEF Fences
<1> HIDE DEF all
<1> QED
    BY <1>1, <1>13, <1>14, <1>15, <1>16

\* Segments renamed or kept are no newer than those they came from.
LEMMA SegsFrom ==
    ASSUME SegInv, UNCHANGED covered, Tiled(Parts(segs')),
           \A q \in segs' : Segment(q) /\ \E s \in segs : q.seq = s.seq /\ q.id = s.id
    PROVE  SegInv'
<1>1. PICK N \in Nat : \A s \in segs : s.id <= N
    BY DEF SegInv
<1>2. \A q \in segs' : Segment(q) /\ q.seq <= covered /\ q.id <= N
    BY <1>1 DEF SegInv
<1> QED
    BY <1>2 DEF SegInv

LEMMA PlannedFirst ==
    ASSUME ShapeInv, tier = {}, UNCHANGED covered, NEW trigger, PlanFirst(trigger)
    PROVE  SegInv' /\ MergeInv' /\ segs # {}
<1>1. SegInv /\ MergeInv /\ covered \in Nat
    BY DEF ShapeInv, LogInv
<1>2. Parts(segs) = {} /\ segs # {}
    BY DEF PlanFirst
<1>3. PICK fits \in BOOLEAN :
          \/ PromotableAll(segs, Busy, fits) /\ segs' = PromoteAll(segs) /\ UNCHANGED merges
          \/ ~PromotableAll(segs, Busy, fits) /\ StartCompact(segs, {}) /\ UNCHANGED segs
    BY DEF PlanFirst
<1>4. CASE PromotableAll(segs, Busy, fits) /\ segs' = PromoteAll(segs) /\ UNCHANGED merges
    <2>1. Chain(Whole, 0, segs) /\ Busy \cap segs = {}
        BY <1>4 DEF PromotableAll
    <2>2. /\ \A p \in segs' : /\ Segment(p) /\ p.level = 1
                              /\ \E s \in segs : p.seq = s.seq /\ p.id = s.id
          /\ Tiled(segs')
        BY <1>1, <1>4, <2>1, PromotedAll DEF SegInv
    <2>3. Parts(segs') = segs'
        BY <2>2 DEF Parts
    <2>4. SegInv'
        BY <1>1, <2>2, <2>3, SegsFrom
    <2>5. merges = {}
        <3> SUFFICES ASSUME NEW m \in merges PROVE FALSE
            OBVIOUS
        <3>1. m.inputs \subseteq segs /\ m.inputs # {}
            BY <1>1 DEF MergeInv, MergesHold
        <3>2. m.inputs \subseteq Busy
            BY DEF Busy
        <3> QED
            BY <2>1, <3>1, <3>2
    <2>6. MergeInv'
        BY <1>1, <1>4, <2>5 DEF MergeInv, MergesHold
    <2> QED
        BY <1>2, <2>4, <2>6
<1>5. CASE StartCompact(segs, {}) /\ UNCHANGED segs
    <2>1. Tiled(Parts(segs)) /\ MergesHold(merges, segs, covered)
        BY <1>1 DEF SegInv, MergeInv
    <2>2. {} \in SUBSET Fences(Parts(segs))
        OBVIOUS
    <2>3. MergesHold(merges', segs, covered)
        BY <1>1, <1>2, <1>5, <2>1, <2>2, StartedHolds
    <2>4. MergeInv'
        BY <1>5, <2>3 DEF MergeInv
    <2>5. SegInv'
        BY <1>1, <1>5 DEF SegInv
    <2> QED
        BY <1>2, <2>4, <2>5
<1> QED
    BY <1>3, <1>4, <1>5

LEMMA PlannedRanges ==
    ASSUME ShapeInv, tier = {}, UNCHANGED covered, NEW trigger, PlanRanges(trigger)
    PROVE  SegInv' /\ MergeInv' /\ segs # {}
<1> DEFINE held == UNION {m.fences : m \in merges}
           due == {f \in MergeDue(segs, trigger) :
                      MergeParallel > 1 => \A g \in held : ~Overlap(f, g)}
           p == PromoteDue(segs, due, Busy)
<1>1. SegInv /\ MergeInv /\ covered \in Nat
    BY DEF ShapeInv, LogInv
<1>2. /\ Parts(segs) # {} /\ segs' = p.segs
      /\ \/ p.rest = <<>> /\ UNCHANGED merges
         \/ \E n \in DOMAIN p.rest : StartCompact(p.segs, {p.rest[i] : i \in 1..n})
    BY DEF PlanRanges
<1>3. segs # {}
    BY <1>2 DEF Parts
<1>4. due \in SUBSET Fences(Parts(segs))
    BY DEF MergeDue
<1>5. Busy \in SUBSET segs
    BY <1>1 DEF Busy, MergeInv, MergesHold
<1>6. /\ \A q \in p.segs : Segment(q) /\ \E s \in segs : q.seq = s.seq /\ q.id = s.id
      /\ Tiled(Parts(p.segs)) /\ Busy \subseteq p.segs
      /\ \E R \in SUBSET Fences(Parts(p.segs)) : p.rest = KeyOrder(R)
    <2> HIDE DEF due
    <2> QED
        BY <1>1, <1>4, <1>5, PromotedDue DEF SegInv
<1> HIDE DEF p, due
<1>7. SegInv'
    BY <1>1, <1>2, <1>6, SegsFrom
<1>8. MergesHold(merges, p.segs, covered)
    <2>1. \A m \in merges : m.fences # {}
        BY <1>1, <1>2 DEF MergeInv, MergesHold
    <2>2. \A m \in merges : m.inputs \subseteq p.segs
        BY <1>6 DEF Busy
    <2>3. MergesHold(merges, segs, covered) /\ covered <= covered
        BY <1>1 DEF MergeInv
    <2> QED
        BY <1>1, <1>6, <2>1, <2>2, <2>3, MergesKept
<1>9. CASE UNCHANGED merges
    BY <1>2, <1>3, <1>7, <1>8, <1>9 DEF MergeInv
<1>10. ASSUME NEW n \in DOMAIN p.rest, StartCompact(p.segs, {p.rest[i] : i \in 1..n})
       PROVE  MergeInv'
    <2> DEFINE given == {p.rest[i] : i \in 1..n}
    <2>1. PICK R \in SUBSET Fences(Parts(p.segs)) : p.rest = KeyOrder(R)
        BY <1>6
    <2>2. /\ DOMAIN p.rest = 1..Cardinality(R) /\ Cardinality(R) \in Nat
          /\ \A i \in DOMAIN p.rest : p.rest[i] \in R
        BY <1>6, <2>1, KeyOrderOf
    <2>3. n \in Nat /\ n >= 1 /\ 1..n \subseteq DOMAIN p.rest
        BY <2>2
    <2>4. given \in SUBSET Fences(Parts(p.segs)) /\ given # {}
        <3>1. 1 \in 1..n
            BY <2>3
        <3> QED
            BY <2>1, <2>2, <2>3, <3>1
    <2>5. StartCompact(p.segs, given)
        BY <1>10
    <2> HIDE DEF given
    <2>6. p.segs # {}
        BY <2>4 DEF Fences, Parts
    <2>7. MergesHold(merges', p.segs, covered)
        BY <1>1, <1>6, <1>8, <2>4, <2>5, <2>6, StartedHolds
    <2> QED
        BY <1>2, <2>7 DEF MergeInv
<1> QED
    BY <1>2, <1>3, <1>7, <1>9, <1>10

LEMMA ShapePlan == ShapeInv /\ Plan => ShapeInv'
<1> SUFFICES ASSUME ShapeInv, Plan PROVE ShapeInv'
    OBVIOUS
<1>1. /\ tier = {} /\ \E trigger \in 1..2 : PlanFirst(trigger) \/ PlanRanges(trigger)
      /\ UNCHANGED <<phase, hist, com, prom, mem, maxKey, run, frozen, wal, walDur, unsynced,
                     covered, tier, tmps, nextSeg, fails>>
    BY DEF Plan, tables, log
<1>2. WriterInv /\ LogInv /\ JobInv /\ SegInv /\ MergeInv /\ TierInv
    BY DEF ShapeInv
<1>3. SegInv' /\ MergeInv' /\ segs # {}
    BY <1>1, PlannedFirst, PlannedRanges
<1>4. WriterInv' /\ LogInv'
    BY <1>1, <1>2 DEF WriterInv, LogInv
<1>5. JobInv'
    BY <1>1, <1>2, <1>3, QueueKept
<1>6. TierInv'
    BY <1>1 DEF TierInv
<1> QED
    BY <1>3, <1>4, <1>5, <1>6 DEF ShapeInv

-----------------------------------------------------------------------------
(* What a merge lands as.                                                     *)

\* compact_run's outputs, one a slice of the merge's ranges.
Outputs(S, fs, cuts, seq) == {Bottom(S, g, seq) : g \in UNION {Slices(f, cuts) : f \in fs}}

LEMMA BottomShape ==
    ASSUME NEW S, NEW g \in Fence, NEW seq \in Nat
    PROVE  LET q == Bottom(S, g, seq) IN
           /\ Segment(q) /\ q.level = 1 /\ q.lo = g.lo /\ q.hi = g.hi /\ q.seq = seq /\ q.id = 0
<1> DEFINE q == Bottom(S, g, seq)
<1>1. /\ q.level = 1 /\ q.lo = g.lo /\ q.hi = g.hi /\ q.seq = seq /\ q.id = 0
      /\ q = [level |-> q.level, lo |-> q.lo, hi |-> q.hi, kind |-> q.kind, seq |-> q.seq,
              id |-> q.id, c |-> q.c]
    BY DEF Bottom
<1>2. Fenced(g)
    BY FenceShape
<1> HIDE DEF q
<1>3. Segment(q)
    BY <1>1, <1>2 DEF Segment, Fenced
<1> QED
    BY <1>1, <1>3 DEF q

\* The partitions G have the ranges fs.
Cover(G, fs) ==
    /\ \A f \in fs : \E p \in G : p.lo = f.lo /\ p.hi = f.hi
    /\ \A p \in G : \E f \in fs : p.lo = f.lo /\ p.hi = f.hi

\* They tile with the partitions the merge left alone.
LEMMA OutputsTile ==
    ASSUME NEW P, Tiled(P), NEW G \in SUBSET P, NEW fs \in SUBSET Fence, NEW cuts \in SUBSET Key,
           NEW seq \in Nat, NEW S, Cover(G, fs)
    PROVE  LET N == Outputs(S, fs, cuts, seq) IN
           /\ \A q \in N : Segment(q) /\ q.level = 1 /\ q.seq = seq /\ q.id = 0
           /\ Tiled((P \ G) \cup N)
<1> DEFINE N == Outputs(S, fs, cuts, seq)
<1>1. \A f \in fs : /\ \A g \in Slices(f, cuts) : g \in Fence /\ f.lo <= g.lo /\ g.hi <= f.hi
                    /\ \A g, h \in Slices(f, cuts) : g # h => Apart(g, h)
                    /\ \A x \in 0..MaxKey : Inside(f, x) =>
                          \E g \in Slices(f, cuts) : Inside(g, x)
    BY SlicesTile
<1>2. \A q \in N : \E f \in fs : \E g \in Slices(f, cuts) : q = Bottom(S, g, seq)
    BY DEF Outputs
<1>3. \A f \in fs : \A g \in Slices(f, cuts) : Bottom(S, g, seq) \in N
    BY DEF Outputs
<1> HIDE DEF N
<1>4. \A f \in fs : \A g \in Slices(f, cuts) : LET q == Bottom(S, g, seq) IN
        /\ Segment(q) /\ q.level = 1 /\ q.lo = g.lo /\ q.hi = g.hi /\ q.seq = seq /\ q.id = 0
    BY <1>1, BottomShape
<1>5. \A q \in N : Segment(q) /\ q.level = 1 /\ q.seq = seq /\ q.id = 0
    BY <1>2, <1>4
<1>6. \A q \in N : Fenced(q) /\ \E g \in G : g.lo <= q.lo /\ q.hi <= g.hi
    <2> TAKE q \in N
    <2>1. PICK f \in fs : \E g \in Slices(f, cuts) : q = Bottom(S, g, seq)
        BY <1>2
    <2>2. PICK g \in Slices(f, cuts) : q = Bottom(S, g, seq)
        BY <2>1
    <2>3. f.lo <= q.lo /\ q.hi <= f.hi
        BY <1>1, <1>4, <2>2
    <2>4. PICK p \in G : p.lo = f.lo /\ p.hi = f.hi
        BY DEF Cover
    <2> QED
        BY <1>5, <2>3, <2>4 DEF Segment
<1>7. ASSUME NEW q \in N, NEW r \in N, q # r PROVE Apart(q, r)
    <2>1. PICK f \in fs : \E g \in Slices(f, cuts) : q = Bottom(S, g, seq)
        BY <1>2
    <2>2. PICK g \in Slices(f, cuts) : q = Bottom(S, g, seq)
        BY <2>1
    <2>3. PICK e \in fs : \E h \in Slices(e, cuts) : r = Bottom(S, h, seq)
        BY <1>2
    <2>4. PICK h \in Slices(e, cuts) : r = Bottom(S, h, seq)
        BY <2>3
    <2>5. g # h
        BY <1>7, <2>2, <2>4
    <2>6. q.lo = g.lo /\ q.hi = g.hi /\ r.lo = h.lo /\ r.hi = h.hi
        BY <1>4, <2>2, <2>4
    <2>7. CASE f = e
        <3>1. Apart(g, h)
            BY <1>1, <2>5, <2>7
        <3> QED
            BY <2>6, <3>1 DEF Apart
    <2>8. CASE f # e
        <3>1. PICK p \in G : p.lo = f.lo /\ p.hi = f.hi
            BY DEF Cover
        <3>2. PICK t \in G : t.lo = e.lo /\ t.hi = e.hi
            BY DEF Cover
        <3>3. p # t
            <4>1. f = [lo |-> f.lo, hi |-> f.hi] /\ e = [lo |-> e.lo, hi |-> e.hi]
                BY FenceShape
            <4> QED
                BY <2>8, <3>1, <3>2, <4>1
        <3>4. Apart(p, t) /\ Fenced(p) /\ Fenced(t)
            BY <3>3 DEF Tiled
        <3>5. f.lo <= q.lo /\ q.hi <= f.hi /\ e.lo <= r.lo /\ r.hi <= e.hi
            BY <1>1, <2>6
        <3>6. Fenced(q) /\ Fenced(r)
            BY <1>6
        <3> QED
            BY <3>1, <3>2, <3>4, <3>5, <3>6, Numbers DEF Apart, Fenced
    <2> QED
        BY <2>7, <2>8
<1>8. ASSUME NEW p \in G, NEW x \in 0..MaxKey, Inside(p, x) PROVE \E q \in N : Inside(q, x)
    <2>1. PICK f \in fs : p.lo = f.lo /\ p.hi = f.hi
        BY DEF Cover
    <2>2. Inside(f, x)
        BY <1>8, <2>1 DEF Inside
    <2>3. PICK g \in Slices(f, cuts) : Inside(g, x)
        BY <1>1, <2>2
    <2>4. Bottom(S, g, seq) \in N /\ Inside(Bottom(S, g, seq), x)
        BY <1>3, <1>4, <2>3 DEF Inside
    <2> QED
        BY <2>4
<1>9. Tiled((P \ G) \cup N)
    BY <1>6, <1>7, <1>8, Retiled
<1> QED
    BY <1>5, <1>9 DEF N

LEMMA ShapeLandMerge == ShapeInv /\ LandMerge => ShapeInv'
<1> SUFFICES ASSUME ShapeInv, LandMerge PROVE ShapeInv'
    OBVIOUS
<1>1. WriterInv /\ LogInv /\ JobInv /\ SegInv /\ MergeInv /\ TierInv
    BY DEF ShapeInv
<1>2. UNCHANGED <<phase, hist, com, prom, mem, maxKey, run, frozen, wal, walDur, unsynced,
                  covered, tier, tmps, nextSeg, fails>>
    BY DEF LandMerge, tables, log
<1>3. PICK m \in merges :
          LET fs == IF m.fences = {} THEN {Whole} ELSE m.fences IN
          \E cuts \in SUBSET CutKeys(m.inputs, fs) :
             /\ segs' = (segs \ m.inputs) \cup Outputs(m.inputs, fs, cuts, m.seq)
             /\ merges' = merges \ {m}
    BY DEF LandMerge, Outputs
<1> DEFINE fs == IF m.fences = {} THEN {Whole} ELSE m.fences
<1>4. PICK cuts \in SUBSET CutKeys(m.inputs, fs) :
             /\ segs' = (segs \ m.inputs) \cup Outputs(m.inputs, fs, cuts, m.seq)
             /\ merges' = merges \ {m}
    BY <1>3
<1> DEFINE N == Outputs(m.inputs, fs, cuts, m.seq)
           G == {p \in Parts(segs) : FenceOf(p) \in m.fences}
<1>5. cuts \in SUBSET Key
    BY DEF CutKeys, Held
<1>6. /\ m.inputs \subseteq segs /\ m.inputs # {} /\ m.fences \subseteq Fence
      /\ m.seq \in Nat /\ m.seq <= covered
      /\ m.fences \subseteq Fences(Parts(segs))
      /\ \A p \in Parts(segs) : p \in m.inputs <=> FenceOf(p) \in m.fences
      /\ m.fences = {} => Parts(segs) = {} /\ merges = {m}
    BY <1>1 DEF MergeInv, MergesHold
<1>7. /\ \A q \in N : Segment(q) /\ q.level = 1 /\ q.seq = m.seq /\ q.id = 0
      /\ Tiled((Parts(segs) \ G) \cup N)
    <2>1. CASE m.fences = {}
        <3>1. fs = {Whole} /\ {Whole} \in SUBSET Fence /\ Parts(segs) = {}
            BY <1>6, <2>1, WholeFence
        <3>2. Tiled({Whole})
            BY WholeFence, FenceShape, Numbers DEF Tiled, Inside
        <3>3. Cover({Whole}, {Whole})
            BY DEF Cover
        <3> DEFINE W == {Whole}
        <3>4. W \in SUBSET W /\ fs \in SUBSET Fence /\ Tiled(W) /\ Cover(W, fs)
            BY <3>1, <3>2, <3>3
        <3> HIDE DEF W, fs
        <3>5. /\ \A q \in N : Segment(q) /\ q.level = 1 /\ q.seq = m.seq /\ q.id = 0
              /\ Tiled((W \ W) \cup N)
            BY <1>5, <1>6, <3>4, OutputsTile, Zenon
        <3>6. (W \ W) \cup N = N /\ (Parts(segs) \ G) \cup N = N
            BY <3>1
        <3> QED
            BY <3>5, <3>6
    <2>2. CASE m.fences # {}
        <3>1. fs = m.fences /\ fs \in SUBSET Fence
            BY <1>6, <2>2
        <3>2. Tiled(Parts(segs)) /\ G \in SUBSET Parts(segs)
            BY <1>1 DEF SegInv
        <3>3. \A p \in Parts(segs) : FenceOf(p).lo = p.lo /\ FenceOf(p).hi = p.hi
            BY DEF FenceOf
        <3>4. \A f \in fs : \E p \in G : p.lo = f.lo /\ p.hi = f.hi
            BY <1>6, <3>1, <3>3 DEF Fences
        <3>5. Cover(G, fs)
            BY <3>1, <3>3, <3>4 DEF Cover
        <3>6. fs \in SUBSET Fence /\ m.seq \in Nat
            BY <1>6, <3>1
        <3> HIDE DEF fs, G
        <3> QED
            BY ONLY <1>5, <3>2, <3>5, <3>6, OutputsTile, Zenon
    <2> QED
        BY <2>1, <2>2
<1>8. \A p \in Parts(segs) : p \in G <=> p \in m.inputs
    BY <1>6
<1>9. segs' = (segs \ m.inputs) \cup N /\ merges' = merges \ {m}
    BY <1>4
<1> HIDE DEF N, G, fs
<1>10. Parts(segs') = (Parts(segs) \ G) \cup N
    BY <1>7, <1>8, <1>9 DEF Parts
<1>11. SegInv'
    <2>1. PICK M \in Nat : \A s \in segs : s.id <= M
        BY <1>1 DEF SegInv
    <2>2. \A s \in segs' : Segment(s) /\ s.seq <= covered' /\ s.id <= M
        BY <1>1, <1>2, <1>6, <1>7, <1>9, <2>1 DEF SegInv
    <2> QED
        BY <1>7, <1>10, <2>1, <2>2 DEF SegInv
<1>12. MergeInv'
    <2>1. \A o \in merges' : o \in merges /\ o # m
        BY <1>9
    <2>2. \A o \in merges' : o.fences # {}
        BY <1>1, <2>1 DEF MergeInv, MergesHold
    <2>3. \A o \in merges' : o.inputs \subseteq segs'
        BY <1>1, <1>9, <2>1 DEF MergeInv, MergesHold
    <2>4. MergesHold(merges', segs, covered)
        <3>1. IsFiniteSet(merges) /\ Cardinality(merges) <= MergeParallel /\ merges' \in SUBSET merges
            BY <1>1, <1>9 DEF MergeInv, MergesHold
        <3>2. IsFiniteSet(merges') /\ Cardinality(merges') <= Cardinality(merges)
            BY <3>1, FS_Subset
        <3>3. Cardinality(merges) \in Nat /\ Cardinality(merges') \in Nat
            BY <3>1, <3>2, FS_CardinalityType
        <3>4. Cardinality(merges') <= MergeParallel
            BY <3>1, <3>2, <3>3, IngestAssumption
        <3> QED
            BY <1>1, <2>1, <2>2, <3>2, <3>4 DEF MergeInv, MergesHold
    <2>5. covered \in Nat /\ covered <= covered
        BY <1>1 DEF LogInv
    <2>6. Tiled(Parts(segs'))
        BY <1>7, <1>10
    <2>7. MergesHold(merges', segs', covered)
        BY <2>2, <2>3, <2>4, <2>5, <2>6, MergesKept
    <2> QED
        BY <1>2, <2>7 DEF MergeInv
<1>13. TierInv'
    <2>1. \A t \in tier : t.inputs \subseteq Pieces(segs')
        BY <1>1, <1>9 DEF TierInv, Pieces, Parts
    <2> QED
        BY <1>1, <1>2, <1>9, <2>1 DEF TierInv
<1>14. segs # {}
    BY <1>6
<1>15. WriterInv' /\ LogInv'
    BY <1>1, <1>2 DEF WriterInv, LogInv
<1>16. JobInv'
    BY <1>1, <1>2, <1>14, QueueKept
<1> QED
    BY <1>11, <1>12, <1>13, <1>15, <1>16 DEF ShapeInv

LEMMA ShapeStartTier == ShapeInv /\ StartTier => ShapeInv'
<1> SUFFICES ASSUME ShapeInv, StartTier PROVE ShapeInv'
    OBVIOUS
<1>1. WriterInv /\ LogInv /\ JobInv /\ SegInv /\ MergeInv /\ TierInv
    BY DEF ShapeInv
<1>2. /\ phase = "up" /\ tier = {} /\ TierPieces > 0 /\ nextSeg' = nextSeg + 1
      /\ UNCHANGED <<phase, hist, com, prom, mem, maxKey, run, frozen, wal, walDur, unsynced,
                     covered, segs, merges, tmps, fails>>
    BY DEF StartTier, Working, tables, log
<1>3. PICK f \in Fences(Parts(segs)) :
          /\ Cardinality(Tierable(f)) >= TierPieces
          /\ tier' = {[inputs |-> Tierable(f), fence |-> f, id |-> nextSeg]}
    BY DEF StartTier
<1> DEFINE t == [inputs |-> Tierable(f), fence |-> f, id |-> nextSeg]
<1>4. nextSeg \in Nat \ {0} /\ f \in Fence
    BY <1>1, LiveFences DEF LogInv
<1>5. Tierable(f) \subseteq Pieces(segs) /\ \A m \in merges : m.inputs \cap Tierable(f) = {}
    BY DEF Tierable, Busy
<1>6. Tierable(f) # {}
    <2>1. Cardinality({}) = 0
        BY FS_EmptySet
    <2> SUFFICES ASSUME Tierable(f) = {} PROVE FALSE
        OBVIOUS
    <2>2. 0 >= TierPieces
        BY <1>3, <2>1
    <2> QED
        BY <1>2, <2>2, IngestAssumption
<1>7. TierInv'
    <2>1. tier' = {t} /\ t.inputs = Tierable(f) /\ t.fence = f /\ t.id = nextSeg
        BY <1>3
    <2> HIDE DEF t
    <2>2. tier' = {} \/ \E u : tier' = {u}
        BY <2>1
    <2> QED
        BY <1>2, <1>4, <1>5, <1>6, <2>1, <2>2 DEF TierInv
<1>8. SegInv' /\ MergeInv'
    BY <1>1, <1>2 DEF SegInv, MergeInv, MergesHold
<1>9. WriterInv'
    BY <1>1, <1>2 DEF WriterInv
<1>10. LogInv'
    <2>1. run \in Nat /\ run < nextSeg /\ \A u \in tmps : u.id \in Nat /\ u.id < nextSeg
        BY <1>1, <1>2 DEF LogInv, WriterInv, Run
    <2>2. run < nextSeg + 1 /\ \A u \in tmps : u.id < nextSeg + 1
        BY <1>4, <2>1
    <2> QED
        BY <1>1, <1>2, <1>4, <2>2 DEF LogInv
<1>11. JobInv'
    <2>1. Len(wal') \in Nat /\ Len(wal') >= Len(wal)
        BY <1>1, <1>2 DEF LogInv
    <2> QED
        BY <1>1, <1>2, <2>1, JobsKept
<1> QED
    BY <1>7, <1>8, <1>9, <1>10, <1>11 DEF ShapeInv

LEMMA TieredShape ==
    ASSUME SegInv, covered \in Nat, NEW S \in SUBSET segs, S # {}, NEW f \in Fence, NEW id \in Nat
    PROVE  LET p == Tiered(S, f, id) IN
           /\ Segment(p) /\ p.level = 0 /\ p.seq <= covered /\ p.id = id
           /\ p.lo = f.lo /\ p.hi = f.hi
<1> DEFINE p == Tiered(S, f, id)
           Q == {s.seq : s \in S}
<1>1. Q \in SUBSET (0..covered) /\ Q # {}
    BY DEF SegInv, Segment
<1>2. Max(Q) \in 0..covered
    BY <1>1, MaxBelow
<1> HIDE DEF Q
<1>3. /\ p.level = 0 /\ p.lo = f.lo /\ p.hi = f.hi /\ p.seq = Max(Q) /\ p.id = id
      /\ p = [level |-> p.level, lo |-> p.lo, hi |-> p.hi, kind |-> p.kind, seq |-> p.seq,
              id |-> p.id, c |-> p.c]
    BY DEF Tiered, Piece, Q
<1>4. Fenced(f)
    BY FenceShape
<1> HIDE DEF p
<1>5. Segment(p) /\ p.seq <= covered
    BY <1>2, <1>3, <1>4 DEF Segment, Fenced
<1> QED
    BY <1>3, <1>5 DEF p

LEMMA ShapeLandTier == ShapeInv /\ LandTier => ShapeInv'
<1> SUFFICES ASSUME ShapeInv, LandTier PROVE ShapeInv'
    OBVIOUS
<1>1. WriterInv /\ LogInv /\ JobInv /\ SegInv /\ MergeInv /\ TierInv
    BY DEF ShapeInv
<1>2. /\ tier' = {}
      /\ UNCHANGED <<phase, hist, com, prom, mem, maxKey, run, frozen, wal, walDur, unsynced,
                     covered, merges, tmps, nextSeg, fails>>
    BY DEF LandTier, tables, log
<1>3. PICK t \in tier : segs' = (segs \ t.inputs) \cup {Tiered(t.inputs, t.fence, t.id)}
    BY DEF LandTier
<1> DEFINE p == Tiered(t.inputs, t.fence, t.id)
<1>4. /\ t.inputs \subseteq Pieces(segs) /\ t.inputs # {} /\ t.fence \in Fence /\ t.id \in Nat
      /\ \A m \in merges : m.inputs \cap t.inputs = {}
    BY <1>1 DEF TierInv
<1>5. t.inputs \in SUBSET segs /\ covered \in Nat /\ segs # {}
    BY <1>1, <1>4 DEF Pieces, LogInv
<1>6. Segment(p) /\ p.level = 0 /\ p.seq <= covered /\ p.id = t.id
    BY <1>1, <1>4, <1>5, TieredShape
<1>7. segs' = (segs \ t.inputs) \cup {p}
    BY <1>3
<1> HIDE DEF p
<1>8. Parts(segs') = Parts(segs)
    BY <1>4, <1>6, <1>7 DEF Parts, Pieces
<1>9. SegInv'
    <2>1. PICK N \in Nat : \A s \in segs : s.id <= N
        BY <1>1 DEF SegInv
    <2>2. N + t.id \in Nat /\ \A s \in segs' : Segment(s) /\ s.seq <= covered' /\ s.id <= N + t.id
        <3> SUFFICES ASSUME NEW s \in segs'
                     PROVE  Segment(s) /\ s.seq <= covered /\ s.id <= N + t.id /\ N + t.id \in Nat
            BY <1>2, <1>4, <2>1
        <3>1. CASE s \in segs
            BY <1>1, <1>4, <2>1, <3>1 DEF SegInv, Segment
        <3>2. CASE s = p
            BY <1>4, <1>6, <2>1, <3>2
        <3> QED
            BY <1>7, <3>1, <3>2
    <2> QED
        BY <1>1, <1>8, <2>2 DEF SegInv
<1>10. MergeInv'
    <2>1. \A m \in merges : m.inputs \subseteq segs'
        BY <1>1, <1>4, <1>7 DEF MergeInv, MergesHold
    <2> QED
        BY <1>1, <1>2, <1>8, <2>1 DEF MergeInv, MergesHold
<1>11. TierInv'
    BY <1>2 DEF TierInv
<1>12. WriterInv' /\ LogInv'
    BY <1>1, <1>2 DEF WriterInv, LogInv
<1>13. JobInv'
    BY <1>1, <1>2, <1>5, QueueKept
<1> QED
    BY <1>9, <1>10, <1>11, <1>12, <1>13 DEF ShapeInv

-----------------------------------------------------------------------------
(* The crash and the open.                                                    *)

\* What of a run's file a crash leaves.
LEMMA RunsCut ==
    ASSUME LogInv, NEW whole \in SUBSET tmps,
           tmps' = whole \cup {[t EXCEPT !.recs = SubSeq(@, 1, t.dur)] : t \in tmps \ whole}
    PROVE  /\ tmps' \subseteq Run /\ \A t, u \in tmps' : t.id = u.id => t = u
           /\ \A t \in tmps' : t.id # 0 /\ t.dur <= Len(t.recs)
<1> DEFINE cut(t) == [t EXCEPT !.recs = SubSeq(@, 1, t.dur)]
<1>1. \A t \in tmps : /\ t \in Run /\ t.id \in Nat \ {0} /\ t.dur \in Nat /\ t.recs \in Seq(Write)
                      /\ t.dur <= Len(t.recs) /\ Len(t.recs) \in Nat
    BY DEF LogInv, Run
<1>2. ASSUME NEW t \in tmps
      PROVE  cut(t) \in Run /\ cut(t).id = t.id /\ cut(t).dur <= Len(cut(t).recs)
    <2>1. SubSeq(t.recs, 1, t.dur) \in Seq(Write) /\ Len(SubSeq(t.recs, 1, t.dur)) = t.dur
        BY <1>1
    <2>2. /\ cut(t) \in Run /\ cut(t).id = t.id /\ cut(t).dur = t.dur
          /\ cut(t).recs = SubSeq(t.recs, 1, t.dur)
        BY <1>1, <2>1 DEF Run
    <2> QED
        BY <1>1, <2>1, <2>2
<1>3. \A u \in tmps' : \E t \in tmps : u.id = t.id /\ ((u = t /\ t \in whole) \/ (u = cut(t) /\ t \notin whole))
    <2> TAKE u \in tmps'
    <2>1. CASE u \in whole
        BY <2>1
    <2>2. CASE \E t \in tmps \ whole : u = cut(t)
        BY <1>2, <2>2
    <2> QED
        BY <2>1, <2>2
<1> HIDE DEF cut
<1>4. \A t, u \in tmps' : t.id = u.id => t = u
    <2> SUFFICES ASSUME NEW t \in tmps', NEW u \in tmps', t.id = u.id PROVE t = u
        OBVIOUS
    <2>1. PICK a \in tmps : t.id = a.id /\ ((t = a /\ a \in whole) \/ (t = cut(a) /\ a \notin whole))
        BY <1>3
    <2>2. PICK b \in tmps : u.id = b.id /\ ((u = b /\ b \in whole) \/ (u = cut(b) /\ b \notin whole))
        BY <1>3
    <2>3. a = b
        BY <2>1, <2>2 DEF LogInv
    <2> QED
        BY <2>1, <2>2, <2>3
<1>5. \A t \in tmps' : t \in Run /\ t.id # 0 /\ t.dur <= Len(t.recs)
    <2> TAKE u \in tmps'
    <2>1. PICK t \in tmps : u.id = t.id /\ (u = t \/ u = cut(t))
        BY <1>3
    <2> QED
        BY <1>1, <1>2, <2>1
<1> QED
    BY <1>4, <1>5

LEMMA ShapeCrash ==
    ASSUME ShapeInv, NEW kept \in {walDur, Len(wal)}, Crash(kept) PROVE ShapeInv'
<1>1. WriterInv /\ LogInv /\ JobInv /\ SegInv /\ MergeInv /\ TierInv
    BY DEF ShapeInv
<1>2. /\ fails' = fails + 1 /\ phase' = "down" /\ wal' = SubSeq(wal, 1, kept) /\ walDur' = kept
      /\ com' = Len(hist')
      /\ mem' = [ord |-> FALSE, log |-> <<>>] /\ run' = 0 /\ frozen' = <<>>
      /\ maxKey' = 0 /\ unsynced' = 0 /\ merges' = {} /\ tier' = {} /\ nextSeg' = 1
      /\ UNCHANGED <<prom, covered, segs>>
    BY DEF Crash
<1> DEFINE was == Held0(wal, tmps, segs) \cup Range(mem.log)
                  \cup (UNION {Range(frozen[i].log) : i \in DOMAIN frozen})
           lost == was \ Held0(wal', tmps', segs)
           I == {i \in DOMAIN hist : hist[i] \notin lost}
<1>3. hist' = Subsequence(hist, I)
    <2>1. PICK x \in {lost} : hist' = Subsequence(hist, {i \in DOMAIN hist : hist[i] \notin x})
        BY Zenon DEF Crash
    <2> QED
        BY <2>1
<1>4. /\ hist \in Seq(Write) /\ wal \in Seq(Write) /\ Len(wal) \in Nat /\ kept \in 0..Len(wal)
      /\ Range(wal) \subseteq Range(hist) /\ prom \in Nat /\ covered \in Nat /\ fails \in Nat
    BY <1>1 DEF WriterInv, LogInv
<1>5. I \in SUBSET DOMAIN hist
    OBVIOUS
<1>6. \A w \in Held0(wal', tmps', segs) : w \notin lost
    OBVIOUS
<1>7. \A i \in DOMAIN hist : hist[i] \notin lost => i \in I
    OBVIOUS
<1> HIDE DEF lost, was, I
<1>8. /\ hist' \in Seq(Write) /\ Len(hist') \in Nat
      /\ \A i \in I : \E j \in DOMAIN hist' : hist'[j] = hist[i]
    BY <1>3, <1>4, <1>5, SubsequenceOf
<1>9. wal' \in Seq(Write) /\ Len(wal') = kept /\ \A i \in 1..kept : wal'[i] = wal[i]
    BY <1>2, <1>4
<1>10. Range(wal') \subseteq Range(hist')
    <2> SUFFICES ASSUME NEW w \in Range(wal') PROVE w \in Range(hist')
        OBVIOUS
    <2>1. w \in Held0(wal', tmps', segs)
        BY DEF Held0
    <2>2. PICK i \in 1..kept : w = wal'[i]
        BY <1>9 DEF Range
    <2>3. w \in Range(wal)
        BY <1>4, <1>9, <2>2 DEF Range
    <2>4. PICK j \in DOMAIN hist : w = hist[j]
        BY <1>4, <2>3 DEF Range
    <2>5. j \in I
        BY <1>6, <1>7, <2>1, <2>4
    <2> QED
        BY <1>8, <2>4, <2>5 DEF Range
<1>11. WriterInv'
    <2>1. mem' \in Table /\ Range(mem'.log) = {} /\ mem'.ord = FALSE
        BY <1>2 DEF Table, Range
    <2> QED
        BY <1>2, <1>4, <1>8, <2>1, Numbers DEF WriterInv
<1>12. LogInv'
    <2>1. /\ tmps' \subseteq Run /\ \A t, u \in tmps' : t.id = u.id => t = u
          /\ \A t \in tmps' : t.id # 0 /\ t.dur <= Len(t.recs)
        <3>1. PICK whole \in SUBSET tmps :
                 tmps' = whole \cup {[t EXCEPT !.recs = SubSeq(@, 1, t.dur)] : t \in tmps \ whole}
            BY DEF Crash
        <3> QED
            BY <1>1, <3>1, RunsCut
    <2> QED
        BY <1>2, <1>4, <1>9, <1>10, <2>1, IngestAssumption DEF LogInv
<1>13. JobInv'
    BY <1>2, IngestAssumption DEF JobInv
<1>14. SegInv'
    BY <1>1, <1>2 DEF SegInv
<1>15. MergeInv'
    <2>1. IsFiniteSet({}) /\ Cardinality({}) = 0
        BY FS_EmptySet
    <2> QED
        BY <1>2, <2>1, IngestAssumption DEF MergeInv, MergesHold
<1>16. TierInv'
    BY <1>2 DEF TierInv
<1> QED
    BY <1>11, <1>12, <1>13, <1>14, <1>15, <1>16 DEF ShapeInv

LEMMA ShapeRecoverRun == ShapeInv /\ RecoverRun => ShapeInv'
<1> SUFFICES ASSUME ShapeInv, RecoverRun PROVE ShapeInv'
    OBVIOUS
<1>1. WriterInv /\ LogInv /\ JobInv /\ SegInv /\ MergeInv /\ TierInv
    BY DEF ShapeInv
<1>2. /\ phase = "down"
      /\ UNCHANGED <<phase, hist, com, prom, mem, maxKey, run, frozen, wal, walDur, unsynced,
                     covered, merges, tier, nextSeg, fails>>
    BY DEF RecoverRun, tables, log
<1>3. PICK t \in tmps :
          /\ tmps' = tmps \ {t}
          /\ segs' = segs \/ segs' = segs \cup {RunPiece(LastRange, covered, t.id, t.recs)}
    BY DEF RecoverRun
<1>4. frozen = <<>> /\ frozen' = <<>>
    BY <1>1, <1>2 DEF JobInv
<1>5. WriterInv' /\ LogInv'
    BY <1>1, <1>2, <1>3 DEF WriterInv, LogInv
<1>6. JobInv'
    BY <1>1, <1>2, <1>4 DEF JobInv
<1>7. SegInv' /\ MergeInv' /\ TierInv'
    <2>1. CASE segs' = segs
        BY <1>1, <1>2, <2>1, WorkKept
    <2>2. CASE segs' = segs \cup {RunPiece(LastRange, covered, t.id, t.recs)}
        <3> DEFINE p == RunPiece(LastRange, covered, t.id, t.recs)
                   L == {p}
        <3>1. t.id \in Nat /\ covered \in Nat /\ covered' = covered
            BY <1>1, <1>2 DEF LogInv, Run
        <3>2. LastRange \in SUBSET Fence /\ \A g \in LastRange : g.hi = Top
            BY <1>1, LiveFences
        <3>3. Segment(p) /\ p.level = 0 /\ p.seq = covered /\ p.id = t.id
            BY <3>1, <3>2, RunShape
        <3> HIDE DEF p
        <3>4. /\ segs' = segs \cup L
              /\ \A q \in L : Segment(q) /\ q.level = 0 /\ q.seq <= covered'
              /\ \E N \in Nat : \A q \in L : q.id <= N
            BY <2>2, <3>1, <3>3 DEF p
        <3>5. covered' \in Nat /\ covered <= covered'
            BY <3>1
        <3> HIDE DEF L
        <3> QED
            BY <1>1, <1>2, <3>1, <3>4, <3>5, PiecesAdded
    <2> QED
        BY <1>3, <2>1, <2>2
<1> QED
    BY <1>5, <1>6, <1>7 DEF ShapeInv

LEMMA ShapeOpened == ShapeInv /\ Opened => ShapeInv'
<1> SUFFICES ASSUME ShapeInv, Opened PROVE ShapeInv'
    OBVIOUS
<1>1. WriterInv /\ LogInv /\ JobInv /\ SegInv /\ MergeInv /\ TierInv
    BY DEF ShapeInv
<1>2. /\ phase = "down" /\ tmps = {} /\ phase' = "up" /\ mem' = [ord |-> FALSE, log |-> wal]
      /\ maxKey' = MaxKeyOf(segs, wal) /\ nextSeg' = Max({0} \cup {s.id : s \in segs}) + 1
      /\ UNCHANGED <<hist, com, prom, run, frozen, wal, walDur, unsynced, covered, segs, merges,
                     tier, tmps, fails>>
    BY DEF Opened, log, shape
<1>3. run = 0 /\ frozen = <<>> /\ wal \in Seq(Write) /\ Range(wal) \subseteq Range(hist)
    BY <1>1, <1>2 DEF LogInv, JobInv
<1>4. maxKey' \in 0..MaxKey
    <2> DEFINE K == {0} \cup (UNION {Keys(s.c) : s \in segs}) \cup Keys(Chains(wal))
    <2>1. K \in SUBSET (0..MaxKey) /\ K # {}
        BY Numbers DEF Keys, Key
    <2>2. maxKey' = Max(K)
        BY <1>2 DEF MaxKeyOf
    <2> HIDE DEF K
    <2>3. Max(K) \in K
        BY <2>1, Numbers, MaxBelow
    <2> QED
        BY <2>1, <2>2, <2>3
<1>5. nextSeg' \in Nat \ {0}
    <2> DEFINE D == {0} \cup {s.id : s \in segs}
    <2>1. PICK N \in Nat : \A s \in segs : s.id <= N
        BY <1>1 DEF SegInv
    <2>2. D \in SUBSET (0..N) /\ D # {}
        BY <1>1, <2>1 DEF SegInv, Segment
    <2>3. nextSeg' = Max(D) + 1
        BY <1>2
    <2> HIDE DEF D
    <2>4. Max(D) \in D
        BY <2>2, MaxBelow
    <2>5. Max(D) \in 0..N
        BY <2>2, <2>4
    <2> QED
        BY <2>3, <2>5
<1>6. WriterInv'
    <2>1. mem' \in Table /\ mem'.log = wal /\ mem'.ord = FALSE
        BY <1>2, <1>3 DEF Table
    <2> QED
        BY <1>1, <1>2, <1>3, <1>4, <2>1 DEF WriterInv
<1>7. LogInv'
    BY <1>1, <1>2, <1>3, <1>5 DEF LogInv
<1>8. JobInv'
    BY <1>1, <1>2, <1>3 DEF JobInv
<1>9. SegInv' /\ MergeInv' /\ TierInv'
    BY <1>1, <1>2, WorkKept
<1> QED
    BY <1>6, <1>7, <1>8, <1>9 DEF ShapeInv

-----------------------------------------------------------------------------
(* The invariant holds.                                                       *)

LEMMA ShapeKept == ShapeInv /\ [Next]_vars => ShapeInv'
<1> SUFFICES ASSUME ShapeInv, [Next]_vars PROVE ShapeInv'
    OBVIOUS
<1>1. CASE UNCHANGED vars
    <2>1. UNCHANGED <<phase, hist, com, prom, mem, maxKey, run, frozen, wal, walDur, unsynced,
                      covered, segs, merges, tier, tmps, nextSeg, fails>>
        BY <1>1 DEF vars, tables, log, shape
    <2>2. WriterInv /\ LogInv /\ JobInv /\ SegInv /\ MergeInv /\ TierInv
        BY DEF ShapeInv
    <2>3. WriterInv' /\ LogInv'
        BY <2>1, <2>2 DEF WriterInv, LogInv
    <2>4. JobInv'
        <3>1. Len(wal') \in Nat /\ Len(wal') >= Len(wal)
            BY <2>1, <2>2 DEF LogInv
        <3> QED
            BY <2>1, <2>2, <3>1, JobsKept
    <2>5. SegInv' /\ MergeInv' /\ TierInv'
        BY <2>1, <2>2, WorkKept
    <2> QED
        BY <2>3, <2>4, <2>5 DEF ShapeInv
<1>2. CASE Next
    BY <1>2, ShapeWrites, ShapeCommit, ShapeSealRun, ShapeSealTable, ShapeLandSeal, ShapeUnlink,
       ShapePlan, ShapeLandMerge, ShapeStartTier, ShapeLandTier, ShapeCrash, ShapeRecoverRun,
       ShapeOpened DEF Next
<1> QED
    BY <1>1, <1>2

LEMMA ShapeHolds == Spec => []ShapeInv
BY ShapeInit, ShapeKept, PTL DEF Spec

\* The partitions tile the key space after every landing, merge and promotion and
\* after every crash: Maint::partitions_tile never finds a gap or an overlap, for
\* any number of keys and however the due ranges, the cuts and the merges fall.
THEOREM PartitionsAlwaysTile == Spec => []Tiles
<1>1. ShapeInv => Tiles
    <2> SUFFICES ASSUME ShapeInv PROVE Tiles
        OBVIOUS
    <2>1. (\A s \in segs : Segment(s)) /\ Tiled(Parts(segs))
        BY DEF ShapeInv, SegInv
    <2> QED
        BY <2>1, TiledOrdered DEF Tiles
<1> QED
    BY <1>1, ShapeHolds, PTL

\* Every variable keeps its type, a table holds only writes that count, and the
\* queue of tables, the merges in flight and the unsynced commits keep the bounds
\* of FROZEN_CAP, Options::merge_parallel and SyncPolicy.
THEOREM IngestTypeCorrect == Spec => []TypeOK
<1>1. ShapeInv => TypeOK
    <2> SUFFICES ASSUME ShapeInv PROVE TypeOK
        OBVIOUS
    <2>1. WriterInv /\ LogInv /\ JobInv /\ MergeInv /\ TierInv
        BY DEF ShapeInv
    <2>2. Range(hist) \subseteq Write
        BY <2>1 DEF WriterInv, Range
    <2>3. mem.ord \in BOOLEAN
        BY <2>1 DEF WriterInv, Table
    <2>4. Cardinality(tier) <= 1
        <3>1. CASE tier = {}
            BY <3>1, FS_EmptySet
        <3>2. ASSUME NEW t, tier = {t} PROVE Cardinality(tier) <= 1
            <4>1. Cardinality({t}) = 1
                BY FS_Singleton
            <4> QED
                BY <3>2, <4>1
        <3> QED
            BY <2>1, <3>1, <3>2 DEF TierInv
    <2> QED
        BY <2>1, <2>2, <2>3, <2>4 DEF TypeOK, WriterInv, LogInv, JobInv, MergeInv, MergesHold
<1> QED
    BY <1>1, ShapeHolds, PTL

-----------------------------------------------------------------------------
(* Where keys may be: the invariant's parts for what a merge holds.           *)

SegKeys(S) == UNION {Keys(s.c) : s \in S}
LogKeys(ws) == {ws[i].k : i \in DOMAIN ws}
Inner(s) == \A k \in Keys(s.c) : Inside(s, k)

\* The keys B of a run are above the keys K of the segments and those of the first
\* n tables of the queue Q, and in the last range L.
ClearOf(K, L, Q, n, B) ==
    /\ \A a \in K : \A b \in B : a < b
    /\ \A f \in L : \A b \in B : f.lo <= b
    /\ \A i \in 1..n : \A a \in LogKeys(Q[i].log) : \A b \in B : a < b
Clear(n, B) == ClearOf(SegKeys(segs), LastRange, frozen, n, B)

\* A segment holds no key outside its fence.
InsideInv == \A s \in segs : Inner(s)

\* Db::max_key is no less than any key of the store.
GreatestInv ==
    /\ \A k \in SegKeys(segs) : k <= maxKey
    /\ \A k \in LogKeys(mem.log) : k <= maxKey
    /\ \A i \in DOMAIN frozen : \A k \in LogKeys(frozen[i].log) : k <= maxKey

\* A run, in its table and in its file, is above all that is older than it; one
\* that has no file has a write to commit; a file no job is about has landed.
RunInv ==
    /\ mem.ord => Clear(Len(frozen), LogKeys(mem.log))
    /\ mem.ord /\ run = 0 => \E i \in DOMAIN mem.log : mem.log[i].n > com
FileInv(t) ==
    /\ t.id = run => Clear(Len(frozen), LogKeys(t.recs))
    /\ \A i \in DOMAIN frozen : frozen[i].tmp = t.id => Clear(i - 1, LogKeys(t.recs))
    /\ t \in LandedTmps => \E s \in segs : s.id = t.id
UpInv == phase = "up" => GreatestInv /\ RunInv /\ \A t \in tmps : FileInv(t)

\* A sealed run's keys are in the range it will be named for.
SealedInv ==
    \A i \in DOMAIN frozen :
        /\ frozen[i].tmp < nextSeg
        /\ frozen[i].tmp # 0 =>
              /\ frozen[i].id = frozen[i].tmp /\ frozen[i].tmp # run
              /\ \A g \in frozen[i].fences : \A k \in LogKeys(frozen[i].log) : g.lo <= k

\* The file of a run that an open will take up has no key below the last range.
LeftInv ==
    phase = "down" =>
        \A t \in tmps : (\A s \in segs : s.id # t.id) =>
            \A f \in LastRange : \A k \in LogKeys(t.recs) : f.lo <= k

\* A merge's inputs hold no key outside its ranges.
CoverInv ==
    \A m \in merges : m.fences # {} =>
        \A s \in m.inputs : \A k \in Keys(s.c) : \E f \in m.fences : Inside(f, k)

KeysInv == InsideInv /\ UpInv /\ SealedInv /\ LeftInv /\ CoverInv

LEMMA KeysInit == Init => KeysInv
<1> SUFFICES ASSUME Init PROVE KeysInv
    OBVIOUS
<1> USE DEF Init
<1>1. InsideInv /\ SealedInv /\ LeftInv /\ CoverInv
    BY DEF InsideInv, SealedInv, LeftInv, CoverInv
<1>2. UpInv
    BY DEF UpInv, GreatestInv, RunInv, SegKeys, LogKeys
<1> QED
    BY <1>1, <1>2 DEF KeysInv

\* What is clear stays so while the keys below it only go, the last range moves
\* to a key below it or back, and the queue's front is the same.
LEMMA ClearOn ==
    ASSUME NEW K \in SUBSET Nat, NEW L, NEW Q, NEW n \in Nat, NEW B \in SUBSET Nat,
           ClearOf(K, L, Q, n, B),
           NEW K2 \in SUBSET K, NEW L2, NEW Q2, NEW m \in Nat, m <= n,
           \A f \in L2 : f.lo = 0 \/ f.lo \in K \/ \E g \in L : f.lo = g.lo,
           \A i \in 1..m : Q2[i] = Q[i]
    PROVE  ClearOf(K2, L2, Q2, m, B)
<1>1. \A a \in K2 : \A b \in B : a < b
    BY DEF ClearOf
<1>2. ASSUME NEW f \in L2, NEW b \in B PROVE f.lo <= b
    <2>1. CASE f.lo = 0
        BY <2>1
    <2>2. CASE f.lo \in K
        <3>1. f.lo < b /\ f.lo \in Nat /\ b \in Nat
            BY <2>2 DEF ClearOf
        <3> QED
            BY <3>1
    <2>3. ASSUME NEW g \in L, f.lo = g.lo PROVE f.lo <= b
        BY <2>3 DEF ClearOf
    <2> QED
        BY <2>1, <2>2, <2>3
<1>3. ASSUME NEW i \in 1..m PROVE \A a \in LogKeys(Q2[i].log) : \A b \in B : a < b
    <2>1. i \in 1..n /\ Q2[i] = Q[i]
        OBVIOUS
    <2> QED
        BY <2>1 DEF ClearOf
<1> QED
    BY <1>1, <1>2, <1>3 DEF ClearOf

\* The keys of segments and of logs are keys.
LEMMA KeysAre ==
    /\ \A S : SegKeys(S) \subseteq Key /\ SegKeys(S) \subseteq Nat
    /\ \A ws \in Seq(Write) : LogKeys(ws) \subseteq Key /\ LogKeys(ws) \subseteq Nat
<1>1. Key \subseteq Nat
    BY DEF Key
<1>2. \A S : SegKeys(S) \subseteq Key
    BY DEF SegKeys, Keys
<1>3. ASSUME NEW ws \in Seq(Write) PROVE LogKeys(ws) \subseteq Key
    <2>1. \A i \in DOMAIN ws : ws[i] \in Write
        OBVIOUS
    <2> QED
        BY <2>1 DEF LogKeys, Write
<1> QED
    BY <1>1, <1>2, <1>3

\* While the segments are the same and the queue only grows, what was clear of
\* the queue's front still is.
LEMMA ClearStill ==
    ASSUME ShapeInv, UNCHANGED segs, \A i \in 1..Len(frozen) : frozen'[i] = frozen[i],
           NEW n \in Nat, n <= Len(frozen), NEW B \in SUBSET Nat, Clear(n, B),
           NEW m \in Nat, m <= n
    PROVE  ClearOf(SegKeys(segs'), LastRange', frozen', m, B)
<1>1. SegKeys(segs') = SegKeys(segs) /\ LastRange' = LastRange /\ SegKeys(segs) \subseteq Nat
    BY KeysAre DEF LastRange
<1>2. Len(frozen) \in Nat
    BY DEF ShapeInv, JobInv
<1>3. \A i \in 1..m : frozen'[i] = frozen[i]
    BY <1>2
<1>4. \A f \in LastRange' : \E g \in LastRange : f.lo = g.lo
    BY <1>1
<1> QED
    BY <1>1, <1>3, <1>4, ClearOn DEF Clear

\* What the segment work's own state says is left alone by the writer.
LEMMA WriterLeaves ==
    ASSUME KeysInv, phase' = "up", UNCHANGED <<segs, merges>>
    PROVE  InsideInv' /\ LeftInv' /\ CoverInv'
BY DEF KeysInv, InsideInv, LeftInv, CoverInv

\* A table joins the queue, and the writer begins another.
LEMMA QueueGrown ==
    ASSUME ShapeInv, KeysInv, ShapeInv', phase = "up", phase' = "up", UNCHANGED <<segs, merges>>,
           NEW j \in Job, frozen' = Append(frozen, j), run' = 0, mem'.ord = FALSE,
           maxKey <= maxKey', nextSeg <= nextSeg', j.tmp < nextSeg',
           \A k \in LogKeys(mem'.log) : k <= maxKey', \A k \in LogKeys(j.log) : k <= maxKey',
           j.tmp # 0 => /\ j.id = j.tmp /\ j.fences = LastRange
                        /\ Clear(Len(frozen), LogKeys(j.log)),
           \A t \in tmps' : /\ t \in tmps \/ t.id = j.tmp
                            /\ t.id = j.tmp => Clear(Len(frozen), LogKeys(t.recs))
                            /\ t.id = run => j.tmp = run
    PROVE  KeysInv'
<1>1. InsideInv' /\ LeftInv' /\ CoverInv'
    BY WriterLeaves
<1>2. /\ frozen \in Seq(Job) /\ Len(frozen) \in Nat /\ DOMAIN frozen = 1..Len(frozen)
      /\ DOMAIN frozen' = 1..(Len(frozen) + 1) /\ Len(frozen') = Len(frozen) + 1
      /\ \A i \in 1..Len(frozen) : frozen'[i] = frozen[i]
      /\ frozen'[Len(frozen) + 1] = j
    BY DEF ShapeInv, JobInv
<1>3. \A i \in DOMAIN frozen' : i \in DOMAIN frozen \/ i = Len(frozen) + 1
    BY <1>2
<1>4. maxKey \in Nat /\ maxKey' \in Nat /\ nextSeg \in Nat /\ nextSeg' \in Nat /\ j.tmp \in Nat
    BY DEF ShapeInv, WriterInv, LogInv, Job
<1>5. GreatestInv /\ RunInv /\ \A t \in tmps : FileInv(t)
    BY DEF KeysInv, UpInv
<1>6. GreatestInv'
    <2>1. \A k \in SegKeys(segs') : k <= maxKey'
        <3> TAKE k \in SegKeys(segs')
        <3>1. k <= maxKey /\ k \in Nat
            BY <1>5, KeysAre DEF GreatestInv
        <3> QED
            BY <1>4, <3>1
    <2>2. ASSUME NEW i \in DOMAIN frozen', NEW k \in LogKeys(frozen'[i].log) PROVE k <= maxKey'
        <3>1. CASE i = Len(frozen) + 1
            BY <1>2, <2>2, <3>1
        <3>2. CASE i \in DOMAIN frozen
            <4>1. frozen'[i] = frozen[i] /\ frozen[i] \in Job
                BY <1>2, <3>2
            <4>2. k <= maxKey
                BY <1>5, <2>2, <3>2, <4>1 DEF GreatestInv
            <4>3. frozen[i].log \in Seq(Write)
                BY <4>1 DEF Job
            <4>4. k \in Nat
                BY <2>2, <4>1, <4>3, KeysAre
            <4> QED
                BY <1>4, <4>2, <4>4
        <3> QED
            BY <1>3, <3>1, <3>2
    <2> QED
        BY <2>1, <2>2 DEF GreatestInv
<1>7. RunInv'
    BY DEF RunInv
<1>8. ASSUME NEW t \in tmps' PROVE FileInv(t)'
    <2>1. t \in Run /\ t.id # 0 /\ t.recs \in Seq(Write)
        BY DEF ShapeInv, LogInv, Run
    <2>2. LogKeys(t.recs) \in SUBSET Nat
        BY <2>1, KeysAre
    <2>3. t.id # run'
        BY <2>1
    <2>4. ASSUME NEW i \in DOMAIN frozen', frozen'[i].tmp = t.id
          PROVE  Clear(i - 1, LogKeys(t.recs))'
        <3>1. \E n \in Nat : i - 1 <= n /\ n <= Len(frozen) /\ Clear(n, LogKeys(t.recs))
            <4>1. CASE i = Len(frozen) + 1
                BY <1>2, <2>4, <4>1
            <4>2. CASE i \in DOMAIN frozen
                <5>1. frozen[i].tmp = t.id /\ i - 1 \in Nat /\ i - 1 <= Len(frozen)
                    BY <1>2, <2>4, <4>2
                <5>2. CASE t \in tmps
                    <6>1. Clear(i - 1, LogKeys(t.recs))
                        BY <1>5, <4>2, <5>1, <5>2 DEF FileInv
                    <6> QED
                        BY <5>1, <6>1
                <5>3. CASE t.id = j.tmp
                    <6>1. Clear(Len(frozen), LogKeys(t.recs))
                        BY <5>3
                    <6> QED
                        BY <1>2, <5>1, <6>1
                <5> QED
                    BY <5>2, <5>3
            <4> QED
                BY <1>3, <4>1, <4>2
        <3>2. i - 1 \in Nat
            BY <1>2
        <3>3. ClearOf(SegKeys(segs'), LastRange', frozen', i - 1, LogKeys(t.recs))
            BY <1>2, <2>2, <3>1, <3>2, ClearStill
        <3> QED
            BY <3>3 DEF Clear
    <2>5. ASSUME t \in LandedTmps' PROVE \E s \in segs' : s.id = t.id
        <3>1. \A i \in DOMAIN frozen' : frozen'[i].tmp # t.id
            BY <2>5 DEF LandedTmps
        <3>2. j.tmp # t.id /\ \A i \in DOMAIN frozen : frozen[i].tmp # t.id
            BY <1>2, <3>1
        <3>3. t \in tmps /\ t.id # run
            BY <3>2
        <3>4. t \in LandedTmps
            BY <3>2, <3>3 DEF LandedTmps
        <3> QED
            BY <1>5, <3>3, <3>4 DEF FileInv
    <2> QED
        BY <2>3, <2>4, <2>5 DEF FileInv
<1>9. SealedInv'
    <2> SUFFICES ASSUME NEW i \in DOMAIN frozen'
                 PROVE  /\ frozen'[i].tmp < nextSeg'
                        /\ frozen'[i].tmp # 0 =>
                              /\ frozen'[i].id = frozen'[i].tmp /\ frozen'[i].tmp # run'
                              /\ \A g \in frozen'[i].fences : \A k \in LogKeys(frozen'[i].log) : g.lo <= k
        BY DEF SealedInv
    <2>1. CASE i = Len(frozen) + 1
        <3>1. frozen'[i] = j
            BY <1>2, <2>1
        <3> QED
            BY <3>1 DEF Clear, ClearOf
    <2>2. CASE i \in DOMAIN frozen
        <3>1. frozen'[i] = frozen[i] /\ frozen[i] \in Job
            BY <1>2, <2>2
        <3>2. frozen[i].tmp \in Nat
            BY <3>1 DEF Job
        <3> QED
            BY <1>4, <2>2, <3>1, <3>2 DEF KeysInv, SealedInv
    <2> QED
        BY <1>3, <2>1, <2>2
<1> QED
    BY <1>1, <1>6, <1>7, <1>8, <1>9 DEF KeysInv, UpInv

\* What ShapeInv says of the types.
LEMMA Basics ==
    ASSUME ShapeInv
    PROVE  /\ mem.log \in Seq(Write) /\ mem.ord \in BOOLEAN
           /\ mem = [ord |-> mem.ord, log |-> mem.log]
           /\ run \in Nat /\ (run # 0 => mem.ord) /\ maxKey \in Nat /\ covered \in Nat
           /\ nextSeg \in Nat /\ nextSeg # 0 /\ hist \in Seq(Write) /\ wal \in Seq(Write)
           /\ phase = "up" => run < nextSeg /\ \A t \in tmps : t.id < nextSeg
           /\ \A t \in tmps : t.id \in Nat /\ t.id # 0 /\ t.recs \in Seq(Write) /\ t.dur \in Nat
           /\ frozen \in Seq(Job) /\ Len(frozen) \in Nat /\ DOMAIN frozen = 1..Len(frozen)
           /\ \A i \in DOMAIN frozen :
                 /\ frozen[i] \in Job /\ frozen[i].log \in Seq(Write)
                 /\ frozen[i].tmp \in Nat /\ frozen[i].seq \in Nat /\ frozen[i].fences \subseteq Fence
<1>1. WriterInv /\ LogInv /\ JobInv
    BY DEF ShapeInv
<1>2. mem \in Table /\ run \in Nat /\ (run # 0 => mem.ord) /\ maxKey \in Nat /\ hist \in Seq(Write)
    BY <1>1 DEF WriterInv
<1>3. mem.log \in Seq(Write) /\ mem.ord \in BOOLEAN /\ mem = [ord |-> mem.ord, log |-> mem.log]
    BY <1>2 DEF Table
<1>4. /\ nextSeg \in Nat /\ nextSeg # 0 /\ tmps \subseteq Run /\ covered \in Nat /\ wal \in Seq(Write)
      /\ phase = "up" => run < nextSeg /\ \A t \in tmps : t.id < nextSeg
    BY <1>1 DEF LogInv
<1>5. \A t \in Run : t.id \in Nat /\ t.id # 0 /\ t.recs \in Seq(Write) /\ t.dur \in Nat
    BY DEF Run
<1>6. frozen \in Seq(Job) /\ Len(frozen) \in Nat /\ DOMAIN frozen = 1..Len(frozen)
    BY <1>1 DEF JobInv
<1>7. \A j \in Job : j.log \in Seq(Write) /\ j.tmp \in Nat /\ j.seq \in Nat /\ j.fences \subseteq Fence
    BY DEF Job
<1>8. \A i \in DOMAIN frozen : frozen[i] \in Job
    BY <1>6
<1> QED
    BY <1>2, <1>3, <1>4, <1>5, <1>6, <1>7, <1>8

\* The keys of what is staged, and of what is committed, of a log.
LEMMA SplitKeys ==
    ASSUME NEW ws \in Seq(Write)
    PROVE  /\ LogKeys(Staged(ws)) \subseteq LogKeys(ws)
           /\ LogKeys(Committed(ws)) \subseteq LogKeys(ws)
<1>1. ASSUME NEW u \in Seq(Write), Range(u) \subseteq Range(ws) PROVE LogKeys(u) \subseteq LogKeys(ws)
    BY <1>1 DEF LogKeys, Range
<1> QED
    BY <1>1, StagedOf

LEMMA JoinedKeys ==
    ASSUME NEW ws \in Seq(Write), NEW us \in Seq(Write)
    PROVE  LogKeys(ws \o us) = LogKeys(ws) \cup LogKeys(us)
<1>1. \A u \in Seq(Write) : LogKeys(u) = {w.k : w \in Range(u)}
    BY DEF LogKeys, Range
<1>2. ws \o us \in Seq(Write) /\ Range(ws \o us) = Range(ws) \cup Range(us)
    BY ConcatRange
<1>3. LogKeys(ws \o us) = {w.k : w \in Range(ws \o us)}
    BY <1>1, <1>2
<1>4. LogKeys(ws) = {w.k : w \in Range(ws)} /\ LogKeys(us) = {w.k : w \in Range(us)}
    BY <1>1
<1> QED
    BY <1>2, <1>3, <1>4

\* Fewer keys are clear of what more are.
LEMMA ClearFewer ==
    ASSUME NEW n, NEW B, Clear(n, B), NEW A \in SUBSET B PROVE Clear(n, A)
BY DEF Clear, ClearOf

\* A write through the log.
LEMMA KeysHashed ==
    ASSUME ShapeInv, KeysInv, ShapeInv', phase = "up",
           UNCHANGED <<phase, segs, merges, tmps, nextSeg>>,
           NEW ws \in Seq(Write), Hashed(ws), maxKey <= maxKey',
           \A k \in LogKeys(ws) : k <= maxKey'
    PROVE  KeysInv'
<1>1. /\ mem.log \in Seq(Write) /\ mem.ord \in BOOLEAN /\ run \in Nat /\ (~mem.ord => run = 0)
      /\ maxKey \in Nat /\ maxKey' \in Nat /\ nextSeg \in Nat /\ run < nextSeg
      /\ \A t \in tmps : t.id # 0
    BY Basics DEF ShapeInv, WriterInv
<1>2. GreatestInv /\ RunInv /\ \A t \in tmps : FileInv(t)
    BY DEF KeysInv, UpInv
<1>3. \A k \in LogKeys(mem.log) : k <= maxKey /\ k \in Nat
    BY <1>1, <1>2, KeysAre DEF GreatestInv
<1>4. ASSUME NEW us \in Seq(Write), LogKeys(us) \subseteq LogKeys(mem.log), mem'.log = us \o ws
      PROVE  \A k \in LogKeys(mem'.log) : k <= maxKey'
    <2> TAKE k \in LogKeys(mem'.log)
    <2>1. CASE k \in LogKeys(ws)
        BY <2>1
    <2>2. CASE k \in LogKeys(mem.log)
        BY <1>1, <1>3, <2>2
    <2> QED
        BY <1>4, <2>1, <2>2, JoinedKeys
<1>5. ASSUME UNCHANGED <<run, frozen>>, mem'.ord = FALSE, \A k \in LogKeys(mem'.log) : k <= maxKey'
      PROVE  KeysInv'
    <2>1. InsideInv' /\ LeftInv' /\ CoverInv'
        BY WriterLeaves
    <2>2. SealedInv'
        BY <1>5 DEF KeysInv, SealedInv
    <2>3. RunInv'
        BY <1>5 DEF RunInv
    <2>4. \A t \in tmps' : FileInv(t)'
        BY <1>2, <1>5 DEF FileInv, Clear, LastRange, LandedTmps
    <2>5. GreatestInv'
        <3>1. \A k \in SegKeys(segs') : k <= maxKey'
            <4> TAKE k \in SegKeys(segs')
            <4>1. k <= maxKey /\ k \in Nat
                BY <1>2, KeysAre DEF GreatestInv
            <4> QED
                BY <1>1, <4>1
        <3>2. ASSUME NEW i \in DOMAIN frozen', NEW k \in LogKeys(frozen'[i].log) PROVE k <= maxKey'
            <4>1. frozen'[i] = frozen[i] /\ i \in DOMAIN frozen /\ frozen \in Seq(Job)
                BY <1>5 DEF ShapeInv, JobInv
            <4>2. frozen[i] \in Job
                BY <4>1
            <4>3. frozen[i].log \in Seq(Write)
                BY <4>2 DEF Job
            <4>4. k <= maxKey /\ k \in Nat
                BY <1>2, <3>2, <4>1, <4>3, KeysAre DEF GreatestInv
            <4> QED
                BY <1>1, <4>4
        <3> QED
            BY <1>5, <3>1, <3>2 DEF GreatestInv
    <2> QED
        BY <2>1, <2>2, <2>3, <2>4, <2>5 DEF KeysInv, UpInv
<1>6. CASE ~mem.ord /\ UNCHANGED <<run, frozen>> /\ mem' = [mem EXCEPT !.log = @ \o ws]
    <2>1. mem'.ord = FALSE /\ mem'.log = mem.log \o ws
        BY <1>1, <1>6 DEF ShapeInv, WriterInv, Table
    <2> QED
        BY <1>1, <1>4, <1>5, <1>6, <2>1
<1>7. CASE /\ mem.ord
           /\ mem' = [ord |-> FALSE, log |-> Staged(mem.log) \o ws]
           /\ IF run = 0 THEN UNCHANGED <<run, frozen>>
              ELSE CloseRun(run, Committed(mem.log))
    <2>1. /\ Staged(mem.log) \in Seq(Write) /\ LogKeys(Staged(mem.log)) \subseteq LogKeys(mem.log)
          /\ Committed(mem.log) \in Seq(Write) /\ LogKeys(Committed(mem.log)) \subseteq LogKeys(mem.log)
        BY <1>1, StagedOf, SplitKeys
    <2>2. mem'.ord = FALSE /\ \A k \in LogKeys(mem'.log) : k <= maxKey'
        BY <1>4, <1>7, <2>1
    <2>3. CASE run = 0
        BY <1>5, <1>7, <2>2, <2>3
    <2>4. CASE run # 0
        <3>1. PICK first \in BOOLEAN : frozen' = Append(frozen, RunJob(run, Committed(mem.log), first))
            BY <1>7, <2>4 DEF CloseRun
        <3> DEFINE j == RunJob(run, Committed(mem.log), first)
        <3>2. /\ j.tmp = run /\ j.id = run /\ j.fences = LastRange /\ j.log = Committed(mem.log)
              /\ run' = 0
            BY <1>7, <2>4 DEF RunJob, CloseRun
        <3>3. j \in Job
            <4>1. Seq0 \in Nat
                BY DEF ShapeInv, LogInv, Seq0
            <4>2. LastRange \subseteq Fence
                BY LiveFences DEF ShapeInv
            <4> QED
                BY <1>1, <2>1, <4>1, <4>2 DEF RunJob, Job
        <3>4. frozen' = Append(frozen, j)
            BY <3>1
        <3> HIDE DEF j
        <3>5. Clear(Len(frozen), LogKeys(mem.log))
            BY <1>2, <1>7 DEF RunInv
        <3>6. Clear(Len(frozen), LogKeys(j.log))
            BY <2>1, <3>2, <3>5, ClearFewer
        <3>7. \A k \in LogKeys(j.log) : k <= maxKey'
            BY <1>1, <1>3, <2>1, <3>2
        <3>8. \A t \in tmps' : /\ t \in tmps \/ t.id = j.tmp
                               /\ t.id = j.tmp => Clear(Len(frozen), LogKeys(t.recs))
                               /\ t.id = run => j.tmp = run
            BY <1>2, <3>2 DEF FileInv
        <3>9. j.tmp < nextSeg' /\ nextSeg <= nextSeg' /\ phase' = "up"
            BY <1>1, <3>2
        <3> QED
            BY <2>2, <3>2, <3>3, <3>4, <3>6, <3>7, <3>8, <3>9, QueueGrown
    <2> QED
        BY <2>3, <2>4
<1> QED
    BY <1>6, <1>7 DEF Hashed

\* The writer's writes, where none is a call that a passing run leaves out.
LEMMA KeysWrites ==
    ASSUME Loose = {}, ShapeInv, KeysInv, ShapeInv', Writes PROVE KeysInv'
<1>1. /\ phase = "up" /\ UNCHANGED <<phase, com, segs, merges, tmps, nextSeg>>
    BY DEF Writes, log, shape
<1>2. PICK k \in Key : \/ Direct(k)
                       \/ \E inline \in BOOLEAN : Append1(k, inline)
                       \/ Put(k)
                       \/ Delete(k)
    BY DEF Writes
<1>3. /\ mem.log \in Seq(Write) /\ mem.ord \in BOOLEAN /\ maxKey \in Nat /\ k \in Nat
      /\ Len(hist) \in Nat /\ com \in Nat /\ com <= Len(hist)
    BY Basics DEF Key, ShapeInv, WriterInv
<1>4. /\ Next1(k, FALSE) \in Write /\ Next1(k, TRUE) \in Write
      /\ Next1(k, FALSE).k = k /\ Next1(k, TRUE).k = k /\ Next1(k, FALSE).n = Len(hist) + 1
    BY <1>3 DEF Next1, Write
<1>5. GreatestInv /\ RunInv /\ \A t \in tmps : FileInv(t)
    BY <1>1 DEF KeysInv, UpInv
<1>6. maxKey <= Raised(k) /\ k <= Raised(k)
    BY <1>3 DEF Raised
<1>7. \A w \in Write : <<w>> \in Seq(Write) /\ LogKeys(<<w>>) = {w.k}
    BY DEF LogKeys
<1>8. CASE Direct(k)
    <2> DEFINE w == Next1(k, FALSE)
    <2>1. /\ mem' = [ord |-> TRUE, log |-> Append(mem.log, w)] /\ maxKey' = k
          /\ UNCHANGED <<run, frozen>> /\ (mem.ord \/ mem.log = <<>>) /\ k > maxKey
          /\ \A f \in LastRange : f.lo <= k
        BY <1>8 DEF Direct, GoesDirect
    <2>2. w \in Write /\ w.k = k /\ w.n = Len(hist) + 1
        BY <1>4
    <2> HIDE DEF w
    <2>3. /\ mem'.ord /\ mem'.log = Append(mem.log, w) /\ Append(mem.log, w) = mem.log \o <<w>>
        <3>1. mem'.ord /\ mem'.log = Append(mem.log, w)
            BY <2>1
        <3>2. Append(mem.log, w) = mem.log \o <<w>>
            BY <1>3, <2>2
        <3> QED
            BY <3>1, <3>2
    <2>4. LogKeys(mem'.log) = LogKeys(mem.log) \cup {k}
        <3>1. <<w>> \in Seq(Write) /\ LogKeys(<<w>>) = {k}
            BY <1>7, <2>2
        <3>2. LogKeys(mem.log \o <<w>>) = LogKeys(mem.log) \cup LogKeys(<<w>>)
            BY <1>3, <3>1, JoinedKeys
        <3> QED
            BY <2>3, <3>1, <3>2
    <2>5. /\ \A a \in SegKeys(segs) : a <= maxKey /\ a \in Nat
          /\ \A a \in LogKeys(mem.log) : a <= maxKey /\ a \in Nat
          /\ \A i \in DOMAIN frozen : \A a \in LogKeys(frozen[i].log) : a <= maxKey /\ a \in Nat
        BY <1>3, <1>5, KeysAre, Basics DEF GreatestInv
    <2>6. InsideInv' /\ LeftInv' /\ CoverInv'
        BY <1>1, WriterLeaves
    <2>7. SealedInv'
        BY <1>1, <2>1 DEF KeysInv, SealedInv
    <2>8. \A t \in tmps' : FileInv(t)'
        BY <1>1, <1>5, <2>1 DEF FileInv, Clear, LastRange, LandedTmps
    <2>9. GreatestInv'
        <3>1. \A a \in Nat : a <= maxKey => a <= k
            BY <1>3, <2>1
        <3>2. \A a \in LogKeys(mem'.log) : a <= k
            BY <1>3, <2>4, <2>5, <3>1
        <3> QED
            BY <1>1, <2>1, <2>5, <3>1, <3>2 DEF GreatestInv
    <2>10. Clear(Len(frozen), LogKeys(mem'.log))
        <3>1. CASE mem.ord
            <4>1. Clear(Len(frozen), LogKeys(mem.log))
                BY <1>5, <3>1 DEF RunInv
            <4>2. Clear(Len(frozen), {k})
                <5>1. DOMAIN frozen = 1..Len(frozen)
                    BY Basics
                <5>2. \A a \in Nat : a <= maxKey => a < k
                    BY <1>3, <2>1
                <5> QED
                    BY <2>1, <2>5, <5>1, <5>2 DEF Clear, ClearOf
            <4> QED
                BY <2>4, <4>1, <4>2 DEF Clear, ClearOf
        <3>2. CASE mem.log = <<>>
            <4>1. LogKeys(mem'.log) = {k}
                BY <2>4, <3>2 DEF LogKeys
            <4>2. DOMAIN frozen = 1..Len(frozen)
                BY Basics
            <4>3. \A a \in Nat : a <= maxKey => a < k
                BY <1>3, <2>1
            <4> QED
                BY <2>1, <2>5, <4>1, <4>2, <4>3 DEF Clear, ClearOf
        <3> QED
            BY <2>1, <3>1, <3>2
    <2>11. RunInv'
        <3>1. Clear(Len(frozen), LogKeys(mem.log))'
            BY <1>1, <2>1, <2>10 DEF Clear, LastRange
        <3>2. \E i \in DOMAIN mem'.log : mem'.log[i].n > com'
            <4>1. Len(mem.log) + 1 \in DOMAIN mem'.log /\ mem'.log[Len(mem.log) + 1] = w
                BY <1>3, <2>2, <2>3
            <4> QED
                BY <1>1, <1>3, <2>2, <4>1
        <3> QED
            BY <3>1, <3>2 DEF RunInv
    <2> QED
        BY <2>6, <2>7, <2>8, <2>9, <2>11 DEF KeysInv, UpInv
<1>9. ASSUME NEW inline \in BOOLEAN, Append1(k, inline) PROVE KeysInv'
    <2>1. Hashed(<<Next1(k, FALSE)>>) /\ maxKey' = Raised(k)
        BY <1>9 DEF Append1
    <2> QED
        BY <1>1, <1>4, <1>6, <1>7, <2>1, KeysHashed
<1>10. CASE Put(k)
    <2> DEFINE t == Next1(k, TRUE)
               w == [n |-> t.n + 1, k |-> k, del |-> FALSE]
    <2>1. Hashed(<<t, w>>) /\ maxKey' = Raised(k)
        BY <1>10 DEF Put
    <2>2. t \in Write /\ w \in Write /\ t.k = k /\ w.k = k
        BY <1>3, <1>4 DEF Next1, Write
    <2> HIDE DEF t, w
    <2>3. <<t, w>> \in Seq(Write) /\ LogKeys(<<t, w>>) \subseteq {k}
        BY <2>2 DEF LogKeys
    <2> QED
        BY <1>1, <1>6, <2>1, <2>3, KeysHashed
<1>11. CASE Delete(k)
    <2> DEFINE ws == <<Next1(k, TRUE)>>
    <2>1. Hashed(ws) /\ maxKey' = maxKey /\ k <= maxKey
        BY <1>11 DEF Delete
    <2>2. ws \in Seq(Write) /\ LogKeys(ws) = {k}
        BY <1>4, <1>7
    <2> HIDE DEF ws
    <2>3. maxKey <= maxKey' /\ \A a \in LogKeys(ws) : a <= maxKey'
        BY <1>3, <2>1, <2>2
    <2> QED
        BY <1>1, <2>1, <2>2, <2>3, KeysHashed
<1> QED
    BY <1>2, <1>8, <1>9, <1>10, <1>11

\* A table committed into a run's file is clear as it was.
LEMMA KeysCommitDirect ==
    ASSUME ShapeInv, KeysInv, phase = "up", mem.ord, CommitDirect
    PROVE  /\ RunId \in Nat /\ RunId # 0 /\ RunId < nextSeg' /\ nextSeg <= nextSeg' /\ nextSeg' \in Nat
           /\ \A t \in tmps' : \/ t \in tmps /\ t.id # run /\ t.id # RunId
                               \/ t.id = RunId /\ t.recs = mem.log
           /\ \A i \in DOMAIN frozen : frozen[i].tmp # RunId
           /\ Clear(Len(frozen), LogKeys(mem.log))
<1>1. /\ run \in Nat /\ nextSeg \in Nat /\ nextSeg # 0 /\ run < nextSeg
      /\ \A t \in tmps : t.id \in Nat /\ t.id # 0 /\ t.id < nextSeg
      /\ \A i \in DOMAIN frozen : frozen[i].tmp \in Nat
    BY Basics
<1> DEFINE old == {t \in tmps : t.id = run}
           dur == IF Due(unsynced + 1) THEN Len(mem.log)
                  ELSE Max({0} \cup {t.dur : t \in old})
           new == [id |-> RunId, recs |-> mem.log, dur |-> dur]
<1>2. /\ tmps' = (tmps \ old) \cup {new} /\ nextSeg' = IF run = 0 THEN nextSeg + 1 ELSE nextSeg
    BY DEF CommitDirect
<1>3. RunId = IF run = 0 THEN nextSeg ELSE run
    BY DEF RunId
<1>4. new.id = RunId /\ new.recs = mem.log
    OBVIOUS
<1> HIDE DEF new
<1>5. RunId \in Nat /\ RunId # 0 /\ RunId < nextSeg' /\ nextSeg <= nextSeg' /\ nextSeg' \in Nat
    BY <1>1, <1>2, <1>3
<1>6. \A t \in tmps : t.id # run => t.id # RunId
    BY <1>1, <1>3
<1>7. ASSUME NEW i \in DOMAIN frozen PROVE frozen[i].tmp # RunId
    <2>1. frozen[i].tmp < nextSeg /\ (frozen[i].tmp # 0 => frozen[i].tmp # run)
        BY DEF KeysInv, SealedInv
    <2> QED
        BY <1>1, <1>3, <2>1
<1>8. Clear(Len(frozen), LogKeys(mem.log))
    BY DEF KeysInv, UpInv, RunInv
<1> QED
    BY <1>2, <1>4, <1>5, <1>6, <1>7, <1>8

\* A commit moves no key but into the run's file.
LEMMA KeysCommitted ==
    ASSUME ShapeInv, KeysInv, ShapeInv', phase = "up",
           UNCHANGED <<phase, mem, maxKey, frozen, segs, merges>>,
           \/ mem.ord /\ CommitDirect /\ run' = RunId
           \/ UNCHANGED <<tmps, nextSeg, com, run>>
           \/ ~mem.ord /\ UNCHANGED <<tmps, nextSeg, run>>
    PROVE  KeysInv'
<1>1. GreatestInv /\ RunInv /\ \A t \in tmps : FileInv(t)
    BY DEF KeysInv, UpInv
<1>2. InsideInv' /\ LeftInv' /\ CoverInv'
    BY WriterLeaves
<1>3. GreatestInv'
    BY <1>1 DEF GreatestInv
<1>4. LastRange' = LastRange /\ \A n, B : ClearOf(SegKeys(segs'), LastRange', frozen', n, B) <=> Clear(n, B)
    BY DEF LastRange, Clear
<1>5. CASE UNCHANGED <<tmps, nextSeg, run>> /\ (~mem.ord \/ com' = com)
    <2>1. SealedInv'
        BY <1>5 DEF KeysInv, SealedInv
    <2>2. \A t \in tmps' : FileInv(t)'
        BY <1>1, <1>5 DEF FileInv, Clear, LastRange, LandedTmps
    <2>3. RunInv'
        BY <1>1, <1>5 DEF RunInv, Clear, LastRange
    <2> QED
        BY <1>2, <1>3, <2>1, <2>2, <2>3 DEF KeysInv, UpInv
<1>6. CASE mem.ord /\ CommitDirect /\ run' = RunId
    <2>1. /\ RunId \in Nat /\ RunId # 0 /\ RunId < nextSeg' /\ nextSeg <= nextSeg' /\ nextSeg' \in Nat
          /\ \A t \in tmps' : \/ t \in tmps /\ t.id # run /\ t.id # RunId
                              \/ t.id = RunId /\ t.recs = mem.log
          /\ \A i \in DOMAIN frozen : frozen[i].tmp # RunId
          /\ Clear(Len(frozen), LogKeys(mem.log))
        BY <1>6, KeysCommitDirect
    <2>2. SealedInv'
        <3>1. \A i \in DOMAIN frozen : frozen[i].tmp < nextSeg'
            <4> TAKE i \in DOMAIN frozen
            <4>1. frozen[i].tmp < nextSeg /\ frozen[i].tmp \in Nat /\ nextSeg \in Nat
                BY Basics DEF KeysInv, SealedInv
            <4> QED
                BY <2>1, <4>1
        <3> QED
            BY <1>6, <2>1, <3>1 DEF KeysInv, SealedInv
    <2>3. RunInv'
        BY <1>4, <1>6, <2>1 DEF RunInv, Clear
    <2>4. ASSUME NEW t \in tmps' PROVE FileInv(t)'
        <3>1. CASE t.id = RunId /\ t.recs = mem.log
            <4>1. Clear(Len(frozen), LogKeys(t.recs))
                BY <2>1, <3>1
            <4>2. Clear(Len(frozen), LogKeys(t.recs))'
                BY <1>4, <4>1 DEF Clear
            <4>3. t \notin LandedTmps'
                BY <1>6, <3>1 DEF LandedTmps
            <4> QED
                BY <1>6, <2>1, <3>1, <4>2, <4>3 DEF FileInv
        <3>2. CASE t \in tmps /\ t.id # run /\ t.id # RunId
            <4>1. ASSUME NEW i \in DOMAIN frozen', frozen'[i].tmp = t.id
                  PROVE  Clear(i - 1, LogKeys(t.recs))'
                <5>1. Clear(i - 1, LogKeys(t.recs))
                    BY <1>1, <3>2, <4>1 DEF FileInv
                <5> QED
                    BY <1>4, <5>1 DEF Clear
            <4>2. t \in LandedTmps' => t \in LandedTmps
                BY <3>2 DEF LandedTmps
            <4> QED
                BY <1>1, <1>6, <3>2, <4>1, <4>2 DEF FileInv
        <3> QED
            BY <2>1, <3>1, <3>2
    <2> QED
        BY <1>2, <1>3, <2>2, <2>3, <2>4 DEF KeysInv, UpInv
<1> QED
    BY <1>5, <1>6

LEMMA KeysCommit ==
    ASSUME ShapeInv, KeysInv, ShapeInv', Commit \/ Sync PROVE KeysInv'
<1>1. phase = "up" /\ UNCHANGED <<phase, mem, maxKey, frozen, segs, merges>>
    BY DEF Commit, Sync, shape
<1>2. \/ mem.ord /\ CommitDirect /\ run' = RunId
      \/ UNCHANGED <<tmps, nextSeg, com, run>>
      \/ ~mem.ord /\ UNCHANGED <<tmps, nextSeg, run>>
    BY DEF Commit, Sync, CommitLog
<1> QED
    BY <1>1, <1>2, KeysCommitted

\* Nothing is staged of a log that has no write past the commits.
LEMMA StagedEmpty ==
    ASSUME NEW ws \in Seq(Write)
    PROVE  Staged(ws) = <<>> <=> \A i \in DOMAIN ws : ~(ws[i].n > com)
<1> DEFINE I == {i \in DOMAIN ws : ws[i].n > com}
<1>1. Subsequence(ws, I) = <<>> <=> I = {}
    <2>1. I \in SUBSET DOMAIN ws
        OBVIOUS
    <2> HIDE DEF I
    <2> QED
        BY <2>1, SubsequenceEmpty
<1> QED
    BY <1>1 DEF Staged

LEMMA KeysSealRun ==
    ASSUME ShapeInv, KeysInv, ShapeInv', SealRun PROVE KeysInv'
<1>1. /\ phase = "up" /\ phase' = "up" /\ mem.ord /\ UNCHANGED <<maxKey, segs, merges>>
      /\ CloseRun(RunId, mem.log) /\ mem' = [ord |-> FALSE, log |-> <<>>]
    BY DEF SealRun, shape
<1>2. GreatestInv /\ RunInv /\ \A t \in tmps : FileInv(t)
    BY <1>1 DEF KeysInv, UpInv
<1>3. Clear(Len(frozen), LogKeys(mem.log))
    BY <1>1, <1>2 DEF RunInv
<1>4. /\ RunId \in Nat /\ RunId < nextSeg' /\ nextSeg <= nextSeg'
      /\ \A t \in tmps' : /\ t \in tmps \/ t.id = RunId
                          /\ t.id = RunId => Clear(Len(frozen), LogKeys(t.recs))
                          /\ t.id = run => RunId = run
    <2>1. CASE CommitDirect
        BY <1>1, <1>3, <2>1, KeysCommitDirect
    <2>2. CASE Staged(mem.log) = <<>> /\ UNCHANGED <<tmps, nextSeg>>
        <3>1. run # 0
            BY <1>1, <1>2, <2>2, StagedEmpty, Basics DEF RunInv
        <3>2. RunId = run
            BY <3>1 DEF RunId
        <3>3. run < nextSeg /\ run \in Nat /\ nextSeg \in Nat
            BY <1>1, Basics
        <3>4. \A t \in tmps : t.id = run => Clear(Len(frozen), LogKeys(t.recs))
            BY <1>2 DEF FileInv
        <3>5. nextSeg <= nextSeg' /\ run < nextSeg'
            BY <2>2, <3>3
        <3> QED
            BY <2>2, <3>2, <3>3, <3>4, <3>5
    <2> QED
        BY <2>1, <2>2 DEF SealRun
<1>5. PICK first \in BOOLEAN : frozen' = Append(frozen, RunJob(RunId, mem.log, first))
    BY <1>1 DEF CloseRun
<1> DEFINE j == RunJob(RunId, mem.log, first)
<1>6. /\ j.tmp = RunId /\ j.id = RunId /\ j.fences = LastRange /\ j.log = mem.log /\ run' = 0
    BY <1>1 DEF RunJob, CloseRun
<1>7. j \in Job
    <2>1. Seq0 \in Nat
        BY DEF ShapeInv, LogInv, Seq0
    <2>2. LastRange \subseteq Fence
        BY LiveFences DEF ShapeInv
    <2>3. mem.log \in Seq(Write)
        BY Basics
    <2> QED
        BY <1>4, <2>1, <2>2, <2>3 DEF RunJob, Job
<1>8. frozen' = Append(frozen, j)
    BY <1>5
<1> HIDE DEF j
<1>9. mem'.ord = FALSE /\ LogKeys(mem'.log) = {}
    BY <1>1 DEF LogKeys
<1>10. maxKey <= maxKey' /\ \A k \in LogKeys(j.log) : k <= maxKey'
    <2>1. maxKey \in Nat
        BY Basics
    <2> QED
        BY <1>1, <1>2, <1>6, <2>1 DEF GreatestInv
<1> QED
    BY <1>1, <1>3, <1>4, <1>6, <1>7, <1>8, <1>9, <1>10, QueueGrown

LEMMA KeysSealTable ==
    ASSUME ShapeInv, KeysInv, ShapeInv', SealTable PROVE KeysInv'
<1> DEFINE fs == Fences(Parts(segs))
<1>1. /\ phase = "up" /\ phase' = "up" /\ ~mem.ord /\ UNCHANGED <<maxKey, run, segs, merges, tmps>>
      /\ nextSeg' = nextSeg + Max({1, Cardinality(fs)})
      /\ mem' = [ord |-> FALSE, log |-> <<>>]
    BY DEF SealTable, shape
<1>2. PICK first \in BOOLEAN :
          frozen' = Append(frozen, [log |-> mem.log, tmp |-> 0, seq |-> covered + Len(wal'),
                                    fences |-> fs, id |-> nextSeg, first |-> first])
    BY DEF SealTable
<1> DEFINE j == [log |-> mem.log, tmp |-> 0, seq |-> covered + Len(wal'),
                 fences |-> fs, id |-> nextSeg, first |-> first]
<1>3. /\ mem.log \in Seq(Write) /\ maxKey \in Nat /\ nextSeg \in Nat /\ covered \in Nat
      /\ run = 0 /\ \A t \in tmps : t.id # 0
    BY <1>1, Basics
<1>4. /\ j.tmp = 0 /\ j.log = mem.log
    OBVIOUS
<1>5. j \in Job
    <2>1. Len(wal') \in Nat
        BY DEF ShapeInv, LogInv
    <2>2. fs \subseteq Fence
        BY LiveFences DEF ShapeInv
    <2> HIDE DEF fs
    <2> QED
        BY <1>3, <2>1, <2>2 DEF Job
<1>6. frozen' = Append(frozen, j)
    BY <1>2
<1> HIDE DEF j
<1>7. nextSeg <= nextSeg' /\ j.tmp < nextSeg'
    <2>1. IsFiniteSet(fs)
        <3>1. fs \subseteq Fence
            BY LiveFences DEF ShapeInv
        <3> HIDE DEF fs
        <3> QED
            BY <3>1, FenceFinite, FS_Subset
    <2>2. Cardinality(fs) \in Nat
        BY <2>1, FS_CardinalityType
    <2> DEFINE n == Cardinality(fs)
    <2> HIDE DEF n
    <2>3. Max({1, n}) = IF 1 >= n THEN 1 ELSE n
        BY <2>2 DEF Max, n
    <2>4. Max({1, n}) \in Nat /\ Max({1, n}) >= 1 /\ nextSeg' = nextSeg + Max({1, n})
        BY <1>1, <2>2, <2>3 DEF n
    <2> QED
        BY <1>3, <1>4, <2>4
<1>8. mem'.ord = FALSE /\ LogKeys(mem'.log) = {}
    BY <1>1 DEF LogKeys
<1>9. GreatestInv
    BY <1>1 DEF KeysInv, UpInv
<1>10. maxKey <= maxKey' /\ \A k \in LogKeys(j.log) : k <= maxKey'
    BY <1>1, <1>3, <1>4, <1>9 DEF GreatestInv
<1>11. \A t \in tmps' : /\ t \in tmps \/ t.id = j.tmp
                        /\ t.id = j.tmp => Clear(Len(frozen), LogKeys(t.recs))
                        /\ t.id = run => j.tmp = run
    BY <1>1, <1>3, <1>4
<1> QED
    BY <1>1, <1>3, <1>4, <1>5, <1>6, <1>7, <1>8, <1>10, <1>11, QueueGrown

-----------------------------------------------------------------------------
(* The keys of what lands.                                                    *)

\* A piece holds what its table has inside its fence, and no other key.
LEMMA PieceKeys ==
    ASSUME NEW f, NEW kind, NEW seq, NEW id, NEW c
    PROVE  LET p == Piece(f, kind, seq, id, c) IN
           Keys(p.c) \subseteq Keys(c) /\ \A k \in Keys(p.c) : f.lo <= k /\ k < f.hi
<1>1. Cut(<<>>) = <<>>
    <2>1. {i \in DOMAIN <<>> : <<>>[i].del} = {}
        OBVIOUS
    <2> QED
        BY <2>1 DEF Cut
<1>2. Piece(f, kind, seq, id, c).c = [k \in Key |-> IF f.lo <= k /\ k < f.hi THEN Cut(c[k]) ELSE <<>>]
    BY DEF Piece
<1> DEFINE d == Piece(f, kind, seq, id, c).c
<1>3. \A k \in Key : d[k] # <<>> => f.lo <= k /\ k < f.hi /\ d[k] = Cut(c[k])
    BY <1>2
<1> HIDE DEF d
<1>4. \A k \in Keys(d) : k \in Key /\ d[k] # <<>>
    BY DEF Keys
<1>5. \A k \in Keys(d) : c[k] # <<>> /\ f.lo <= k /\ k < f.hi
    BY <1>1, <1>3, <1>4
<1> QED
    BY <1>4, <1>5 DEF Keys, d

LEMMA PromotedKeys ==
    ASSUME NEW s, Segment(s), NEW f \in Fence, \A k \in Keys(s.c) : Inside(f, k)
    PROVE  Inner(Promoted(s, f)) /\ Keys(Promoted(s, f).c) = Keys(s.c)
<1>1. Promoted(s, f).c = s.c /\ Promoted(s, f).lo = f.lo /\ Promoted(s, f).hi = f.hi
    BY PromotedShape
<1> QED
    BY <1>1 DEF Inner, Inside

\* A seal lands with the keys of its table, each inside its piece's fence, and a
\* run's under the run's id.
LEMMA LandedKeys ==
    ASSUME NEW j \in Job, j.tmp # 0 => \A g \in j.fences : g.hi = Top, j.first => j.fences = {},
           j.tmp # 0 => \A g \in j.fences : \A k \in LogKeys(j.log) : g.lo <= k
    PROVE  /\ \A p \in LandedSegs(j) : Inner(p) /\ Keys(p.c) \subseteq LogKeys(j.log)
           /\ j.tmp # 0 => \E p \in LandedSegs(j) : p.id = j.id
<1> DEFINE fs == IF j.fences = {} THEN {Whole} ELSE j.fences
           at(f) == Cardinality({g \in fs : g.lo < f.lo})
           kind == IF j.fences = {} THEN "seg" ELSE "pcs"
           ps == IF j.tmp # 0 THEN {RunPiece(j.fences, j.seq, j.id, j.log)}
                 ELSE CutAt(j.fences, j.seq, j.id, Chains(j.log))
           ch == Chains(j.log)
<1>1. j.seq \in Nat /\ j.id \in Nat /\ j.fences \in SUBSET Fence /\ j.log \in Seq(Write)
    BY DEF Job
<1>2. fs \in SUBSET Fence
    BY <1>1, WholeFence
<1>3. Keys(ch) = LogKeys(j.log) /\ Keys(ch) \subseteq Key
    BY <1>1, ChainsKeys DEF LogKeys, Keys
<1> HIDE DEF ch
<1>4. \A k \in Key : k \in Nat /\ 0 <= k /\ k < Top
    BY Numbers DEF Key
<1>5. CASE j.tmp # 0
    <2> DEFINE p == RunPiece(j.fences, j.seq, j.id, j.log)
    <2>1. /\ Segment(p) /\ p.id = j.id /\ p.c = ch /\ p.hi = Top
          /\ p.lo = 0 \/ \E g \in j.fences : p.lo = g.lo
        BY <1>1, <1>5, RunShape DEF ch
    <2>2. ps = {p}
        BY <1>5
    <2> HIDE DEF p
    <2>3. Inner(p) /\ Keys(p.c) = LogKeys(j.log)
        BY <1>3, <1>4, <1>5, <2>1 DEF Inner, Inside
    <2>4. LandedSegs(j) = {p} \/ LandedSegs(j) = {Promoted(p, Whole)}
        BY <1>5, <2>2 DEF LandedSegs, p
    <2>5. /\ Inner(Promoted(p, Whole)) /\ Keys(Promoted(p, Whole).c) = Keys(p.c)
          /\ Promoted(p, Whole).id = p.id
        <3>1. \A k \in Keys(p.c) : Inside(Whole, k)
            BY <1>4, WholeFence DEF Inside, Keys
        <3> QED
            BY <2>1, <3>1, WholeFence, PromotedKeys, PromotedShape
    <2> QED
        BY <2>1, <2>3, <2>4, <2>5
<1>6. CASE j.tmp = 0
    <2>1. \A p \in ps : \E f \in fs : p = Piece(f, kind, j.seq, j.id + at(f), ch)
        BY <1>6 DEF CutAt, ch
    <2>2. ASSUME NEW p \in ps
          PROVE  /\ Inner(p) /\ Keys(p.c) \subseteq LogKeys(j.log)
                 /\ Segment(p)
        <3>1. PICK f \in fs : p = Piece(f, kind, j.seq, j.id + at(f), ch)
            BY <2>1
        <3> DEFINE n == j.id + at(f)
        <3>2. p = Piece(f, kind, j.seq, n, ch) /\ f \in Fence
            BY <1>2, <3>1
        <3>3. n \in Nat
            <4>1. {g \in fs : g.lo < f.lo} \in SUBSET Fence
                BY <1>2
            <4>2. IsFiniteSet({g \in fs : g.lo < f.lo})
                BY <4>1, FenceFinite, FS_Subset
            <4>3. at(f) \in Nat
                BY <4>2, FS_CardinalityType
            <4> HIDE DEF at
            <4> QED
                BY <1>1, <4>3
        <3> HIDE DEF n, fs, kind, ps, at
        <3>4. /\ Keys(p.c) \subseteq Keys(ch) /\ \A k \in Keys(p.c) : f.lo <= k /\ k < f.hi
            BY <3>2, PieceKeys
        <3>5. /\ p.level = 0 /\ p.lo = f.lo /\ p.hi = f.hi /\ p.seq = j.seq /\ p.id = n
              /\ p = [level |-> p.level, lo |-> p.lo, hi |-> p.hi, kind |-> p.kind,
                      seq |-> p.seq, id |-> p.id, c |-> p.c]
            BY <3>2 DEF Piece
        <3>6. Segment(p)
            BY <1>1, <3>2, <3>3, <3>5, FenceShape DEF Segment, Fenced
        <3> QED
            BY <1>3, <3>4, <3>5, <3>6 DEF Inner, Inside
    <2>3. LandedSegs(j) = ps \/ LandedSegs(j) = {Promoted(p, Whole) : p \in ps}
        BY <1>6 DEF LandedSegs
    <2> HIDE DEF ps
    <2>4. ASSUME NEW p \in ps
          PROVE  Inner(Promoted(p, Whole)) /\ Keys(Promoted(p, Whole).c) \subseteq LogKeys(j.log)
        <3>1. \A k \in Keys(p.c) : Inside(Whole, k)
            BY <1>4, WholeFence DEF Inside, Keys
        <3> QED
            BY <2>2, <3>1, WholeFence, PromotedKeys
    <2> QED
        BY <1>6, <2>2, <2>3, <2>4
<1> QED
    BY <1>5, <1>6

LEMMA KeysLandSeal ==
    ASSUME ShapeInv, KeysInv, ShapeInv', LandSeal PROVE KeysInv'
<1> DEFINE j == Head(frozen)
           L == LandedSegs(j)
<1>1. /\ phase = "up" /\ LandedTmps = {} /\ frozen # <<>> /\ segs' = segs \cup L
      /\ frozen' = Tail(frozen) /\ UNCHANGED <<phase, com, mem, maxKey, run, tmps, merges, nextSeg>>
    BY DEF LandSeal, Working
<1>2. /\ frozen \in Seq(Job) /\ Len(frozen) \in Nat /\ Len(frozen) >= 1
      /\ DOMAIN frozen = 1..Len(frozen) /\ j = frozen[1] /\ 1 \in DOMAIN frozen /\ j \in Job
      /\ Len(frozen') = Len(frozen) - 1 /\ DOMAIN frozen' = 1..(Len(frozen) - 1)
      /\ \A i \in 1..(Len(frozen) - 1) : frozen'[i] = frozen[i + 1] /\ i + 1 \in DOMAIN frozen
    BY <1>1 DEF ShapeInv, JobInv
<1> HIDE DEF j
<1>3. /\ j.tmp # 0 => \A g \in j.fences : g.hi = Top
      /\ j.first => j.fences = {} /\ segs = {}
    BY <1>2 DEF ShapeInv, JobInv
<1>4. /\ j.tmp # 0 => j.id = j.tmp
      /\ j.tmp # 0 => \A g \in j.fences : \A k \in LogKeys(j.log) : g.lo <= k
    BY <1>2 DEF KeysInv, SealedInv
<1>5. /\ \A p \in L : Inner(p) /\ Keys(p.c) \subseteq LogKeys(j.log)
      /\ j.tmp # 0 => \E p \in L : p.id = j.id
    BY <1>2, <1>3, <1>4, LandedKeys
<1>6. \/ \A p \in L : p.level = 0
      \/ \A p \in L : p.level = 1 /\ p.lo = 0
    BY <1>2, <1>3, LandedShape
<1> HIDE DEF L
<1>7. SegKeys(segs') \subseteq SegKeys(segs) \cup LogKeys(j.log)
    BY <1>1, <1>5 DEF SegKeys
<1>8. \A f \in LastRange' : f.lo = 0 \/ f \in LastRange
    <2> TAKE f \in LastRange'
    <2>1. PICK p \in segs' : p.level = 1 /\ f = FenceOf(p) /\ f.hi = Top
        BY DEF LastRange, Fences, Parts
    <2>2. CASE p \in L
        BY <1>6, <2>1, <2>2 DEF FenceOf
    <2>3. CASE p \in segs
        BY <2>1, <2>3 DEF LastRange, Fences, Parts
    <2> QED
        BY <1>1, <2>1, <2>2, <2>3
<1>9. GreatestInv /\ RunInv /\ \A t \in tmps : FileInv(t)
    BY <1>1 DEF KeysInv, UpInv
<1>10. ASSUME NEW B \in SUBSET Nat, NEW n \in Nat, n < Len(frozen), Clear(n + 1, B)
       PROVE  ClearOf(SegKeys(segs'), LastRange', frozen', n, B)
    <2>1. /\ \A a \in SegKeys(segs) : \A b \in B : a < b
          /\ \A f \in LastRange : \A b \in B : f.lo <= b
          /\ \A i \in 1..(n + 1) : \A a \in LogKeys(frozen[i].log) : \A b \in B : a < b
        BY <1>10 DEF Clear, ClearOf
    <2>2. 1 \in 1..(n + 1)
        BY <1>10
    <2>3. \A a \in SegKeys(segs') : \A b \in B : a < b
        BY <1>2, <1>7, <2>1, <2>2
    <2>4. \A f \in LastRange' : \A b \in B : f.lo <= b
        BY <1>8, <2>1
    <2>5. ASSUME NEW i \in 1..n PROVE \A a \in LogKeys(frozen'[i].log) : \A b \in B : a < b
        <3>1. frozen'[i] = frozen[i + 1] /\ i + 1 \in 1..(n + 1)
            BY <1>2, <1>10
        <3> QED
            BY <2>1, <3>1
    <2> QED
        BY <2>3, <2>4, <2>5 DEF ClearOf
<1>11. InsideInv' /\ LeftInv' /\ CoverInv'
    BY <1>1, <1>5 DEF KeysInv, InsideInv, LeftInv, CoverInv
<1>12. SealedInv'
    <2> SUFFICES ASSUME NEW i \in DOMAIN frozen'
                 PROVE  /\ frozen'[i].tmp < nextSeg'
                        /\ frozen'[i].tmp # 0 =>
                              /\ frozen'[i].id = frozen'[i].tmp /\ frozen'[i].tmp # run'
                              /\ \A g \in frozen'[i].fences : \A k \in LogKeys(frozen'[i].log) : g.lo <= k
        BY DEF SealedInv
    <2>1. frozen'[i] = frozen[i + 1] /\ i + 1 \in DOMAIN frozen
        BY <1>2
    <2> QED
        BY <1>1, <2>1 DEF KeysInv, SealedInv
<1>13. GreatestInv'
    <2>1. \A i \in DOMAIN frozen' : \A k \in LogKeys(frozen'[i].log) : k <= maxKey'
        <3> TAKE i \in DOMAIN frozen'
        <3>1. frozen'[i] = frozen[i + 1] /\ i + 1 \in DOMAIN frozen
            BY <1>2
        <3> QED
            BY <1>1, <1>9, <3>1 DEF GreatestInv
    <2>2. \A k \in SegKeys(segs') : k <= maxKey'
        BY <1>1, <1>2, <1>7, <1>9 DEF GreatestInv
    <2> QED
        BY <1>1, <1>9, <2>1, <2>2 DEF GreatestInv
<1>14. ASSUME NEW B \in SUBSET Nat, Clear(Len(frozen), B)
       PROVE  ClearOf(SegKeys(segs'), LastRange', frozen', Len(frozen'), B)
    <2>1. Len(frozen) - 1 \in Nat /\ Len(frozen) - 1 < Len(frozen)
          /\ (Len(frozen) - 1) + 1 = Len(frozen) /\ Len(frozen') = Len(frozen) - 1
        BY <1>2
    <2>2. \E n \in Nat : n = Len(frozen') /\ n < Len(frozen) /\ n + 1 = Len(frozen)
        BY <2>1
    <2> QED
        BY <1>10, <1>14, <2>2
<1>15. RunInv'
    <2>1. LogKeys(mem.log) \in SUBSET Nat
        BY Basics, KeysAre
    <2> QED
        BY <1>1, <1>9, <1>14, <2>1 DEF RunInv, Clear
<1>16. ASSUME NEW t \in tmps' PROVE FileInv(t)'
    <2>1. t \in tmps /\ FileInv(t)
        BY <1>1, <1>9
    <2>2. LogKeys(t.recs) \in SUBSET Nat /\ t.id # 0
        BY <2>1, Basics, KeysAre
    <2>3. t.id = run' => Clear(Len(frozen), LogKeys(t.recs))'
        BY <1>1, <1>14, <2>1, <2>2 DEF FileInv, Clear
    <2>4. ASSUME NEW i \in DOMAIN frozen', frozen'[i].tmp = t.id
          PROVE  Clear(i - 1, LogKeys(t.recs))'
        <3>1. frozen[i + 1].tmp = t.id /\ i + 1 \in DOMAIN frozen
            BY <1>2, <2>4
        <3>2. Clear(i + 1 - 1, LogKeys(t.recs))
            BY <2>1, <3>1 DEF FileInv
        <3>3. \E n \in Nat : n = i - 1 /\ n < Len(frozen) /\ n + 1 = i + 1 - 1
            BY <1>2
        <3>4. ClearOf(SegKeys(segs'), LastRange', frozen', i - 1, LogKeys(t.recs))
            BY <1>10, <2>2, <3>2, <3>3
        <3> QED
            BY <3>4 DEF Clear
    <2>5. ASSUME t \in LandedTmps' PROVE \E s \in segs' : s.id = t.id
        <3>1. t.id # run /\ \A i \in DOMAIN frozen' : frozen'[i].tmp # t.id
            BY <1>1, <2>5 DEF LandedTmps
        <3>2. PICK i \in DOMAIN frozen : frozen[i].tmp = t.id
            BY <1>1, <2>1, <3>1 DEF LandedTmps
        <3>3. CASE i = 1
            <4>1. j.tmp = t.id /\ j.tmp # 0
                BY <1>2, <2>2, <3>2, <3>3
            <4> QED
                BY <1>1, <1>4, <1>5, <4>1
        <3>4. CASE i # 1
            <4>1. i - 1 \in 1..(Len(frozen) - 1) /\ (i - 1) + 1 = i
                BY <1>2, <3>4
            <4>2. frozen'[i - 1] = frozen[i] /\ i - 1 \in DOMAIN frozen'
                BY <1>2, <4>1
            <4> QED
                BY <3>1, <3>2, <4>2
        <3> QED
            BY <3>3, <3>4
    <2> QED
        BY <2>3, <2>4, <2>5 DEF FileInv
<1> QED
    BY <1>11, <1>12, <1>13, <1>15, <1>16 DEF KeysInv, UpInv

LEMMA KeysUnlink ==
    ASSUME ShapeInv, KeysInv, ShapeInv', Unlink PROVE KeysInv'
<1>1. /\ phase = "up" /\ tmps' \subseteq tmps
      /\ UNCHANGED <<phase, com, mem, maxKey, run, frozen, segs, merges, nextSeg>>
    BY DEF Unlink, tables, shape
<1>2. GreatestInv /\ RunInv /\ \A t \in tmps : FileInv(t)
    BY <1>1 DEF KeysInv, UpInv
<1>3. InsideInv' /\ LeftInv' /\ CoverInv'
    BY <1>1, WriterLeaves
<1>4. SealedInv'
    BY <1>1 DEF KeysInv, SealedInv
<1>5. GreatestInv' /\ RunInv'
    BY <1>1, <1>2 DEF GreatestInv, RunInv, Clear, LastRange
<1>6. \A t \in tmps' : FileInv(t)'
    BY <1>1, <1>2 DEF FileInv, Clear, LastRange, LandedTmps
<1> QED
    BY <1>3, <1>4, <1>5, <1>6 DEF KeysInv, UpInv

\* The segment work's other steps leave the queue and the runs alone, take no key
\* from outside, and move the last range to a key of a segment or back.
LEMMA Reshaped ==
    ASSUME ShapeInv, KeysInv, ShapeInv', Working,
           UNCHANGED <<phase, com, mem, maxKey, run, frozen, tmps>>,
           nextSeg <= nextSeg', SegKeys(segs') \subseteq SegKeys(segs),
           \A f \in LastRange' :
               f.lo = 0 \/ f.lo \in SegKeys(segs) \/ \E g \in LastRange : f.lo = g.lo,
           InsideInv', CoverInv'
    PROVE  KeysInv'
<1>1. phase = "up" /\ LandedTmps = {} /\ LandedTmps' = {}
    BY DEF Working, LandedTmps
<1>2. GreatestInv /\ RunInv /\ \A t \in tmps : FileInv(t)
    BY <1>1 DEF KeysInv, UpInv
<1>3. LeftInv'
    BY <1>1 DEF LeftInv
<1>4. GreatestInv'
    BY <1>2 DEF GreatestInv
<1>5. SealedInv'
    <2>1. \A i \in DOMAIN frozen : frozen[i].tmp < nextSeg'
        <3> TAKE i \in DOMAIN frozen
        <3>1. frozen[i].tmp < nextSeg /\ frozen[i].tmp \in Nat /\ nextSeg \in Nat
            BY Basics DEF KeysInv, SealedInv
        <3>2. nextSeg' \in Nat
            BY DEF ShapeInv, LogInv
        <3> QED
            BY <3>1, <3>2
    <2> QED
        BY <2>1 DEF KeysInv, SealedInv
<1>6. ASSUME NEW n \in Nat, NEW B \in SUBSET Nat, Clear(n, B)
      PROVE  ClearOf(SegKeys(segs'), LastRange', frozen', n, B)
    <2>1. SegKeys(segs) \in SUBSET Nat /\ n <= n /\ \A i \in 1..n : frozen'[i] = frozen[i]
        BY KeysAre
    <2>2. ClearOf(SegKeys(segs), LastRange, frozen, n, B)
        BY <1>6 DEF Clear
    <2> QED
        BY <2>1, <2>2, ClearOn
<1>7. RunInv'
    <2>1. LogKeys(mem.log) \in SUBSET Nat /\ Len(frozen) \in Nat
        BY Basics, KeysAre
    <2> QED
        BY <1>2, <1>6, <2>1 DEF RunInv, Clear
<1>8. ASSUME NEW t \in tmps' PROVE FileInv(t)'
    <2>1. FileInv(t) /\ LogKeys(t.recs) \in SUBSET Nat /\ Len(frozen) \in Nat
        BY <1>2, Basics, KeysAre
    <2>2. \A i \in DOMAIN frozen : i - 1 \in Nat
        BY Basics
    <2> QED
        BY <1>1, <1>6, <2>1, <2>2 DEF FileInv, Clear
<1> QED
    BY <1>3, <1>4, <1>5, <1>7, <1>8 DEF KeysInv, UpInv

LEMMA KeysStartTier ==
    ASSUME ShapeInv, KeysInv, ShapeInv', StartTier PROVE KeysInv'
<1>1. /\ Working /\ UNCHANGED <<phase, com, mem, maxKey, run, frozen, tmps, segs, merges>>
      /\ nextSeg' = nextSeg + 1
    BY DEF StartTier, tables
<1>2. nextSeg <= nextSeg'
    BY <1>1, Basics
<1>3. InsideInv' /\ CoverInv' /\ LastRange' = LastRange /\ SegKeys(segs') \subseteq SegKeys(segs)
    BY <1>1 DEF KeysInv, InsideInv, CoverInv, LastRange
<1> QED
    BY <1>1, <1>2, <1>3, Reshaped

-----------------------------------------------------------------------------
(* The keys of what a plan promotes.                                          *)

\* A piece of a chain lies from its first key to the next piece's.
LEMMA ChainKeys ==
    ASSUME NEW f \in Fence, NEW floor, NEW ps, Chain(f, floor, ps), NEW s \in ps,
           \A k \in Keys(s.c) : k < f.hi
    PROVE  LET g == [lo |-> FirstKey(s), hi |-> Above(f, ps, s)] IN
           /\ g \in Fence /\ g.lo \in Keys(s.c)
           /\ \A k \in Keys(s.c) : Inside(g, k)
<1> DEFINE g == [lo |-> FirstKey(s), hi |-> Above(f, ps, s)]
           up == {FirstKey(t) : t \in ps \ {s}} \cap {k \in Key : k > FirstKey(s)}
<1>1. g \in Fence
    <2>1. PICK F : F = FirstKeys(ps)
        OBVIOUS
    <2>2. StairsOver(f, ps, F)
        BY <2>1, Stairs
    <2>3. F \in SUBSET Key /\ g \in Slices(f, F)
        BY <2>2, Zenon DEF StairsOver
    <2> HIDE DEF g
    <2> QED
        BY <2>3, SlicesTile
<1>2. \A t \in ps : /\ FirstKey(t) \in Keys(t.c) /\ LastKey(t) \in Keys(t.c)
                    /\ FirstKey(t) \in Nat /\ LastKey(t) \in Nat
                    /\ \A k \in Keys(t.c) : k \in Nat /\ FirstKey(t) <= k /\ k <= LastKey(t)
    <2> TAKE t \in ps
    <2>1. Keys(t.c) # {} /\ Key \subseteq Nat /\ Keys(t.c) \subseteq Key
        BY DEF Chain, Key, Keys
    <2> QED
        BY <2>1, FirstLast
<1>3. ASSUME NEW k \in Keys(s.c) PROVE k < Above(f, ps, s)
    <2>1. Above(f, ps, s) = IF up = {} THEN f.hi ELSE Min(up)
        BY DEF Above
    <2>2. CASE up = {}
        BY <2>1, <2>2
    <2>3. CASE up # {}
        <3>1. up \in SUBSET Nat
            BY DEF Key
        <3>2. Min(up) \in up
            BY <2>3, <3>1, MinKey
        <3>3. PICK t \in ps \ {s} : Min(up) = FirstKey(t) /\ FirstKey(t) > FirstKey(s)
            BY <3>2
        <3>4. LastKey(s) < FirstKey(t) \/ LastKey(t) < FirstKey(s)
            BY <3>3 DEF Chain
        <3>5. FirstKey(t) <= LastKey(t) /\ FirstKey(t) \in Nat /\ LastKey(t) \in Nat
            BY <1>2, <3>3
        <3>6. /\ LastKey(s) \in Nat /\ FirstKey(s) \in Nat /\ k \in Nat /\ k <= LastKey(s)
            BY <1>2
        <3>7. k < FirstKey(t)
            BY <3>3, <3>4, <3>5, <3>6
        <3>8. Above(f, ps, s) = Min(up)
            BY <2>1, <2>3
        <3> QED
            BY <3>3, <3>7, <3>8
    <2> QED
        BY <2>2, <2>3
<1> QED
    BY <1>1, <1>2, <1>3 DEF Inside

LEMMA PromoteAllKeys ==
    ASSUME NEW S, \A s \in S : Segment(s), Chain(Whole, 0, S)
    PROVE  \A p \in PromoteAll(S) :
              /\ Inner(p)
              /\ \E s \in S : Keys(p.c) = Keys(s.c) /\ (p.lo = 0 \/ p.lo \in Keys(s.c))
<1> DEFINE low == Min({FirstKey(s) : s \in S})
           lowest(s) == IF FirstKey(s) = low THEN 0 ELSE FirstKey(s)
           g(s) == [lo |-> lowest(s), hi |-> Above(Whole, S, s)]
           slice(s) == [lo |-> FirstKey(s), hi |-> Above(Whole, S, s)]
<1>1. PromoteAll(S) = {Promoted(s, g(s)) : s \in S}
    BY DEF PromoteAll
<1>2. ASSUME NEW s \in S
      PROVE  /\ g(s) \in Fence /\ (g(s).lo = 0 \/ g(s).lo \in Keys(s.c))
             /\ \A k \in Keys(s.c) : Inside(g(s), k)
    <2>1. \A k \in Keys(s.c) : k \in Nat /\ k < Whole.hi
        BY Numbers, WholeFence DEF Keys, Key
    <2>2. /\ slice(s) \in Fence /\ slice(s).lo \in Keys(s.c)
          /\ \A k \in Keys(s.c) : Inside(slice(s), k)
        <3>1. \E floor : Chain(Whole, floor, S)
            OBVIOUS
        <3> QED
            BY <2>1, <3>1, WholeFence, ChainKeys
    <2>3. lowest(s) = 0 \/ lowest(s) = FirstKey(s)
        OBVIOUS
    <2> HIDE DEF lowest
    <2>4. g(s).lo = lowest(s) /\ g(s).hi = slice(s).hi /\ slice(s).lo = FirstKey(s)
        OBVIOUS
    <2>5. CASE lowest(s) = 0
        <3>1. slice(s).hi \in 1..Top
            BY <2>2 DEF Fence
        <3>2. g(s) \in Fence
            BY <2>4, <2>5, <3>1, Numbers DEF Fence
        <3> HIDE DEF g, slice
        <3> QED
            BY <2>1, <2>2, <2>4, <2>5, <3>2 DEF Inside
    <2>6. CASE lowest(s) = FirstKey(s)
        <3>1. g(s) = slice(s)
            BY <2>6
        <3> QED
            BY <2>2, <3>1
    <2> QED
        BY <2>3, <2>5, <2>6
<1> HIDE DEF g
<1>3. \A s \in S : Promoted(s, g(s)).lo = g(s).lo
    BY <1>2, PromotedShape
<1>4. \A s \in S : Inner(Promoted(s, g(s))) /\ Keys(Promoted(s, g(s)).c) = Keys(s.c)
    BY <1>2, PromotedKeys
<1> QED
    BY <1>1, <1>2, <1>3, <1>4

LEMMA BecameKeys ==
    ASSUME NEW S, \A s \in S : Segment(s) /\ Inner(s), Tiled(Parts(S)),
           NEW f \in Fences(Parts(S)), NEW busy, Promotable(S, f, busy)
    PROVE  \A q \in Became(S, f) :
              /\ Inner(q) /\ \E s \in S : Keys(q.c) = Keys(s.c)
              /\ q.lo \in Keys(q.c) \/ q.hi < Top
<1> DEFINE ps == Candidates(S, f)
           h == Holder(S, f)
<1>1. PICK F : F = FirstKeys(ps)
    OBVIOUS
<1> DEFINE low == Min(F)
           bot == [lo |-> f.lo, hi |-> low]
           slice(s) == [lo |-> FirstKey(s), hi |-> Above(f, ps, s)]
           floor == IF Keys(h.c) = {} THEN 0 ELSE LastKey(h)
<1>2. h \in Parts(S) /\ FenceOf(h) = f /\ f \in Fence /\ h.lo = f.lo /\ h.hi = f.hi
    BY HolderOf, PartFence
<1>3. Chain(f, floor, ps)
    BY DEF Promotable
<1>4. Became(S, f) = {Promoted(s, slice(s)) : s \in ps} \cup {Promoted(h, bot)}
    BY <1>1 DEF Became, Renamed, FirstKeys
<1>5. ps \subseteq S /\ h \in S
    BY <1>2 DEF Candidates, Pieces, Parts
<1>6. \A s \in ps : s.hi = f.hi
    BY DEF Candidates, FenceOf
<1>7. /\ F \in SUBSET Key /\ low \in F /\ bot \in Slices(f, F)
      /\ \A s \in ps : FirstKey(s) < f.hi
    <2>1. StairsOver(f, ps, F)
        <3>1. \E fl : Chain(f, fl, ps)
            BY <1>3
        <3> QED
            BY <1>1, <1>2, <3>1, Stairs
    <2> QED
        BY <2>1, Zenon DEF StairsOver
<1>8. bot \in Fence /\ bot.lo = f.lo /\ bot.hi = low
    BY <1>2, <1>7, SlicesTile
<1>9. PICK s0 \in ps : low = FirstKey(s0)
    BY <1>1, <1>7 DEF FirstKeys
<1>10. low > floor /\ low < f.hi
    BY <1>3, <1>9 DEF Chain
<1>11. low \in Nat /\ f.hi \in Nat /\ f.hi <= Top
    BY <1>2, <1>7, FenceShape, Numbers DEF Fenced, Key
<1>12. \A k \in Keys(h.c) : Inside(bot, k)
    <2> TAKE k \in Keys(h.c)
    <2>1. Inside(h, k)
        BY <1>5 DEF Inner
    <2>2. k <= LastKey(h) /\ LastKey(h) \in Nat /\ k \in Nat /\ floor = LastKey(h)
        BY FirstLast DEF Keys, Key
    <2> HIDE DEF floor, low
    <2> QED
        BY <1>2, <1>8, <1>10, <1>11, <2>1, <2>2 DEF Inside
<1>13. \A s \in ps : /\ slice(s) \in Fence /\ slice(s).lo \in Keys(s.c)
                     /\ \A k \in Keys(s.c) : Inside(slice(s), k)
    <2> TAKE s \in ps
    <2>1. \A k \in Keys(s.c) : k < f.hi
        BY <1>5, <1>6 DEF Inner, Inside
    <2> HIDE DEF ps, floor
    <2> QED
        BY <1>2, <1>3, <2>1, ChainKeys
<1> HIDE DEF ps, h, low, bot, slice, floor
<1>14. ASSUME NEW s \in ps
       PROVE  LET q == Promoted(s, slice(s)) IN
              Inner(q) /\ Keys(q.c) = Keys(s.c) /\ q.lo \in Keys(s.c)
    <2>1. Segment(s) /\ slice(s) \in Fence
        BY <1>5, <1>13
    <2> QED
        BY <1>13, <2>1, PromotedKeys, PromotedShape
<1>15. LET q == Promoted(h, bot) IN
       Inner(q) /\ Keys(q.c) = Keys(h.c) /\ q.hi = low
    BY <1>5, <1>8, <1>12, PromotedKeys, PromotedShape
<1>16. low < Top
    BY <1>10, <1>11, Numbers
<1> QED
    BY <1>4, <1>5, <1>14, <1>15, <1>16

\* promote_ranges takes no key from outside, leaves each inside its segment, and
\* moves the last range only to a key of a segment.
LEMMA PromotedDueKeys ==
    ASSUME NEW S, \A s \in S : Segment(s) /\ Inner(s), Tiled(Parts(S)),
           NEW due \in SUBSET Fences(Parts(S)), NEW busy
    PROVE  \A q \in PromoteDue(S, due, busy).segs :
              /\ Inner(q) /\ \E s \in S : Keys(q.c) = Keys(s.c)
              /\ q \in S \/ q.lo \in Keys(q.c) \/ q.hi < Top
<1> DEFINE now == {f \in due : Promotable(S, f, busy)}
           gone == UNION {Candidates(S, f) \cup {Holder(S, f)} : f \in now}
           new == UNION {Became(S, f) : f \in now}
<1>1. PromoteDue(S, due, busy).segs = (S \ gone) \cup new
    BY DEF PromoteDue
<1>2. \A f \in now : f \in Fences(Parts(S)) /\ Promotable(S, f, busy)
    OBVIOUS
<1>3. ASSUME NEW f \in now
      PROVE  \A q \in Became(S, f) :
                /\ Inner(q) /\ \E s \in S : Keys(q.c) = Keys(s.c)
                /\ q.lo \in Keys(q.c) \/ q.hi < Top
    BY <1>2, BecameKeys
<1>4. \A q \in new : \E f \in now : q \in Became(S, f)
    OBVIOUS
<1> HIDE DEF now, gone, new
<1> SUFFICES ASSUME NEW q \in PromoteDue(S, due, busy).segs
             PROVE  /\ Inner(q) /\ \E s \in S : Keys(q.c) = Keys(s.c)
                    /\ q \in S \/ q.lo \in Keys(q.c) \/ q.hi < Top
    OBVIOUS
<1>5. CASE q \in S
    BY <1>5
<1>6. CASE q \in new
    BY <1>3, <1>4, <1>6
<1> QED
    BY <1>1, <1>5, <1>6

\* resolve_fences leaves no piece reaching outside.
LEMMA ResolvedClosed ==
    ASSUME NEW parts, NEW pieces, NEW given,
           NEW g \in pieces, NEW f \in ResolveFences(parts, pieces, given), Overlap(g, f),
           NEW p \in parts, Overlap(g, p)
    PROVE  p \in ResolveFences(parts, pieces, given)
<1> DEFINE start == {q \in parts : \E h \in given : Overlap(h, q)}
           closed(F) == \A h \in pieces : (\E e \in F : Overlap(h, e)) =>
                            {q \in parts : Overlap(h, q)} \subseteq F
           R == {q \in parts : \A F \in SUBSET parts :
                                  start \subseteq F /\ closed(F) => q \in F}
<1>1. ResolveFences(parts, pieces, given) = R
    BY DEF ResolveFences
<1>2. ASSUME NEW F \in SUBSET parts, start \subseteq F, closed(F) PROVE p \in F
    <2>1. f \in F
        BY <1>1, <1>2
    <2>2. {q \in parts : Overlap(g, q)} \subseteq F
        BY <1>2, <2>1
    <2> QED
        BY <2>2
<1>3. p \in R
    BY <1>2
<1> QED
    BY <1>1, <1>3

\* A merge that starts takes nothing that has a key outside its ranges.
LEMMA StartedCovers ==
    ASSUME NEW S, \A s \in S : Segment(s) /\ Inner(s), Tiled(Parts(S)), CoverInv,
           NEW given \in SUBSET Fences(Parts(S)), given = {} => Parts(S) = {},
           StartCompact(S, given)
    PROVE  CoverInv'
<1> DEFINE fs == ResolveFences(Fences(Parts(S)), Fences(Pieces(S)), given)
           inputs == IF given = {} THEN S ELSE Covered(S, fs)
           m == [inputs |-> inputs, fences |-> fs, seq |-> covered]
<1>1. fs \subseteq Fences(Parts(S)) /\ given \subseteq fs
    BY Resolved
<1>2. merges' = merges \/ merges' = merges \cup {m}
    BY DEF StartCompact
<1>3. m.inputs = inputs /\ m.fences = fs
    OBVIOUS
<1>4. ASSUME fs # {}, NEW s \in inputs, NEW k \in Keys(s.c)
      PROVE  \E f \in fs : Inside(f, k)
    <2>1. given # {} /\ inputs = Covered(S, fs)
        BY <1>1, <1>4 DEF Fences
    <2>2. PICK f \in fs : Overlap(s, f)
        BY <1>4, <2>1 DEF Covered
    <2>3. s \in S /\ Inside(s, k) /\ Fenced(s) /\ k \in Nat /\ k \in 0..MaxKey
        BY <1>4, <2>1, Numbers DEF Covered, Inner, Segment, Keys, Key
    <2>4. Parts(S) # {}
        BY <1>1, <1>4 DEF Fences
    <2>5. PICK p \in Parts(S) : Inside(p, k)
        BY <2>3, <2>4 DEF Tiled
    <2>6. Fenced(p) /\ FenceOf(p).lo = p.lo /\ FenceOf(p).hi = p.hi /\ FenceOf(p) \in Fences(Parts(S))
        BY PartFence DEF Tiled
    <2>7. Overlap(s, FenceOf(p)) /\ Overlap(FenceOf(s), FenceOf(p)) /\ Overlap(FenceOf(s), f)
        <3>1. FenceOf(s).lo = s.lo /\ FenceOf(s).hi = s.hi
            BY DEF FenceOf
        <3>2. s.lo \in Nat /\ s.hi \in Nat /\ p.lo \in Nat /\ p.hi \in Nat
            BY <2>3, <2>6, Numbers DEF Fenced
        <3> QED
            BY <2>2, <2>3, <2>5, <2>6, <3>1, <3>2 DEF Overlap, Inside
    <2>8. FenceOf(p) \in fs
        <3>1. CASE s \in Parts(S)
            <4>1. PICK q \in Parts(S) : f = FenceOf(q)
                BY <1>1, <2>2 DEF Fences
            <4>2. Fenced(q) /\ Overlap(s, q) /\ (s # q => Apart(s, q)) /\ (s # p => Apart(s, p))
                BY <2>2, <3>1, <4>1, PartFence DEF Overlap, Tiled
            <4>3. Overlap(s, p)
                BY <2>6, <2>7 DEF Overlap
            <4>4. s = q /\ s = p
                BY <2>3, <2>6, <4>2, <4>3, OverlapApart
            <4> QED
                BY <2>2, <4>1, <4>4
        <3>2. CASE s \in Pieces(S)
            <4>1. FenceOf(s) \in Fences(Pieces(S))
                BY <3>2 DEF Fences
            <4> QED
                BY <2>2, <2>6, <2>7, <4>1, ResolvedClosed
        <3> QED
            BY <2>3, <3>1, <3>2 DEF Pieces
    <2> QED
        BY <2>5, <2>6, <2>8 DEF Inside
<1> HIDE DEF fs, inputs, m
<1> QED
    BY <1>2, <1>3, <1>4 DEF CoverInv

\* Segments kept or renamed, with the keys they had: what Reshaped asks.
LEMMA KeysPlan ==
    ASSUME ShapeInv, KeysInv, ShapeInv', Plan PROVE KeysInv'
<1>1. /\ Working /\ UNCHANGED <<phase, com, mem, maxKey, run, frozen, tmps, nextSeg, covered>>
      /\ tier = {} /\ \E trigger \in 1..2 : PlanFirst(trigger) \/ PlanRanges(trigger)
    BY DEF Plan, tables, log
<1>2. nextSeg <= nextSeg'
    BY <1>1, Basics
<1>3. /\ \A s \in segs : Segment(s) /\ Inner(s)
      /\ Tiled(Parts(segs)) /\ Tiled(Parts(segs')) /\ \A s \in segs' : Segment(s)
      /\ MergeInv /\ MergeInv'
    BY DEF ShapeInv, SegInv, KeysInv, InsideInv
<1>4. CoverInv
    BY DEF KeysInv
<1>5. SUFFICES /\ CoverInv'
               /\ \A q \in segs' :
                     /\ Inner(q) /\ \E s \in segs : Keys(q.c) = Keys(s.c)
                     /\ q \in segs \/ q.lo = 0 \/ q.lo \in Keys(q.c) \/ q.hi < Top
    <2>1. InsideInv' /\ SegKeys(segs') \subseteq SegKeys(segs)
        BY <1>5 DEF InsideInv, SegKeys
    <2>2. ASSUME NEW f \in LastRange'
          PROVE  f.lo = 0 \/ f.lo \in SegKeys(segs) \/ \E g \in LastRange : f.lo = g.lo
        <3>1. PICK p \in segs' : p.level = 1 /\ f.lo = p.lo /\ f.hi = p.hi /\ p.hi = Top
            BY DEF LastRange, Fences, Parts, FenceOf
        <3>2. CASE p \in segs
            <4>1. FenceOf(p) \in LastRange /\ FenceOf(p).lo = p.lo
                BY <3>1, <3>2 DEF LastRange, Fences, Parts, FenceOf
            <4> QED
                BY <3>1, <4>1
        <3>3. CASE p.lo = 0
            BY <3>1, <3>3
        <3>4. CASE p.lo \in Keys(p.c)
            <4>1. p.lo \in SegKeys(segs)
                BY <1>5, <3>1, <3>4 DEF SegKeys
            <4> QED
                BY <3>1, <4>1
        <3>5. ~(p.hi < Top)
            BY <3>1, Numbers
        <3> QED
            BY <1>5, <3>1, <3>2, <3>3, <3>4, <3>5
    <2> QED
        BY <1>1, <1>2, <1>5, <2>1, <2>2, Reshaped
<1>6. ASSUME NEW trigger, PlanFirst(trigger)
      PROVE  /\ CoverInv'
             /\ \A q \in segs' :
                   /\ Inner(q) /\ \E s \in segs : Keys(q.c) = Keys(s.c)
                   /\ q \in segs \/ q.lo = 0 \/ q.lo \in Keys(q.c) \/ q.hi < Top
    <2>1. Parts(segs) = {}
        BY <1>6 DEF PlanFirst
    <2>2. PICK fits \in BOOLEAN :
              \/ PromotableAll(segs, Busy, fits) /\ segs' = PromoteAll(segs) /\ UNCHANGED merges
              \/ ~PromotableAll(segs, Busy, fits) /\ StartCompact(segs, {}) /\ UNCHANGED segs
        BY <1>6 DEF PlanFirst
    <2>3. CASE PromotableAll(segs, Busy, fits) /\ segs' = PromoteAll(segs) /\ UNCHANGED merges
        <3>1. Chain(Whole, 0, segs)
            BY <2>3 DEF PromotableAll
        <3>2. \A p \in segs' :
                 /\ Inner(p)
                 /\ \E s \in segs : Keys(p.c) = Keys(s.c) /\ (p.lo = 0 \/ p.lo \in Keys(s.c))
            BY <1>3, <2>3, <3>1, PromoteAllKeys
        <3>3. CoverInv'
            BY <1>4, <2>3 DEF CoverInv
        <3> QED
            BY <3>2, <3>3
    <2>4. CASE StartCompact(segs, {}) /\ UNCHANGED segs
        <3>1. {} \in SUBSET Fences(Parts(segs))
            OBVIOUS
        <3>2. CoverInv'
            BY <1>3, <1>4, <2>1, <2>4, <3>1, StartedCovers
        <3> QED
            BY <1>3, <2>4, <3>2
    <2> QED
        BY <2>2, <2>3, <2>4
<1>7. ASSUME NEW trigger, PlanRanges(trigger)
      PROVE  /\ CoverInv'
             /\ \A q \in segs' :
                   /\ Inner(q) /\ \E s \in segs : Keys(q.c) = Keys(s.c)
                   /\ q \in segs \/ q.lo = 0 \/ q.lo \in Keys(q.c) \/ q.hi < Top
    <2> DEFINE held == UNION {m.fences : m \in merges}
               due == {f \in MergeDue(segs, trigger) :
                          MergeParallel > 1 => \A g \in held : ~Overlap(f, g)}
               p == PromoteDue(segs, due, Busy)
    <2>1. /\ segs' = p.segs
          /\ \/ UNCHANGED merges
             \/ \E n \in DOMAIN p.rest : StartCompact(p.segs, {p.rest[i] : i \in 1..n})
        BY <1>7 DEF PlanRanges
    <2>2. due \in SUBSET Fences(Parts(segs))
        BY DEF MergeDue
    <2>3. Busy \in SUBSET segs
        BY <1>1, <1>3 DEF Busy, MergeInv, MergesHold
    <2>4. \A q \in p.segs :
             /\ Inner(q) /\ \E s \in segs : Keys(q.c) = Keys(s.c)
             /\ q \in segs \/ q.lo \in Keys(q.c) \/ q.hi < Top
        <3> HIDE DEF due
        <3> QED
            BY <1>3, <2>2, PromotedDueKeys
    <2>5. \E R \in SUBSET Fences(Parts(p.segs)) : p.rest = KeyOrder(R)
        <3> HIDE DEF due
        <3>1. \A s \in segs : Segment(s)
            BY <1>3
        <3> QED
            BY <1>3, <2>2, <2>3, <3>1, PromotedDue
    <2> HIDE DEF p, due
    <2>6. CASE UNCHANGED merges
        BY <1>4, <2>1, <2>4, <2>6 DEF CoverInv
    <2>7. ASSUME NEW n \in DOMAIN p.rest, StartCompact(p.segs, {p.rest[i] : i \in 1..n})
          PROVE  CoverInv'
        <3> DEFINE given == {p.rest[i] : i \in 1..n}
        <3>1. PICK R \in SUBSET Fences(Parts(p.segs)) : p.rest = KeyOrder(R)
            BY <2>5
        <3>2. /\ DOMAIN p.rest = 1..Cardinality(R) /\ Cardinality(R) \in Nat
              /\ \A i \in DOMAIN p.rest : p.rest[i] \in R
            BY <1>3, <2>1, <3>1, KeyOrderOf
        <3>3. n \in Nat /\ n >= 1 /\ 1..n \subseteq DOMAIN p.rest
            BY <3>2
        <3>4. given \in SUBSET Fences(Parts(p.segs)) /\ given # {}
            <4>1. 1 \in 1..n
                BY <3>3
            <4> QED
                BY <3>1, <3>2, <3>3, <4>1
        <3>5. StartCompact(p.segs, given)
            BY <2>7
        <3>6. (\A s \in p.segs : Segment(s) /\ Inner(s)) /\ Tiled(Parts(p.segs))
            BY <1>3, <2>1, <2>4
        <3> HIDE DEF given
        <3> QED
            BY <1>4, <3>4, <3>5, <3>6, StartedCovers
    <2> QED
        BY <2>1, <2>4, <2>6, <2>7
<1> QED
    BY <1>1, <1>6, <1>7

-----------------------------------------------------------------------------
(* The keys of what a merge lands as.                                         *)

LEMMA BottomKeys ==
    ASSUME NEW S, NEW g, NEW seq
    PROVE  LET q == Bottom(S, g, seq) IN Inner(q) /\ Keys(q.c) \subseteq SegKeys(S)
<1> DEFINE q == Bottom(S, g, seq)
<1>1. /\ q.lo = g.lo /\ q.hi = g.hi
      /\ q.c = [k \in Key |-> IF k \in Held(S, g) THEN Live(Merged(S, k)) ELSE <<>>]
    BY DEF Bottom
<1> HIDE DEF q
<1>2. Keys(q.c) \subseteq Held(S, g)
    BY <1>1 DEF Keys
<1>3. Held(S, g) \subseteq SegKeys(S) /\ \A k \in Held(S, g) : g.lo <= k /\ k < g.hi
    BY DEF Held, SegKeys, Keys
<1> QED
    BY <1>1, <1>2, <1>3 DEF Inner, Inside, q

LEMMA TieredKeys ==
    ASSUME NEW S, NEW f, NEW id
    PROVE  LET q == Tiered(S, f, id) IN
           Keys(q.c) \subseteq SegKeys(S) /\ \A k \in Keys(q.c) : f.lo <= k /\ k < f.hi
<1> DEFINE c == [k \in Key |-> IF k \in Held(S, f) THEN Merged(S, k) ELSE <<>>]
           seq == Max({s.seq : s \in S})
           q == Tiered(S, f, id)
<1>1. q = Piece(f, "pcs", seq, id, c)
    BY DEF Tiered
<1>2. Keys(c) \subseteq Held(S, f)
    BY DEF Keys
<1>3. Held(S, f) \subseteq SegKeys(S)
    BY DEF Held, SegKeys, Keys
<1> HIDE DEF c, seq, q
<1>4. Keys(q.c) \subseteq Keys(c) /\ \A k \in Keys(q.c) : f.lo <= k /\ k < f.hi
    BY <1>1, PieceKeys
<1> QED
    BY <1>2, <1>3, <1>4 DEF q

\* A slice that ends the key space begins where its range does, or at a cut.
LEMMA LastSlice ==
    ASSUME NEW f \in Fence, NEW cuts \in SUBSET Key, NEW g \in Slices(f, cuts), g.hi = Top
    PROVE  f.hi = Top /\ (g.lo = f.lo \/ g.lo \in cuts)
<1>1. g \in Fence /\ g.hi <= f.hi /\ f.hi \in Nat /\ f.hi <= Top /\ g.lo < g.hi
    BY SlicesTile, FenceShape, Numbers DEF Fenced, Fence
<1>2. f.hi = Top
    BY <1>1, Numbers
<1> DEFINE at == {f.lo, f.hi} \cup {k \in cuts : f.lo < k /\ k < f.hi}
<1>3. g \in [lo : at, hi : at]
    BY DEF Slices
<1>4. g.lo \in at
    BY <1>3
<1>5. g.lo # f.hi
    BY <1>1, <1>2, Numbers, FenceShape
<1> QED
    BY <1>2, <1>4, <1>5

LEMMA KeysLandMerge ==
    ASSUME ShapeInv, KeysInv, ShapeInv', LandMerge PROVE KeysInv'
<1>1. Working /\ UNCHANGED <<phase, com, mem, maxKey, run, frozen, tmps, nextSeg>>
    BY DEF LandMerge, tables
<1>2. PICK m \in merges :
          LET fs == IF m.fences = {} THEN {Whole} ELSE m.fences IN
          \E cuts \in SUBSET CutKeys(m.inputs, fs) :
             /\ segs' = (segs \ m.inputs) \cup Outputs(m.inputs, fs, cuts, m.seq)
             /\ merges' = merges \ {m}
    BY DEF LandMerge, Outputs
<1> DEFINE fs == IF m.fences = {} THEN {Whole} ELSE m.fences
<1>3. PICK cuts \in SUBSET CutKeys(m.inputs, fs) :
             /\ segs' = (segs \ m.inputs) \cup Outputs(m.inputs, fs, cuts, m.seq)
             /\ merges' = merges \ {m}
    BY <1>2
<1>4. /\ m.inputs \subseteq segs /\ m.fences \subseteq Fence
      /\ m.fences \subseteq Fences(Parts(segs))
    BY DEF ShapeInv, MergeInv, MergesHold
<1>5. fs \in SUBSET Fence /\ \A f \in fs : f.lo = 0 \/ f \in Fences(Parts(segs))
    BY <1>4, WholeFence
<1>6. cuts \in SUBSET Key /\ cuts \subseteq SegKeys(segs)
    BY <1>4 DEF CutKeys, Held, SegKeys, Keys
<1> HIDE DEF fs
<1>7. \A q \in Outputs(m.inputs, fs, cuts, m.seq) :
         \E f \in fs : \E g \in Slices(f, cuts) : q = Bottom(m.inputs, g, m.seq)
    BY DEF Outputs
<1>8. SegKeys(m.inputs) \subseteq SegKeys(segs)
    BY <1>4 DEF SegKeys
<1>9. \A q \in segs' : q \in segs \/ (Inner(q) /\ Keys(q.c) \subseteq SegKeys(segs))
    BY <1>3, <1>7, <1>8, BottomKeys
<1>10. InsideInv' /\ SegKeys(segs') \subseteq SegKeys(segs)
    BY <1>9 DEF KeysInv, InsideInv, SegKeys
<1>11. CoverInv'
    BY <1>3 DEF KeysInv, CoverInv
<1>12. ASSUME NEW f \in LastRange'
       PROVE  f.lo = 0 \/ f.lo \in SegKeys(segs) \/ \E g \in LastRange : f.lo = g.lo
    <2>1. PICK p \in segs' : p.level = 1 /\ f.lo = p.lo /\ f.hi = p.hi /\ p.hi = Top
        BY DEF LastRange, Fences, Parts, FenceOf
    <2>2. CASE p \in segs
        <3>1. FenceOf(p) \in LastRange /\ FenceOf(p).lo = p.lo
            BY <2>1, <2>2 DEF LastRange, Fences, Parts, FenceOf
        <3> QED
            BY <2>1, <3>1
    <2>3. CASE p \in Outputs(m.inputs, fs, cuts, m.seq)
        <3>1. PICK e \in fs : \E g \in Slices(e, cuts) : p = Bottom(m.inputs, g, m.seq)
            BY <1>7, <2>3
        <3>2. PICK g \in Slices(e, cuts) : p = Bottom(m.inputs, g, m.seq)
            BY <3>1
        <3>3. p.lo = g.lo /\ p.hi = g.hi
            BY <3>2 DEF Bottom
        <3>4. e \in Fence /\ e.hi = Top /\ (g.lo = e.lo \/ g.lo \in cuts)
            BY <1>5, <1>6, <2>1, <3>3, LastSlice
        <3>5. e.lo = 0 \/ e \in LastRange
            BY <1>5, <3>4 DEF LastRange
        <3> QED
            BY <1>6, <2>1, <3>3, <3>4, <3>5
    <2> QED
        BY <1>3, <2>1, <2>2, <2>3
<1>13. nextSeg <= nextSeg'
    BY <1>1, Basics
<1> QED
    BY <1>1, <1>10, <1>11, <1>12, <1>13, Reshaped

LEMMA KeysLandTier ==
    ASSUME ShapeInv, KeysInv, ShapeInv', LandTier PROVE KeysInv'
<1>1. Working /\ UNCHANGED <<phase, com, mem, maxKey, run, frozen, tmps, nextSeg, merges>>
    BY DEF LandTier, tables
<1>2. PICK t \in tier : segs' = (segs \ t.inputs) \cup {Tiered(t.inputs, t.fence, t.id)}
    BY DEF LandTier
<1> DEFINE p == Tiered(t.inputs, t.fence, t.id)
<1>3. /\ t.inputs \subseteq Pieces(segs) /\ t.inputs # {} /\ t.fence \in Fence /\ t.id \in Nat
      /\ t.inputs \in SUBSET segs /\ covered \in Nat /\ SegInv
    BY DEF ShapeInv, TierInv, Pieces, LogInv
<1>4. Segment(p) /\ p.level = 0 /\ p.lo = t.fence.lo /\ p.hi = t.fence.hi
    BY <1>3, TieredShape
<1>5. Keys(p.c) \subseteq SegKeys(t.inputs) /\ \A k \in Keys(p.c) : t.fence.lo <= k /\ k < t.fence.hi
    BY TieredKeys
<1>6. segs' = (segs \ t.inputs) \cup {p}
    BY <1>2
<1> HIDE DEF p
<1>7. Inner(p)
    BY <1>4, <1>5 DEF Inner, Inside
<1>8. SegKeys(t.inputs) \subseteq SegKeys(segs)
    BY <1>3 DEF SegKeys
<1>9. InsideInv' /\ SegKeys(segs') \subseteq SegKeys(segs)
    BY <1>5, <1>6, <1>7, <1>8 DEF KeysInv, InsideInv, SegKeys
<1>10. Parts(segs') = Parts(segs)
    BY <1>3, <1>4, <1>6 DEF Parts, Pieces
<1>11. LastRange' = LastRange /\ CoverInv'
    BY <1>1, <1>10 DEF LastRange, KeysInv, CoverInv
<1>12. nextSeg <= nextSeg'
    BY <1>1, Basics
<1> QED
    BY <1>1, <1>9, <1>11, <1>12, Reshaped

-----------------------------------------------------------------------------
(* The keys of what a crash leaves and an open takes up.                      *)

LEMMA KeysCrash ==
    ASSUME ShapeInv, KeysInv, NEW kept, Crash(kept) PROVE KeysInv'
<1>1. /\ phase = "up" /\ phase' = "down" /\ frozen' = <<>> /\ merges' = {} /\ UNCHANGED segs
    BY DEF Crash
<1>2. PICK whole \in SUBSET tmps :
          tmps' = whole \cup {[t EXCEPT !.recs = SubSeq(@, 1, t.dur)] : t \in tmps \ whole}
    BY DEF Crash
<1>3. InsideInv' /\ UpInv' /\ SealedInv' /\ CoverInv'
    BY <1>1 DEF KeysInv, InsideInv, UpInv, SealedInv, CoverInv
<1>4. \A t \in tmps : FileInv(t)
    BY <1>1 DEF KeysInv, UpInv
<1>5. LastRange' = LastRange
    BY <1>1 DEF LastRange
<1>6. ASSUME NEW u \in tmps'
      PROVE  \E t \in tmps : u.id = t.id /\ LogKeys(u.recs) \subseteq LogKeys(t.recs)
    <2>1. CASE u \in whole
        BY <2>1
    <2>2. ASSUME NEW t \in tmps, u = [t EXCEPT !.recs = SubSeq(@, 1, t.dur)]
          PROVE  u.id = t.id /\ LogKeys(u.recs) \subseteq LogKeys(t.recs)
        <3>1. t \in Run /\ t.recs \in Seq(Write) /\ t.dur \in Nat /\ t.dur <= Len(t.recs)
            BY DEF ShapeInv, LogInv, Run
        <3>2. u.id = t.id /\ u.recs = SubSeq(t.recs, 1, t.dur)
            BY <2>2, <3>1 DEF Run
        <3>3. \A i \in DOMAIN u.recs : i \in DOMAIN t.recs /\ u.recs[i] = t.recs[i]
            BY <3>1, <3>2
        <3> QED
            BY <3>2, <3>3 DEF LogKeys
    <2> QED
        BY <1>2, <2>1, <2>2
<1>7. LeftInv'
    <2> SUFFICES ASSUME NEW u \in tmps', \A s \in segs : s.id # u.id,
                        NEW f \in LastRange, NEW k \in LogKeys(u.recs)
                 PROVE  f.lo <= k
        BY <1>1, <1>5 DEF LeftInv
    <2>1. PICK t \in tmps : u.id = t.id /\ k \in LogKeys(t.recs)
        BY <1>6
    <2>2. t \notin LandedTmps
        BY <1>4, <2>1 DEF FileInv
    <2>3. t.id = run \/ \E i \in DOMAIN frozen : frozen[i].tmp = t.id
        BY <2>2 DEF LandedTmps
    <2>4. \E n : Clear(n, LogKeys(t.recs))
        BY <1>4, <2>3 DEF FileInv
    <2> QED
        BY <2>1, <2>4 DEF Clear, ClearOf
<1> QED
    BY <1>3, <1>7 DEF KeysInv

LEMMA KeysRecoverRun ==
    ASSUME ShapeInv, KeysInv, ShapeInv', RecoverRun PROVE KeysInv'
<1>1. phase = "down" /\ UNCHANGED <<phase, run, frozen, merges, nextSeg>>
    BY DEF RecoverRun, tables
<1>2. PICK t \in tmps :
          /\ tmps' = tmps \ {t}
          /\ \/ UNCHANGED segs
             \/ /\ \A s \in segs : s.id # t.id
                /\ segs' = segs \cup {RunPiece(LastRange, covered, t.id, t.recs)}
    BY DEF RecoverRun
<1>3. UpInv' /\ SealedInv' /\ CoverInv'
    BY <1>1 DEF KeysInv, UpInv, SealedInv, CoverInv
<1>4. CASE UNCHANGED segs
    BY <1>1, <1>2, <1>3, <1>4 DEF KeysInv, InsideInv, LeftInv, LastRange
<1>5. CASE /\ \A s \in segs : s.id # t.id
           /\ segs' = segs \cup {RunPiece(LastRange, covered, t.id, t.recs)}
    <2> DEFINE p == RunPiece(LastRange, covered, t.id, t.recs)
    <2>1. t.id \in Nat /\ covered \in Nat /\ t.recs \in Seq(Write)
        BY Basics
    <2>2. LastRange \in SUBSET Fence /\ \A g \in LastRange : g.hi = Top
        BY LiveFences DEF ShapeInv
    <2>3. /\ p.level = 0 /\ p.c = Chains(t.recs) /\ p.hi = Top
          /\ p.lo = 0 \/ \E g \in LastRange : p.lo = g.lo
        BY <2>1, <2>2, RunShape
    <2>4. segs' = segs \cup {p}
        BY <1>5
    <2> HIDE DEF p
    <2>5. Keys(p.c) = LogKeys(t.recs)
        BY <2>1, <2>3, ChainsKeys DEF LogKeys
    <2>6. \A g \in LastRange : \A k \in LogKeys(t.recs) : g.lo <= k
        BY <1>1, <1>5 DEF KeysInv, LeftInv
    <2>7. \A k \in Keys(p.c) : 0 <= k /\ k < Top
        BY Numbers DEF Keys, Key
    <2>8. Inner(p)
        BY <2>3, <2>5, <2>6, <2>7 DEF Inner, Inside
    <2>9. InsideInv'
        BY <2>4, <2>8 DEF KeysInv, InsideInv
    <2>10. LastRange' = LastRange
        <3>1. Parts(segs') = Parts(segs)
            BY <2>3, <2>4 DEF Parts
        <3> QED
            BY <3>1 DEF LastRange
    <2>11. LeftInv'
        BY <1>1, <1>2, <2>4, <2>10 DEF KeysInv, LeftInv
    <2> QED
        BY <1>3, <2>9, <2>11 DEF KeysInv
<1> QED
    BY <1>2, <1>4, <1>5

LEMMA KeysOpened ==
    ASSUME ShapeInv, KeysInv, Opened PROVE KeysInv'
<1>1. /\ phase = "down" /\ tmps = {} /\ phase' = "up" /\ mem' = [ord |-> FALSE, log |-> wal]
      /\ maxKey' = MaxKeyOf(segs, wal) /\ UNCHANGED <<run, frozen, segs, merges, tmps>>
    BY DEF Opened, shape
<1>2. frozen = <<>> /\ wal \in Seq(Write)
    BY <1>1 DEF ShapeInv, JobInv, LogInv
<1> DEFINE K == {0} \cup (UNION {Keys(s.c) : s \in segs}) \cup Keys(Chains(wal))
<1>3. K \in SUBSET (0..MaxKey) /\ K # {}
    BY Numbers DEF Keys, Key
<1>4. maxKey' = Max(K)
    BY <1>1 DEF MaxKeyOf
<1>5. SegKeys(segs) \subseteq K /\ LogKeys(wal) \subseteq K
    BY <1>2, ChainsKeys DEF SegKeys, LogKeys
<1> HIDE DEF K
<1>6. \A k \in K : k <= maxKey'
    BY <1>3, <1>4, MaxBelow, Numbers
<1>7. mem'.log = wal /\ ~mem'.ord /\ frozen' = <<>>
    BY <1>1, <1>2
<1>8. GreatestInv' /\ RunInv'
    BY <1>1, <1>5, <1>6, <1>7 DEF GreatestInv, RunInv
<1>9. UpInv'
    BY <1>1, <1>8 DEF UpInv
<1>10. InsideInv' /\ LeftInv' /\ CoverInv'
    BY <1>1, WriterLeaves
<1>11. SealedInv'
    BY <1>7 DEF SealedInv
<1> QED
    BY <1>9, <1>10, <1>11 DEF KeysInv

LEMMA KeysKept ==
    ASSUME Loose = {}, ShapeInv, KeysInv, ShapeInv', [Next]_vars PROVE KeysInv'
<1>1. CASE UNCHANGED vars
    <2>1. UNCHANGED <<phase, com, mem, maxKey, run, frozen, segs, merges, tmps, nextSeg>>
        BY <1>1 DEF vars, tables, shape
    <2>2. LastRange' = LastRange /\ LandedTmps' = LandedTmps
        BY <2>1 DEF LastRange, LandedTmps
    <2>3. InsideInv' /\ LeftInv' /\ CoverInv' /\ SealedInv'
        BY <2>1, <2>2 DEF KeysInv, InsideInv, LeftInv, CoverInv, SealedInv
    <2>4. UpInv'
        <3>1. GreatestInv => GreatestInv'
            BY <2>1 DEF GreatestInv
        <3>2. RunInv => RunInv'
            BY <2>1, <2>2 DEF RunInv, Clear
        <3>3. \A t \in tmps : FileInv(t) => FileInv(t)'
            BY <2>1, <2>2 DEF FileInv, Clear
        <3> QED
            BY <2>1, <3>1, <3>2, <3>3 DEF KeysInv, UpInv
    <2> QED
        BY <2>3, <2>4 DEF KeysInv
<1>2. CASE Next
    BY <1>2, KeysWrites, KeysCommit, KeysSealRun, KeysSealTable, KeysLandSeal, KeysUnlink,
       KeysPlan, KeysLandMerge, KeysStartTier, KeysLandTier, KeysCrash, KeysRecoverRun,
       KeysOpened DEF Next
<1> QED
    BY <1>1, <1>2

LEMMA KeysHolds == Loose = {} => (Spec => []KeysInv)
<1> SUFFICES ASSUME Loose = {} PROVE Spec => []KeysInv
    OBVIOUS
<1>1. ShapeInv /\ KeysInv /\ ShapeInv' /\ [Next]_vars => KeysInv'
    BY KeysKept
<1> QED
    BY <1>1, KeysInit, ShapeHolds, PTL DEF Spec

\* What a merge in flight takes is live until it lands, no other merge has it, and
\* none of it has a key outside the ranges the merge writes: start_compact leaves
\* no input of which part would be lost with it, for any number of keys, writes,
\* tables, merges and crashes, while no key above the greatest is deleted and no
\* run starts below the last range.
THEOREM MergesHoldTheirKeys == Loose = {} => (Spec => []MergesWhole)
<1> SUFFICES ASSUME Loose = {} PROVE Spec => []MergesWhole
    OBVIOUS
<1>1. ShapeInv /\ KeysInv => MergesWhole
    <2> SUFFICES ASSUME ShapeInv, KeysInv, NEW m \in merges \cup tier
                 PROVE  /\ m.inputs \subseteq segs
                        /\ \A o \in (merges \cup tier) \ {m} : m.inputs \cap o.inputs = {}
                        /\ m \in merges /\ m.fences # {} =>
                              \A s \in m.inputs : \A k \in Keys(s.c) :
                                 \E f \in m.fences : f.lo <= k /\ k < f.hi
        BY DEF MergesWhole
    <2>1. MergesHold(merges, segs, covered) /\ TierInv /\ CoverInv
        BY DEF ShapeInv, MergeInv, KeysInv
    <2>2. \A t, u \in tier : t = u
        BY <2>1 DEF TierInv
    <2>3. m.inputs \subseteq segs
        BY <2>1 DEF MergesHold, TierInv, Pieces
    <2>4. \A o \in (merges \cup tier) \ {m} : m.inputs \cap o.inputs = {}
        BY <2>1, <2>2 DEF MergesHold, TierInv
    <2>5. m \in merges /\ m.fences # {} =>
             \A s \in m.inputs : \A k \in Keys(s.c) : \E f \in m.fences : f.lo <= k /\ k < f.hi
        BY <2>1 DEF CoverInv, Inside
    <2> QED
        BY <2>3, <2>4, <2>5
<1> QED
    BY <1>1, ShapeHolds, KeysHolds, PTL

-----------------------------------------------------------------------------
(* What writes a source holds.                                                *)

\* The steps of FlattenSeq: the first sequences of ss, one after the other.
Joins(F, ss) ==
    F = [i \in 1..Len(ss) |-> IF i = 1 THEN ss[i] ELSE F[i - 1] \o ss[i]]
JoinsTo(F, ss, m) ==
    /\ F \in [1..m -> {F[i] : i \in 1..m}]
    /\ \A i \in 1..m : F[i] = IF i = 1 THEN ss[i] ELSE F[i - 1] \o ss[i]

LEMMA JoinsLonger ==
    ASSUME NEW ss, NEW m \in Nat, NEW F, JoinsTo(F, ss, m)
    PROVE  \E G : JoinsTo(G, ss, m + 1)
<1> DEFINE G == [i \in 1..(m + 1) |->
                    IF i <= m THEN F[i]
                    ELSE IF i = 1 THEN ss[i] ELSE F[i - 1] \o ss[i]]
<1>1. \A i \in 1..(m + 1) : G[i] = IF i = 1 THEN ss[i] ELSE G[i - 1] \o ss[i]
    <2> TAKE i \in 1..(m + 1)
    <2>1. CASE i <= m
        <3>1. G[i] = F[i] /\ (i # 1 => G[i - 1] = F[i - 1])
            BY <2>1
        <3>3. i \in 1..m
            BY <2>1
        <3>2. F[i] = IF i = 1 THEN ss[i] ELSE F[i - 1] \o ss[i]
            BY <3>3, Zenon DEF JoinsTo
        <3> HIDE DEF G
        <3> QED
            BY <3>1, <3>2
    <2>2. CASE i > m
        BY <2>2
    <2> QED
        BY <2>1, <2>2
<1>2. G \in [1..(m + 1) -> {G[i] : i \in 1..(m + 1)}]
    OBVIOUS
<1> HIDE DEF G
<1> QED
    BY <1>1, <1>2 DEF JoinsTo

LEMMA JoinsExist ==
    ASSUME NEW ss, Len(ss) \in Nat PROVE \E F : Joins(F, ss)
<1> DEFINE B == {m \in Nat : ~\E F : JoinsTo(F, ss, m)}
<1>1. B = {}
    <2> SUFFICES ASSUME B # {} PROVE FALSE
        OBVIOUS
    <2>1. PICK m \in B : \A y \in B : m <= y
        BY LeastKey
    <2>2. m # 0
        <3>1. JoinsTo(<<>>, ss, 0)
            BY DEF JoinsTo
        <3> QED
            BY <2>1, <3>1
    <2>3. m - 1 \in Nat /\ m - 1 \notin B
        BY <2>1, <2>2
    <2>4. PICK n \in Nat : n = m - 1
        BY <2>3
    <2>5. PICK F : JoinsTo(F, ss, n)
        BY <2>3, <2>4
    <2>6. \E G : JoinsTo(G, ss, n + 1)
        BY <2>5, JoinsLonger
    <2>7. n + 1 = m
        BY <2>1, <2>4
    <2> QED
        BY <2>1, <2>6, <2>7
<1>2. PICK F : JoinsTo(F, ss, Len(ss))
    BY <1>1
<1>3. Joins(F, ss)
    BY <1>2 DEF JoinsTo, Joins
<1> QED
    BY <1>3

LEMMA FlattenOf ==
    ASSUME NEW W, NEW ss, Len(ss) \in Nat, Len(ss) = 0 => ss = <<>>,
           \A i \in 1..Len(ss) : ss[i] \in Seq(W)
    PROVE  FlattenSeq(ss) \in Seq(W)
<1>1. CASE Len(ss) = 0
    BY <1>1 DEF FlattenSeq
<1>2. CASE Len(ss) # 0
    <2> DEFINE F == CHOOSE F : Joins(F, ss)
    <2>1. Joins(F, ss)
        BY JoinsExist
    <2>2. FlattenSeq(ss) = F[Len(ss)]
        BY <1>2 DEF FlattenSeq, Joins
    <2> HIDE DEF F
    <2>3. \A i \in 1..Len(ss) : F[i] = IF i = 1 THEN ss[i] ELSE F[i - 1] \o ss[i]
        BY <2>1 DEF Joins
    <2> DEFINE B == {i \in 1..Len(ss) : F[i] \notin Seq(W)}
    <2>4. B = {}
        <3> SUFFICES ASSUME B # {} PROVE FALSE
            OBVIOUS
        <3>5. B \in SUBSET Nat
            OBVIOUS
        <3>1. PICK m \in B : \A y \in B : m <= y
            <4> HIDE DEF B
            <4> QED
                BY <3>5, LeastKey
        <3>2. m # 1
            BY <2>3, <3>1
        <3>3. m - 1 \in 1..Len(ss) /\ m - 1 \notin B
            BY <3>1, <3>2
        <3>4. F[m - 1] \in Seq(W) /\ ss[m] \in Seq(W) /\ F[m] = F[m - 1] \o ss[m]
            BY <2>3, <3>1, <3>2, <3>3
        <3>6. F[m] \in Seq(W)
            BY <3>4, ConcatRange
        <3> QED
            BY <3>1, <3>6
    <2> QED
        BY <1>2, <2>2, <2>4
<1> QED
    BY <1>1, <1>2

\* A chain cut at its newest tombstone, and its live values, are of the chain.
LEMMA CutOf ==
    ASSUME NEW W, NEW s \in Seq(W) PROVE Cut(s) \in Seq(W)
<1> DEFINE D == {i \in DOMAIN s : s[i].del}
<1>1. CASE D = {}
    BY <1>1 DEF Cut
<1>2. CASE D # {}
    <2>1. D \in SUBSET (0..Len(s)) /\ Len(s) \in Nat
        OBVIOUS
    <2>2. Max(D) \in D
        BY <1>2, <2>1, MaxBelow
    <2>3. Cut(s) = SubSeq(s, Max(D), Len(s))
        BY <1>2 DEF Cut
    <2>4. PICK a \in DOMAIN s : a = Max(D)
        BY <2>2
    <2>5. SubSeq(s, a, Len(s)) \in Seq(W)
        <3>1. a \in 1..Len(s)
            OBVIOUS
        <3> QED
            BY <3>1
    <2> QED
        BY <2>3, <2>4, <2>5
<1> QED
    BY <1>1, <1>2

LEMMA LiveOf ==
    ASSUME NEW W, NEW s \in Seq(W) PROVE Live(s) \in Seq(W)
<1> DEFINE D == {i \in DOMAIN s : s[i].del}
<1>1. CASE D = {}
    BY <1>1 DEF Live
<1>2. CASE D # {}
    <2>1. D \in SUBSET (0..Len(s)) /\ Len(s) \in Nat
        OBVIOUS
    <2>2. Max(D) \in D
        BY <1>2, <2>1, MaxBelow
    <2>3. Live(s) = SubSeq(s, Max(D) + 1, Len(s))
        BY <1>2 DEF Live
    <2>4. PICK a \in DOMAIN s : a = Max(D)
        BY <2>2
    <2>5. SubSeq(s, a + 1, Len(s)) \in Seq(W)
        <3>1. a \in 1..Len(s) /\ a + 1 \in 1..(Len(s) + 1)
            BY <2>1
        <3> QED
            BY <2>1, <3>1
    <2> QED
        BY <2>3, <2>4, <2>5
<1> QED
    BY <1>1, <1>2

LEMMA ChainsOf ==
    ASSUME NEW W, NEW ws \in Seq(W) PROVE Chains(ws) \in [Key -> Seq(W)]
<1>1. ASSUME NEW k \in Key PROVE Subsequence(ws, {i \in DOMAIN ws : ws[i].k = k}) \in Seq(W)
    <2>1. {i \in DOMAIN ws : ws[i].k = k} \in SUBSET DOMAIN ws
        OBVIOUS
    <2> QED
        BY <2>1, SubsequenceOf
<1> QED
    BY <1>1 DEF Chains

LEMMA PieceOf ==
    ASSUME NEW W, NEW c \in [Key -> Seq(W)], NEW f, NEW kind, NEW seq, NEW id
    PROVE  Piece(f, kind, seq, id, c).c \in [Key -> Seq(W)]
<1>1. \A k \in Key : Cut(c[k]) \in Seq(W)
    BY CutOf
<1>2. \A k \in Key : (IF f.lo <= k /\ k < f.hi THEN Cut(c[k]) ELSE <<>>) \in Seq(W)
    BY <1>1
<1> QED
    BY <1>2 DEF Piece

-----------------------------------------------------------------------------
(* seg_order is total on what the store has at a time, so that a merge reads  *)
(* its inputs one after the other.                                            *)

LEMMA RankShape ==
    ASSUME NEW s, Segment(s) PROVE \A i \in 1..5 : Rank(s)[i] \in Int
<1> TAKE i \in 1..5
<1>1. i = 1 \/ i = 2 \/ i = 3 \/ i = 4 \/ i = 5
    OBVIOUS
<1>2. /\ Rank(s)[1] = 1 - s.level /\ Rank(s)[2] = s.lo /\ Rank(s)[3] = s.seq
      /\ Rank(s)[4] = (IF s.kind = "seg" THEN 1 ELSE 0) /\ Rank(s)[5] = s.id
    BY DEF Rank
<1>3. 1 - s.level \in Int /\ s.lo \in Int /\ s.seq \in Int /\ s.id \in Int
    BY Numbers DEF Segment, Fenced
<1> QED
    BY <1>1, <1>2, <1>3

\* Two segments that differ in a place are ordered by the first such place.
LEMMA OrderTotal ==
    ASSUME NEW s, Segment(s), NEW t, Segment(t), NEW i \in 1..5, Rank(s)[i] # Rank(t)[i]
    PROVE  SegOrder(s, t) \/ SegOrder(t, s)
<1> DEFINE D == {j \in 1..5 : Rank(s)[j] # Rank(t)[j]}
<1>1. D \in SUBSET Nat /\ D # {}
    OBVIOUS
<1>2. PICK m \in D : \A y \in D : m <= y
    <2> HIDE DEF D
    <2> QED
        BY <1>1, LeastKey
<1>3. \A j \in 1..(m - 1) : Rank(s)[j] = Rank(t)[j]
    BY <1>2
<1>4. m \in 1..5 /\ Rank(s)[m] \in Int /\ Rank(t)[m] \in Int /\ Rank(s)[m] # Rank(t)[m]
    BY <1>2, RankShape
<1>5. Rank(s)[m] < Rank(t)[m] \/ Rank(t)[m] < Rank(s)[m]
    BY <1>4
<1>6. \A j \in 1..(m - 1) : Rank(t)[j] = Rank(s)[j]
    BY <1>3
<1> QED
    BY <1>3, <1>4, <1>5, <1>6, Zenon DEF SegOrder

LEMMA OrderTransitive ==
    ASSUME NEW s, Segment(s), NEW t, Segment(t), NEW u, Segment(u), SegOrder(s, t), SegOrder(t, u)
    PROVE  SegOrder(s, u)
<1>1. PICK i \in 1..5 : Rank(s)[i] < Rank(t)[i] /\ \A j \in 1..(i - 1) : Rank(s)[j] = Rank(t)[j]
    BY Zenon DEF SegOrder
<1>2. PICK h \in 1..5 : Rank(t)[h] < Rank(u)[h] /\ \A j \in 1..(h - 1) : Rank(t)[j] = Rank(u)[j]
    BY Zenon DEF SegOrder
<1>3. \A j \in 1..5 : Rank(s)[j] \in Int /\ Rank(t)[j] \in Int /\ Rank(u)[j] \in Int
    BY RankShape
<1>4. \E m \in 1..5 : /\ Rank(s)[m] < Rank(u)[m]
                      /\ \A j \in 1..(m - 1) : Rank(s)[j] = Rank(u)[j]
    <2>1. CASE i <= h
        <3>1. \A j \in 1..(i - 1) : Rank(s)[j] = Rank(u)[j]
            <4> TAKE j \in 1..(i - 1)
            <4>1. j \in 1..(h - 1)
                BY <2>1
            <4> QED
                BY <1>1, <1>2, <4>1
        <3>2. Rank(t)[i] <= Rank(u)[i]
            <4>1. i = h \/ i \in 1..(h - 1)
                BY <2>1
            <4> QED
                BY <1>2, <1>3, <4>1
        <3>3. Rank(s)[i] < Rank(u)[i]
            BY <1>1, <1>3, <3>2
        <3> QED
            BY <3>1, <3>3
    <2>2. CASE h < i
        <3>1. \A j \in 1..(h - 1) : Rank(s)[j] = Rank(u)[j]
            <4> TAKE j \in 1..(h - 1)
            <4>1. j \in 1..(i - 1)
                BY <2>2
            <4> QED
                BY <1>1, <1>2, <4>1
        <3>2. Rank(s)[h] = Rank(t)[h]
            <4>1. h \in 1..(i - 1)
                BY <2>2
            <4> QED
                BY <1>1, <4>1
        <3>3. Rank(s)[h] < Rank(u)[h]
            BY <1>2, <3>2
        <3> QED
            BY <3>1, <3>3
    <2> QED
        BY <2>1, <2>2
<1> QED
    BY <1>4 DEF SegOrder

\* Named apart: no two pieces have an id in common.
NamedApart(S) == \A s, t \in Pieces(S) : s.id = t.id => s = t

LEMMA PlacesDiffer ==
    ASSUME NEW S, \A s \in S : Segment(s), Tiled(Parts(S)), NamedApart(S),
           NEW s \in S, NEW t \in S, s # t
    PROVE  \E i \in 1..5 : Rank(s)[i] # Rank(t)[i]
<1>1. \A x : /\ Rank(x)[1] = 1 - x.level /\ Rank(x)[2] = x.lo /\ Rank(x)[5] = x.id
    BY DEF Rank
<1>2. s.level \in {0, 1} /\ t.level \in {0, 1}
    BY DEF Segment
<1>3. CASE s.level # t.level
    <2>1. 1 - s.level # 1 - t.level
        BY <1>2, <1>3
    <2> QED
        BY <1>1, <2>1
<1>4. CASE s \in Parts(S) /\ t \in Parts(S)
    <2>1. s.lo # t.lo
        BY <1>4, LowsDiffer
    <2> QED
        BY <1>1, <2>1
<1>5. CASE s \in Pieces(S) /\ t \in Pieces(S)
    <2>1. s.id # t.id
        BY <1>5 DEF NamedApart
    <2> QED
        BY <1>1, <2>1
<1> QED
    BY <1>2, <1>3, <1>4, <1>5 DEF Parts, Pieces

LEMMA PiecesFinite ==
    ASSUME NEW S, \A s \in S : Segment(s), NamedApart(S), NEW N \in Nat,
           \A s \in S : s.id <= N
    PROVE  IsFiniteSet(Pieces(S))
<1> DEFINE P == Pieces(S)
           f == [s \in P |-> s.id]
<1>1. \A s \in P : s.id \in 0..N
    BY DEF Pieces, Segment
<1>2. f \in [P -> 0..N] /\ \A s, t \in P : f[s] = f[t] => s = t
    BY <1>1 DEF NamedApart
<1> HIDE DEF f, P
<1>3. f \in Injection(P, 0..N)
    BY <1>2, Zenon DEF Injection, IsInjective
<1>4. IsFiniteSet(0..N)
    <2>1. 0 \in Int /\ N \in Int
        OBVIOUS
    <2> QED
        BY <2>1, FS_Interval
<1> QED
    BY <1>3, <1>4, FS_Injection, Zenon DEF P

LEMMA InOrderOf ==
    ASSUME NEW S, \A s \in S : Segment(s), Tiled(Parts(S)), NamedApart(S), NEW N \in Nat,
           \A s \in S : s.id <= N, NEW T \in SUBSET S
    PROVE  InOrder(T) \in Seq(T)
<1> DEFINE n == Cardinality(T)
           below == [s \in T |-> {t \in T : SegOrder(t, s)}]
           r(s) == Cardinality({t \in T : SegOrder(t, s)})
<1>1. IsFiniteSet(T) /\ n \in Nat
    <2>1. S = Parts(S) \cup Pieces(S)
        BY DEF Parts, Pieces
    <2>2. IsFiniteSet(Parts(S)) /\ IsFiniteSet(Pieces(S))
        BY TiledFinite, PiecesFinite
    <2>3. IsFiniteSet(S)
        BY <2>1, <2>2, FS_Union
    <2>4. IsFiniteSet(T)
        BY <2>3, FS_Subset
    <2> QED
        BY <2>4, FS_CardinalityType
<1>2. below \in [T -> SUBSET T] /\ \A x \in T : below[x] = {t \in T : SegOrder(t, x)}
    OBVIOUS
<1>3. \A x, y \in T : x \in below[y] <=> SegOrder(x, y)
    OBVIOUS
<1> HIDE DEF below
<1>4. \A x \in T : x \notin below[x]
    BY <1>3, SelfOrder
<1>5. \A x, y \in T : x # y => x \in below[y] \/ y \in below[x]
    <2> TAKE x, y \in T
    <2> HAVE x # y
    <2>1. PICK i \in 1..5 : Rank(x)[i] # Rank(y)[i]
        BY PlacesDiffer
    <2> QED
        BY <1>3, <2>1, OrderTotal
<1>6. \A x, y \in T : x \in below[y] => below[x] \subseteq below[y]
    <2> TAKE x, y \in T
    <2> HAVE x \in below[y]
    <2>1. \A z \in below[x] : z \in T
        BY <1>2
    <2>2. \A z \in below[x] : z \in below[y]
        BY <1>3, <2>1, OrderTransitive
    <2> QED
        BY <2>2
<1>7. \A i \in 1..Cardinality(T) : \E x \in T : Cardinality(below[x]) = i - 1
    <2>1. IsFiniteSet(T) /\ below \in [T -> SUBSET T]
        BY <1>1, <1>2
    <2>2. /\ \A x \in T : Cardinality(below[x]) \in 0..(Cardinality(T) - 1)
          /\ \A x, y \in T : x \in below[y] =>
                Cardinality(below[x]) < Cardinality(below[y])
          /\ \A i \in 1..Cardinality(T) : \E x \in T : Cardinality(below[x]) = i - 1
        BY ONLY <2>1, <1>4, <1>5, <1>6, Places, Zenon
    <2> QED
        BY <2>2
<1>8. \A i \in 1..n : \E x \in T : r(x) = i - 1
    BY <1>2, <1>7
<1>9. InOrder(T) = [i \in 1..n |-> CHOOSE s \in T : r(s) = i - 1]
    BY DEF InOrder
<1>10. \A i \in 1..n : (CHOOSE s \in T : r(s) = i - 1) \in T
    BY <1>8, Zenon
<1> HIDE DEF n, r
<1>11. InOrder(T) \in [1..n -> T]
    BY <1>9, <1>10
<1> QED
    BY <1>1, <1>11

\* What a merge holds of a key is what its inputs do.
LEMMA MergedOf ==
    ASSUME NEW W, NEW T, InOrder(T) \in Seq(T), \A s \in T : s.c \in [Key -> Seq(W)], NEW k \in Key
    PROVE  Merged(T, k) \in Seq(W)
<1>1. PICK o \in Seq(T) : o = InOrder(T)
    OBVIOUS
<1>2. PICK ss : ss = [i \in DOMAIN o |-> o[i].c[k]]
    OBVIOUS
<1>3. DOMAIN o = 1..Len(o) /\ Len(o) \in Nat
    OBVIOUS
<1>4. \A i \in 1..Len(o) : o[i] \in T
    OBVIOUS
<1>5. \A i \in 1..Len(o) : ss[i] \in Seq(W)
    BY <1>2, <1>3, <1>4
<1>6. ss \in [1..Len(o) -> Seq(W)]
    BY <1>2, <1>3, <1>5
<1>7. ss \in Seq(Seq(W)) /\ Len(ss) = Len(o)
    BY <1>3, <1>6
<1>8. FlattenSeq(ss) \in Seq(W)
    BY <1>3, <1>5, <1>7, FlattenOf
<1> QED
    BY <1>1, <1>2, <1>8 DEF Merged

LEMMA BottomOf ==
    ASSUME NEW W, NEW T, InOrder(T) \in Seq(T), \A s \in T : s.c \in [Key -> Seq(W)],
           NEW f, NEW seq
    PROVE  Bottom(T, f, seq).c \in [Key -> Seq(W)]
<1>1. \A k \in Key : Live(Merged(T, k)) \in Seq(W)
    BY MergedOf, LiveOf
<1>2. \A k \in Key : (IF k \in Held(T, f) THEN Live(Merged(T, k)) ELSE <<>>) \in Seq(W)
    BY <1>1
<1> QED
    BY <1>2 DEF Bottom

LEMMA TieredOf ==
    ASSUME NEW W, NEW T, InOrder(T) \in Seq(T), \A s \in T : s.c \in [Key -> Seq(W)],
           NEW f, NEW id
    PROVE  Tiered(T, f, id).c \in [Key -> Seq(W)]
<1>1. \A k \in Key : (IF k \in Held(T, f) THEN Merged(T, k) ELSE <<>>) \in Seq(W)
    BY MergedOf
<1>2. PICK c \in [Key -> Seq(W)] : c = [k \in Key |-> IF k \in Held(T, f) THEN Merged(T, k) ELSE <<>>]
    BY <1>1
<1>3. Tiered(T, f, id) = Piece(f, "pcs", Max({s.seq : s \in T}), id, c)
    BY <1>2 DEF Tiered
<1> QED
    BY <1>3, PieceOf

-----------------------------------------------------------------------------
(* Names: what a seal takes of the segment ids, and what it lands under them. *)

\* The ids a job was given: one for a run's file, one for a piece of each range.
Files(j) == IF j.tmp # 0 THEN 1 ELSE Max({1, Cardinality(j.fences)})
Ids(j) == {n \in Nat : j.id <= n /\ n < j.id + Files(j)}
LowsApart(fs) == \A f, g \in fs : f.lo = g.lo => f = g

LEMMA MaxOfTwo ==
    ASSUME NEW m \in Nat, NEW n \in Nat
    PROVE  Max({m, n}) \in Nat /\ Max({m, n}) >= m /\ Max({m, n}) >= n /\ Max({m, n}) \in {m, n}
<1>1. {m, n} \in SUBSET (0..(m + n)) /\ {m, n} # {} /\ m + n \in Nat
    OBVIOUS
<1>2. PICK S : S = {m, n}
    OBVIOUS
<1>3. Max(S) \in S /\ \A y \in S : y <= Max(S)
    BY <1>1, <1>2, MaxBelow
<1> QED
    BY <1>2, <1>3

LEMMA FilesOf ==
    ASSUME NEW fs \in SUBSET Fence
    PROVE  /\ IsFiniteSet(fs) /\ Cardinality(fs) \in Nat
           /\ Max({1, Cardinality(fs)}) \in Nat /\ Max({1, Cardinality(fs)}) >= 1
           /\ Max({1, Cardinality(fs)}) >= Cardinality(fs)
<1>1. IsFiniteSet(fs)
    BY FenceFinite, FS_Subset
<1>2. Cardinality(fs) \in Nat
    BY <1>1, FS_CardinalityType
<1>3. PICK n \in Nat : n = Cardinality(fs)
    BY <1>2
<1>4. Max({1, n}) \in Nat /\ Max({1, n}) >= 1 /\ Max({1, n}) >= n
    BY MaxOfTwo
<1> QED
    BY <1>1, <1>3, <1>4

\* Ranges that start apart have places apart.
LEMMA RangePlaces ==
    ASSUME NEW fs \in SUBSET Fence, LowsApart(fs)
    PROVE  /\ \A f \in fs : Cardinality({g \in fs : g.lo < f.lo}) \in 0..(Cardinality(fs) - 1)
           /\ \A f, h \in fs :
                 Cardinality({g \in fs : g.lo < f.lo}) = Cardinality({g \in fs : g.lo < h.lo}) => f = h
<1> DEFINE below == [f \in fs |-> {g \in fs : g.lo < f.lo}]
<1>1. IsFiniteSet(fs) /\ \A f \in fs : f.lo \in Nat
    BY FilesOf, FenceShape
<1>2. below \in [fs -> SUBSET fs] /\ \A x \in fs : below[x] = {g \in fs : g.lo < x.lo}
    OBVIOUS
<1>3. \A x, y \in fs : x \in below[y] <=> x.lo < y.lo
    OBVIOUS
<1> HIDE DEF below
<1>4. \A x \in fs : x \notin below[x]
    BY <1>1, <1>3
<1>5. \A x, y \in fs : x # y => x \in below[y] \/ y \in below[x]
    BY <1>1, <1>3 DEF LowsApart
<1>6. \A x, y \in fs : x \in below[y] => below[x] \subseteq below[y]
    BY <1>1, <1>2
<1>7. IsFiniteSet(fs) /\ below \in [fs -> SUBSET fs]
    BY <1>1, <1>2
<1>8. /\ \A x \in fs : Cardinality(below[x]) \in 0..(Cardinality(fs) - 1)
      /\ \A x, y \in fs : x \in below[y] => Cardinality(below[x]) < Cardinality(below[y])
      /\ \A i \in 1..Cardinality(fs) : \E x \in fs : Cardinality(below[x]) = i - 1
    BY ONLY <1>4, <1>5, <1>6, <1>7, Places, Zenon
<1>9. \A x, y \in fs : Cardinality(below[x]) = Cardinality(below[y]) => x = y
    <2> TAKE x, y \in fs
    <2>1. Cardinality(below[x]) \in Int /\ Cardinality(below[y]) \in Int
        BY <1>8
    <2> QED
        BY <1>5, <1>8, <2>1
<1> QED
    BY <1>2, <1>8, <1>9

LEMMA LandedOf ==
    ASSUME NEW j \in Job, j.tmp # 0 => \A g \in j.fences : g.hi = Top, j.first => j.fences = {},
           LowsApart(j.fences), NEW W, j.log \in Seq(W)
    PROVE  /\ \A p \in LandedSegs(j) : p.c \in [Key -> Seq(W)]
           /\ \A p \in Pieces(LandedSegs(j)) : p.id \in Ids(j)
           /\ NamedApart(LandedSegs(j))
<1> DEFINE fs == IF j.fences = {} THEN {Whole} ELSE j.fences
           at(f) == Cardinality({g \in fs : g.lo < f.lo})
           kind == IF j.fences = {} THEN "seg" ELSE "pcs"
           ps == IF j.tmp # 0 THEN {RunPiece(j.fences, j.seq, j.id, j.log)}
                 ELSE CutAt(j.fences, j.seq, j.id, Chains(j.log))
<1>1. j.seq \in Nat /\ j.id \in Nat /\ j.fences \in SUBSET Fence
    BY DEF Job
<1>2. PICK ch \in [Key -> Seq(W)] : ch = Chains(j.log)
    BY ChainsOf
<1>3. /\ \A p \in ps : Segment(p) /\ p.level = 0 /\ p.c \in [Key -> Seq(W)] /\ p.id \in Ids(j)
      /\ \A p, q \in ps : p.id = q.id => p = q
    <2>1. CASE j.tmp # 0
        <3> DEFINE p == RunPiece(j.fences, j.seq, j.id, j.log)
        <3>1. Segment(p) /\ p.level = 0 /\ p.id = j.id /\ p.c = ch
            BY <1>1, <1>2, <2>1, RunShape
        <3>2. ps = {p}
            BY <2>1
        <3>3. j.id \in Ids(j)
            BY <1>1, <2>1 DEF Ids, Files
        <3> HIDE DEF p, ps
        <3> QED
            BY <1>2, <3>1, <3>2, <3>3
    <2>2. CASE ~(j.tmp # 0)
        <3>1. \A p \in ps : \E f \in fs : p = Piece(f, kind, j.seq, j.id + at(f), ch)
            BY <1>2, <2>2 DEF CutAt
        <3>2. fs \in SUBSET Fence /\ LowsApart(fs)
            BY <1>1, WholeFence DEF LowsApart
        <3>3. /\ \A f \in fs : at(f) \in 0..(Cardinality(fs) - 1)
              /\ \A f, g \in fs : at(f) = at(g) => f = g
            <4> HIDE DEF fs
            <4> QED
                BY <3>2, RangePlaces
        <3>4. Cardinality(fs) \in Nat /\ Cardinality(fs) <= Files(j) /\ Files(j) \in Nat
            <4>1. Files(j) = Max({1, Cardinality(j.fences)})
                BY <2>2 DEF Files
            <4>2. Cardinality({Whole}) = 1
                BY FS_Singleton
            <4> QED
                BY <1>1, <4>1, <4>2, FilesOf
        <3> HIDE DEF fs, at, kind, ps
        <3>5. \A f \in fs : at(f) \in Nat /\ at(f) < Files(j) /\ j.id + at(f) \in Nat
            <4> TAKE f \in fs
            <4>1. at(f) \in 0..(Cardinality(fs) - 1)
                BY <3>3
            <4> QED
                BY <1>1, <3>4, <4>1
        <3>6. ASSUME NEW f \in fs, NEW n \in Nat, NEW p, p = Piece(f, kind, j.seq, n, ch)
              PROVE  Segment(p) /\ p.level = 0 /\ p.id = n /\ p.c \in [Key -> Seq(W)]
            <4>1. /\ p.level = 0 /\ p.lo = f.lo /\ p.hi = f.hi /\ p.seq = j.seq /\ p.id = n
                  /\ p = [level |-> p.level, lo |-> p.lo, hi |-> p.hi, kind |-> p.kind,
                          seq |-> p.seq, id |-> p.id, c |-> p.c]
                BY <3>6 DEF Piece
            <4>2. Fenced(f)
                BY <3>2, FenceShape
            <4>3. Segment(p)
                BY <1>1, <4>1, <4>2 DEF Segment, Fenced
            <4> QED
                BY <3>6, <4>1, <4>3, PieceOf
        <3>7. ASSUME NEW p \in ps
              PROVE  \E f \in fs : /\ p = Piece(f, kind, j.seq, j.id + at(f), ch)
                                   /\ Segment(p) /\ p.level = 0 /\ p.id = j.id + at(f)
                                   /\ p.c \in [Key -> Seq(W)] /\ p.id \in Ids(j)
            <4>1. PICK f \in fs : p = Piece(f, kind, j.seq, j.id + at(f), ch)
                BY <3>1
            <4>2. PICK n \in Nat : n = j.id + at(f)
                BY <3>5
            <4>3. Segment(p) /\ p.level = 0 /\ p.id = n /\ p.c \in [Key -> Seq(W)]
                BY <3>6, <4>1, <4>2
            <4>4. n \in Ids(j)
                BY <1>1, <3>4, <3>5, <4>2 DEF Ids
            <4> QED
                BY <4>1, <4>2, <4>3, <4>4
        <3>8. ASSUME NEW p \in ps, NEW q \in ps, p.id = q.id PROVE p = q
            <4>1. PICK f \in fs : p = Piece(f, kind, j.seq, j.id + at(f), ch) /\ p.id = j.id + at(f)
                BY <3>7
            <4>2. PICK g \in fs : q = Piece(g, kind, j.seq, j.id + at(g), ch) /\ q.id = j.id + at(g)
                BY <3>7
            <4>3. at(f) = at(g)
                BY <1>1, <3>5, <3>8, <4>1, <4>2
            <4>4. f = g
                BY <3>3, <4>3
            <4> QED
                BY <4>1, <4>2, <4>4
        <3> QED
            BY <3>7, <3>8
    <2> QED
        BY <2>1, <2>2
<1>4. LandedSegs(j) = ps \/ LandedSegs(j) = {Promoted(p, Whole) : p \in ps}
    BY DEF LandedSegs
<1> HIDE DEF ps
<1>5. CASE LandedSegs(j) = ps
    BY <1>3, <1>5 DEF NamedApart, Pieces, Parts
<1>6. CASE LandedSegs(j) = {Promoted(p, Whole) : p \in ps}
    <2>1. \A p \in ps : Promoted(p, Whole).level = 1 /\ Promoted(p, Whole).c = p.c
        BY <1>3, WholeFence, PromotedShape
    <2>2. Pieces(LandedSegs(j)) = {}
        BY <1>6, <2>1 DEF Pieces, Parts
    <2> QED
        BY <1>3, <1>6, <2>1, <2>2 DEF NamedApart
<1> QED
    BY <1>4, <1>5, <1>6

\* A promotion renames: what a segment holds stays.
LEMMA PromotedAllOf ==
    ASSUME NEW S, \A s \in S : Segment(s), Chain(Whole, 0, S)
    PROVE  \A p \in PromoteAll(S) : p.level = 1 /\ \E s \in S : p.c = s.c
<1>1. \A p \in PromoteAll(S) : p.level = 1
    BY PromotedAll
<1>2. \A p \in PromoteAll(S) : \E s \in S : \E f : p = Promoted(s, f)
    BY DEF PromoteAll
<1>3. ASSUME NEW s \in S, NEW f PROVE Promoted(s, f).c = s.c
    BY DEF Promoted, Segment
<1> QED
    BY <1>1, <1>2, <1>3

LEMMA PromotedDueOf ==
    ASSUME NEW S, \A s \in S : Segment(s), Tiled(Parts(S)),
           NEW due \in SUBSET Fences(Parts(S)), NEW busy
    PROVE  LET p == PromoteDue(S, due, busy) IN
           /\ \A q \in p.segs : \E s \in S : q.c = s.c
           /\ Pieces(p.segs) \subseteq Pieces(S)
<1> DEFINE now == {f \in due : Promotable(S, f, busy)}
           gone == UNION {Candidates(S, f) \cup {Holder(S, f)} : f \in now}
           new == UNION {Became(S, f) : f \in now}
<1>1. PromoteDue(S, due, busy).segs = (S \ gone) \cup new
    BY DEF PromoteDue
<1>2. \A f \in now : f \in Fences(Parts(S)) /\ Promotable(S, f, busy)
    OBVIOUS
<1>3. ASSUME NEW s \in S, NEW f PROVE Promoted(s, f).c = s.c
    BY DEF Promoted, Segment
<1>4. ASSUME NEW f \in now, NEW q \in Became(S, f)
      PROVE  q.level = 1 /\ \E s \in S : q.c = s.c
    <2>1. q.level = 1
        BY <1>2, BecameShape
    <2>2. \E s \in Candidates(S, f) \cup {Holder(S, f)} : \E g : q = Promoted(s, g)
        BY DEF Became, Renamed
    <2>3. Candidates(S, f) \cup {Holder(S, f)} \subseteq S
        BY <1>2, HolderOf DEF Candidates, Pieces, Parts
    <2> QED
        BY <1>3, <2>1, <2>2, <2>3
<1>5. \A q \in new : \E f \in now : q \in Became(S, f)
    OBVIOUS
<1> HIDE DEF now, gone, new
<1>6. \A q \in new : q.level = 1 /\ \E s \in S : q.c = s.c
    BY <1>4, <1>5
<1> QED
    BY <1>1, <1>6 DEF Pieces, Parts

\* No id has two owners among the tables Q to land, the open run r, the piece merge
\* T and the pieces P, and none is as great as the next one to give.
Named(Q, r, T, P, n) ==
    /\ \A i \in DOMAIN Q : \A x \in Ids(Q[i]) : x < n
    /\ \A i, h \in DOMAIN Q : i # h => Ids(Q[i]) \cap Ids(Q[h]) = {}
    /\ r # 0 => /\ \A i \in DOMAIN Q : r \notin Ids(Q[i])
                /\ \A t \in T \cup P : t.id # r
    /\ \A t \in T : t.id < n /\ \A s \in P : s.id # t.id
    /\ \A s \in P : s.id < n
    /\ \A t \in T \cup P : \A i \in DOMAIN Q : t.id \notin Ids(Q[i])

LEMMA NamedRun ==
    ASSUME NEW Q, NEW r \in Nat, NEW T, NEW P, NEW n \in Nat, Named(Q, r, T, P, n),
           \A t \in T \cup P : t.id \in Nat,
           NEW s \in Nat, NEW m \in Nat, n <= m, s = r \/ s = 0 \/ (n <= s /\ s < m)
    PROVE  Named(Q, s, T, P, m)
<1>1. \A i \in DOMAIN Q : \A x \in Ids(Q[i]) : x \in Nat
    BY DEF Ids
<1> QED
    BY <1>1 DEF Named

LEMMA NamedQueued ==
    ASSUME NEW Q, Q \in Seq(Job), NEW r \in Nat, NEW T, NEW P, NEW n \in Nat, Named(Q, r, T, P, n),
           \A t \in T \cup P : t.id \in Nat,
           NEW j \in Job, NEW m \in Nat, n <= m,
           \A x \in Ids(j) : x < m /\ (n <= x \/ (x = r /\ r # 0))
    PROVE  Named(Append(Q, j), 0, T, P, m)
<1>1. \A i \in DOMAIN Q : \A x \in Ids(Q[i]) : x \in Nat
    BY DEF Ids
<1>2. PICK R : R = Append(Q, j)
    OBVIOUS
<1>3. /\ Len(Q) \in Nat /\ DOMAIN Q = 1..Len(Q) /\ DOMAIN R = 1..(Len(Q) + 1)
      /\ R[Len(Q) + 1] = j /\ \A i \in 1..Len(Q) : R[i] = Q[i]
    BY <1>2
<1>4. \A i \in DOMAIN R : (i \in DOMAIN Q /\ R[i] = Q[i]) \/ (i = Len(Q) + 1 /\ R[i] = j)
    BY <1>3
<1>5. \A x \in Ids(j) : x \in Nat /\ x < m /\ (n <= x \/ (x = r /\ r # 0))
    BY DEF Ids
<1>6. \A i \in DOMAIN Q : Ids(Q[i]) \cap Ids(j) = {}
    BY <1>1, <1>5 DEF Named
<1>7. \A i \in DOMAIN R : \A x \in Ids(R[i]) : x < m
    <2> SUFFICES ASSUME NEW i \in DOMAIN R, NEW x \in Ids(R[i]) PROVE x < m
        OBVIOUS
    <2>1. CASE i \in DOMAIN Q /\ R[i] = Q[i]
        BY <1>1, <2>1 DEF Named
    <2>2. CASE R[i] = j
        BY <1>5, <2>2
    <2> QED
        BY <1>4, <2>1, <2>2
<1>8. \A i, h \in DOMAIN R : i # h => Ids(R[i]) \cap Ids(R[h]) = {}
    <2> SUFFICES ASSUME NEW i \in DOMAIN R, NEW h \in DOMAIN R, i # h
                 PROVE  Ids(R[i]) \cap Ids(R[h]) = {}
        OBVIOUS
    <2>1. CASE i \in DOMAIN Q /\ R[i] = Q[i] /\ h \in DOMAIN Q /\ R[h] = Q[h]
        BY <2>1 DEF Named
    <2>2. CASE i = Len(Q) + 1 /\ R[i] = j /\ h \in DOMAIN Q /\ R[h] = Q[h]
        BY <1>6, <2>2
    <2>3. CASE h = Len(Q) + 1 /\ R[h] = j /\ i \in DOMAIN Q /\ R[i] = Q[i]
        BY <1>6, <2>3
    <2> QED
        BY <1>4, <2>1, <2>2, <2>3
<1>9. \A t \in T \cup P : \A i \in DOMAIN R : t.id \notin Ids(R[i])
    <2> SUFFICES ASSUME NEW t \in T \cup P, NEW i \in DOMAIN R PROVE t.id \notin Ids(R[i])
        OBVIOUS
    <2>1. CASE i \in DOMAIN Q /\ R[i] = Q[i]
        BY <2>1 DEF Named
    <2>2. CASE R[i] = j
        <3>1. t.id \in Nat /\ t.id < n /\ (r # 0 => t.id # r)
            BY DEF Named
        <3> QED
            BY <1>5, <2>2, <3>1
    <2> QED
        BY <1>4, <2>1, <2>2
<1>10. /\ \A t \in T : t.id < m /\ \A s \in P : s.id # t.id
       /\ \A s \in P : s.id < m
    BY DEF Named
<1>11. Named(R, 0, T, P, m)
    BY <1>7, <1>8, <1>9, <1>10 DEF Named
<1> QED
    BY <1>2, <1>11

LEMMA NamedLanded ==
    ASSUME NEW Q, Q \in Seq(Job), Q # <<>>, NEW r \in Nat, NEW T, NEW P, NEW n \in Nat,
           Named(Q, r, T, P, n),
           NEW L, \A p \in L : p.id \in Ids(Head(Q))
    PROVE  Named(Tail(Q), r, T, P \cup L, n)
<1>1. PICK R : R = Tail(Q)
    OBVIOUS
<1>2. /\ Len(Q) \in Nat /\ DOMAIN Q = 1..Len(Q) /\ 1 \in DOMAIN Q /\ Head(Q) = Q[1]
      /\ DOMAIN R = 1..(Len(Q) - 1) /\ \A i \in DOMAIN R : i + 1 \in DOMAIN Q /\ R[i] = Q[i + 1]
    BY <1>1
<1>3. \A i \in DOMAIN R : i \in Nat /\ i + 1 # 1
    BY <1>2
<1>4. \A i \in DOMAIN R : \A x \in Ids(R[i]) : x < n /\ x \notin Ids(Q[1])
    BY <1>2, <1>3 DEF Named
<1>5. \A i, h \in DOMAIN R : i # h => Ids(R[i]) \cap Ids(R[h]) = {}
    <2> SUFFICES ASSUME NEW i \in DOMAIN R, NEW h \in DOMAIN R, i # h
                 PROVE  Ids(R[i]) \cap Ids(R[h]) = {}
        OBVIOUS
    <2>1. i + 1 # h + 1
        BY <1>3
    <2> QED
        BY <1>2, <2>1 DEF Named
<1>6. \A p \in L : p.id \in Ids(Q[1])
    BY <1>2
<1>7. \A t \in T \cup P : t.id \notin Ids(Q[1]) /\ \A i \in DOMAIN R : t.id \notin Ids(R[i])
    BY <1>2 DEF Named
<1>8. r # 0 => r \notin Ids(Q[1]) /\ \A i \in DOMAIN R : r \notin Ids(R[i])
    BY <1>2 DEF Named
<1>9. \A x \in Ids(Q[1]) : x < n
    BY <1>2 DEF Named
<1>10. Named(R, r, T, P \cup L, n)
    <2>1. \A t \in T : t.id < n /\ \A s \in P \cup L : s.id # t.id
        BY <1>6, <1>7 DEF Named
    <2>2. \A s \in P \cup L : s.id < n
        BY <1>6, <1>9 DEF Named
    <2>3. \A t \in T \cup (P \cup L) : \A i \in DOMAIN R : t.id \notin Ids(R[i])
        BY <1>4, <1>6, <1>7
    <2>4. r # 0 => \A t \in T \cup (P \cup L) : t.id # r
        BY <1>6, <1>8 DEF Named
    <2> QED
        BY <1>4, <1>5, <1>8, <2>1, <2>2, <2>3, <2>4 DEF Named
<1> QED
    BY <1>1, <1>10

\* Names apart: of what is landed, and of what is to land.
QueueNamed ==
    \A i \in DOMAIN frozen :
        /\ frozen[i].tmp # 0 => frozen[i].id = frozen[i].tmp
        /\ LowsApart(frozen[i].fences)

\* A run without a file has a write to commit.
Uncommitted == mem.ord /\ run = 0 => \E i \in DOMAIN mem.log : mem.log[i].n > com

NamesInv ==
    /\ NamedApart(segs) /\ QueueNamed /\ Uncommitted
    /\ phase = "down" => tier = {}
    /\ phase = "up" => Named(frozen, run, tier, Pieces(segs), nextSeg)

LEMMA NamesInit == Init => NamesInv
<1> SUFFICES ASSUME Init PROVE NamesInv
    OBVIOUS
<1>1. NamedApart(segs) /\ QueueNamed /\ Uncommitted
    BY DEF Init, NamedApart, Pieces, QueueNamed, Uncommitted
<1>2. Named(frozen, run, tier, Pieces(segs), nextSeg)
    BY DEF Init, Named, Pieces
<1> QED
    BY <1>1, <1>2 DEF NamesInv, Init

LEMMA IdsAre ==
    ASSUME ShapeInv PROVE \A t \in tier \cup Pieces(segs) : t.id \in Nat
BY DEF ShapeInv, SegInv, TierInv, Segment, Pieces

LEMMA LiveLows ==
    ASSUME SegInv PROVE LowsApart(Fences(Parts(segs))) /\ LowsApart(LastRange)
<1>1. ASSUME NEW f \in Fences(Parts(segs)), NEW g \in Fences(Parts(segs)), f.lo = g.lo PROVE f = g
    <2>1. PICK p \in Parts(segs) : f = FenceOf(p)
        BY DEF Fences
    <2>2. PICK q \in Parts(segs) : g = FenceOf(q)
        BY DEF Fences
    <2>3. p.lo = q.lo
        BY <1>1, <2>1, <2>2 DEF FenceOf
    <2>4. p = q
        BY <2>3, LowsDiffer DEF SegInv
    <2> QED
        BY <2>1, <2>2, <2>4
<1> QED
    BY <1>1 DEF LowsApart, LastRange

-----------------------------------------------------------------------------
(* Names through the writer's steps.                                          *)

LEMMA NamesQueue ==
    ASSUME ShapeInv, NamesInv, phase = "up", phase' = "up", UNCHANGED <<segs, tier>>,
           NEW j \in Job, frozen' = Append(frozen, j), run' = 0, mem'.ord = FALSE,
           nextSeg' \in Nat, nextSeg <= nextSeg', j.tmp # 0 => j.id = j.tmp, LowsApart(j.fences),
           \A x \in Ids(j) : x < nextSeg' /\ (nextSeg <= x \/ (x = run /\ run # 0))
    PROVE  NamesInv'
<1>1. Named(frozen, run, tier, Pieces(segs), nextSeg) /\ NamedApart(segs) /\ QueueNamed
    BY DEF NamesInv
<1>2. run \in Nat /\ nextSeg \in Nat /\ frozen \in Seq(Job) /\ Len(frozen) \in Nat
    BY Basics
<1>3. Named(frozen', run', tier', Pieces(segs'), nextSeg')
    BY <1>1, <1>2, IdsAre, NamedQueued
<1>4. QueueNamed'
    <2>1. \A i \in DOMAIN frozen' : (i \in DOMAIN frozen /\ frozen'[i] = frozen[i]) \/ frozen'[i] = j
        BY <1>2
    <2> QED
        BY <1>1, <2>1 DEF QueueNamed
<1>5. Uncommitted' /\ NamedApart(segs')
    BY <1>1 DEF Uncommitted
<1> QED
    BY <1>3, <1>4, <1>5 DEF NamesInv

LEMMA RunJobIs ==
    ASSUME ShapeInv, NEW id \in Nat, id # 0, NEW ws \in Seq(Write), NEW first \in BOOLEAN
    PROVE  LET j == RunJob(id, ws, first) IN
           /\ j \in Job /\ j.tmp = id /\ j.id = id /\ j.log = ws /\ j.seq = Seq0
           /\ j.fences = LastRange /\ LowsApart(j.fences) /\ Ids(j) = {id}
<1> DEFINE j == RunJob(id, ws, first)
<1>1. Seq0 \in Nat
    BY DEF ShapeInv, LogInv, Seq0
<1>2. LastRange \subseteq Fence /\ LowsApart(LastRange)
    BY LiveFences, LiveLows DEF ShapeInv
<1>3. j \in Job
    BY <1>1, <1>2 DEF RunJob, Job
<1>4. j.tmp = id /\ j.id = id /\ j.log = ws /\ j.seq = Seq0 /\ j.fences = LastRange
    BY DEF RunJob
<1> HIDE DEF j
<1>5. Ids(j) = {id}
    <2>1. Files(j) = 1
        BY <1>4 DEF Files
    <2> QED
        BY <1>4, <2>1 DEF Ids
<1> QED
    BY <1>2, <1>3, <1>4, <1>5 DEF j

LEMMA NamesClosed ==
    ASSUME ShapeInv, NamesInv, phase = "up", phase' = "up", UNCHANGED <<segs, tier>>,
           NEW id \in Nat, id # 0, NEW ws \in Seq(Write), CloseRun(id, ws), mem'.ord = FALSE,
           nextSeg' \in Nat, nextSeg <= nextSeg', id < nextSeg',
           nextSeg <= id \/ (id = run /\ run # 0)
    PROVE  NamesInv'
<1>1. PICK first \in BOOLEAN : frozen' = Append(frozen, RunJob(id, ws, first))
    BY DEF CloseRun
<1>2. PICK j : j = RunJob(id, ws, first)
    OBVIOUS
<1>3. j \in Job /\ j.tmp = id /\ j.id = id /\ LowsApart(j.fences) /\ Ids(j) = {id}
    BY <1>2, RunJobIs
<1>4. run' = 0 /\ frozen' = Append(frozen, j)
    BY <1>1, <1>2 DEF CloseRun
<1> QED
    BY <1>3, <1>4, NamesQueue

\* With the queue as it is.
LEMMA NamesRun ==
    ASSUME ShapeInv, NamesInv, phase = "up", phase' = "up", UNCHANGED <<segs, tier, frozen>>,
           run' \in Nat, nextSeg' \in Nat, nextSeg <= nextSeg',
           run' = run \/ run' = 0 \/ (nextSeg <= run' /\ run' < nextSeg'),
           Uncommitted'
    PROVE  NamesInv'
<1>1. Named(frozen, run, tier, Pieces(segs), nextSeg) /\ NamedApart(segs) /\ QueueNamed
    BY DEF NamesInv
<1>2. run \in Nat /\ nextSeg \in Nat
    BY Basics
<1>3. PICK r \in Nat, n \in Nat : r = run' /\ n = nextSeg'
    OBVIOUS
<1>4. Named(frozen, r, tier, Pieces(segs), n)
    BY <1>1, <1>2, <1>3, IdsAre, NamedRun
<1>5. QueueNamed'
    BY <1>1 DEF QueueNamed
<1> QED
    BY <1>1, <1>3, <1>4, <1>5 DEF NamesInv

LEMMA NamesHashed ==
    ASSUME ShapeInv, NamesInv, phase = "up", UNCHANGED <<phase, segs, tier, nextSeg>>,
           NEW ws \in Seq(Write), Hashed(ws)
    PROVE  NamesInv'
<1>1. /\ mem.log \in Seq(Write) /\ mem.ord \in BOOLEAN /\ run \in Nat /\ nextSeg \in Nat
      /\ run < nextSeg /\ mem = [ord |-> mem.ord, log |-> mem.log]
    BY Basics
<1>2. CASE UNCHANGED <<run, frozen>> /\ mem'.ord = FALSE
    <2>1. Uncommitted'
        BY <1>2 DEF Uncommitted
    <2> QED
        BY <1>1, <1>2, <2>1, NamesRun
<1>3. CASE run # 0 /\ CloseRun(run, Committed(mem.log)) /\ mem'.ord = FALSE
    <2>1. PICK us \in Seq(Write) : us = Committed(mem.log)
        BY <1>1, StagedOf
    <2>2. nextSeg' \in Nat /\ nextSeg <= nextSeg' /\ run < nextSeg' /\ phase' = "up"
        BY <1>1
    <2>3. CloseRun(run, us) /\ mem'.ord = FALSE /\ UNCHANGED <<segs, tier>>
        BY <1>3, <2>1
    <2> QED
        BY <1>1, <1>3, <2>2, <2>3, NamesClosed
<1>4. mem'.ord = FALSE
    <2>1. CASE ~mem.ord /\ mem' = [mem EXCEPT !.log = @ \o ws]
        <3>1. PICK u : u = mem.log \o ws
            OBVIOUS
        <3>2. mem' = [ord |-> mem.ord, log |-> u]
            BY <1>1, <2>1, <3>1
        <3> QED
            BY <1>1, <2>1, <3>2
    <2>2. CASE mem' = [ord |-> FALSE, log |-> Staged(mem.log) \o ws]
        BY <2>2
    <2> QED
        BY <2>1, <2>2 DEF Hashed
<1> QED
    BY <1>2, <1>3, <1>4 DEF Hashed

LEMMA NamesWrites ==
    ASSUME ShapeInv, NamesInv, Writes PROVE NamesInv'
<1>1. /\ phase = "up" /\ UNCHANGED <<phase, com, segs, tier, nextSeg>>
    BY DEF Writes, shape
<1>2. PICK k \in Key : \/ Direct(k)
                       \/ \E inline \in BOOLEAN : Append1(k, inline)
                       \/ Put(k)
                       \/ Delete(k)
    BY DEF Writes
<1>3. /\ mem.log \in Seq(Write) /\ Len(hist) \in Nat /\ com \in Nat /\ com <= Len(hist)
      /\ run \in Nat /\ nextSeg \in Nat
    BY Basics DEF ShapeInv, WriterInv
<1>4. /\ Next1(k, FALSE) \in Write /\ Next1(k, TRUE) \in Write
      /\ Next1(k, FALSE).n = Len(hist) + 1 /\ Next1(k, TRUE).n = Len(hist) + 1
    BY <1>3 DEF Next1, Write
<1>5. CASE Direct(k)
    <2> DEFINE w == Next1(k, FALSE)
    <2>1. /\ mem' = [ord |-> TRUE, log |-> Append(mem.log, w)] /\ UNCHANGED <<run, frozen>>
        BY <1>5 DEF Direct
    <2>2. w \in Write /\ w.n = Len(hist) + 1
        BY <1>4
    <2> HIDE DEF w
    <2>3. mem'.log = Append(mem.log, w)
        BY <2>1
    <2>4. Len(mem.log) + 1 \in DOMAIN mem'.log /\ mem'.log[Len(mem.log) + 1] = w
        BY <1>3, <2>2, <2>3
    <2>5. w.n > com'
        BY <1>1, <1>3, <2>2
    <2>6. Uncommitted'
        BY <2>4, <2>5 DEF Uncommitted
    <2> QED
        BY <1>1, <1>3, <2>1, <2>6, NamesRun
<1>6. CASE \E inline \in BOOLEAN : Append1(k, inline)
    <2>1. PICK w \in Write : w = Next1(k, FALSE)
        BY <1>4
    <2>4. <<w>> \in Seq(Write)
        OBVIOUS
    <2>2. PICK ws \in Seq(Write) : ws = <<w>>
        BY <2>4
    <2>3. Hashed(ws)
        BY <1>6, <2>1, <2>2 DEF Append1
    <2> QED
        BY <1>1, <2>3, NamesHashed
<1>7. CASE Delete(k)
    <2>1. PICK w \in Write : w = Next1(k, TRUE)
        BY <1>4
    <2>4. <<w>> \in Seq(Write)
        OBVIOUS
    <2>2. PICK ws \in Seq(Write) : ws = <<w>>
        BY <2>4
    <2>3. Hashed(ws)
        BY <1>7, <2>1, <2>2 DEF Delete
    <2> QED
        BY <1>1, <2>3, NamesHashed
<1>8. CASE Put(k)
    <2> DEFINE t == Next1(k, TRUE)
               w == [n |-> t.n + 1, k |-> k, del |-> FALSE]
    <2>1. t \in Write /\ w \in Write
        <3>1. PICK n \in Nat \ {0} : n = t.n + 1
            <4>1. t.n = Len(hist) + 1
                BY <1>4
            <4> HIDE DEF t
            <4> QED
                BY <1>3, <4>1
        <3>2. w = [n |-> n, k |-> k, del |-> FALSE]
            BY <3>1
        <3> HIDE DEF w
        <3>3. w \in Write
            BY <3>2 DEF Write
        <3> QED
            BY <1>4, <3>3
    <2>2. Hashed(<<t, w>>)
        BY <1>8 DEF Put
    <2> HIDE DEF t, w
    <2>3. <<t, w>> \in Seq(Write)
        BY <2>1
    <2> QED
        BY <1>1, <2>2, <2>3, NamesHashed
<1> QED
    BY <1>2, <1>5, <1>6, <1>7, <1>8

LEMMA NamesCommitDirect ==
    ASSUME ShapeInv, NamesInv, phase = "up", CommitDirect
    PROVE  /\ RunId \in Nat /\ RunId # 0 /\ RunId < nextSeg' /\ nextSeg <= nextSeg' /\ nextSeg' \in Nat
           /\ (RunId = run /\ run # 0) \/ nextSeg <= RunId
           /\ \A i \in DOMAIN frozen : frozen[i].tmp # RunId
<1>1. run \in Nat /\ nextSeg \in Nat /\ nextSeg # 0 /\ run < nextSeg
    BY Basics
<1>2. nextSeg' = IF run = 0 THEN nextSeg + 1 ELSE nextSeg
    BY DEF CommitDirect
<1>3. RunId = IF run = 0 THEN nextSeg ELSE run
    BY DEF RunId
<1>4. RunId \in Nat /\ RunId # 0 /\ RunId < nextSeg' /\ nextSeg <= nextSeg' /\ nextSeg' \in Nat
    BY <1>1, <1>2, <1>3
<1>5. ASSUME NEW i \in DOMAIN frozen, frozen[i].tmp = RunId PROVE FALSE
    <2>1. frozen[i].id = RunId
        BY <1>4, <1>5 DEF NamesInv, QueueNamed
    <2>2. RunId \in Ids(frozen[i])
        BY <1>4, <1>5, <2>1 DEF Ids, Files
    <2> QED
        BY <1>1, <1>3, <2>2 DEF NamesInv, Named
<1> QED
    BY <1>1, <1>3, <1>4, <1>5

LEMMA NamesCommit ==
    ASSUME ShapeInv, NamesInv, Commit \/ Sync PROVE NamesInv'
<1>1. phase = "up" /\ UNCHANGED <<phase, mem, frozen, segs, tier>>
    BY DEF Commit, Sync, shape
<1>2. run \in Nat /\ nextSeg \in Nat /\ (run # 0 => mem.ord)
    BY Basics
<1>3. CASE mem.ord /\ CommitDirect /\ run' = RunId
    <2>1. /\ run' \in Nat /\ run' # 0 /\ run' < nextSeg' /\ nextSeg <= nextSeg' /\ nextSeg' \in Nat
          /\ run' = run \/ nextSeg <= run'
        BY <1>1, <1>3, NamesCommitDirect
    <2>2. Uncommitted'
        BY <2>1 DEF Uncommitted
    <2> QED
        BY <1>1, <2>1, <2>2, NamesRun
<1>4. CASE UNCHANGED <<nextSeg, com, run>>
    <2>1. Uncommitted'
        BY <1>1, <1>4 DEF NamesInv, Uncommitted
    <2> QED
        BY <1>1, <1>2, <1>4, <2>1, NamesRun
<1>5. CASE ~mem.ord /\ UNCHANGED <<nextSeg, run>>
    <2>1. Uncommitted'
        BY <1>1, <1>5 DEF Uncommitted
    <2> QED
        BY <1>1, <1>2, <1>5, <2>1, NamesRun
<1> QED
    BY <1>3, <1>4, <1>5 DEF Commit, Sync, CommitLog

\* What SealRun seals: a file that every write of the table is in.
LEMMA SealedRun ==
    ASSUME ShapeInv, NamesInv, SealRun
    PROVE  /\ RunId \in Nat /\ RunId # 0 /\ RunId < nextSeg' /\ nextSeg <= nextSeg' /\ nextSeg' \in Nat
           /\ (RunId = run /\ run # 0) \/ nextSeg <= RunId
           /\ ~CommitDirect => RunId = run
<1>1. phase = "up" /\ mem.ord
    BY DEF SealRun
<1>2. CASE CommitDirect
    BY <1>1, <1>2, NamesCommitDirect
<1>3. CASE Staged(mem.log) = <<>> /\ UNCHANGED nextSeg
    <2>1. run # 0
        BY <1>1, <1>3, StagedEmpty, Basics DEF NamesInv, Uncommitted
    <2>2. RunId = run
        BY <2>1 DEF RunId
    <2>3. run < nextSeg /\ run \in Nat /\ nextSeg \in Nat
        BY <1>1, Basics
    <2> QED
        BY <1>3, <2>1, <2>2, <2>3
<1>4. ~CommitDirect => Staged(mem.log) = <<>> /\ UNCHANGED nextSeg
    BY DEF SealRun
<1>5. ~CommitDirect => RunId = run
    <2> SUFFICES ASSUME ~CommitDirect PROVE RunId = run
        OBVIOUS
    <2>1. run # 0
        BY <1>1, <1>4, StagedEmpty, Basics DEF NamesInv, Uncommitted
    <2> QED
        BY <2>1 DEF RunId
<1> QED
    BY <1>2, <1>3, <1>4, <1>5

LEMMA NamesSealRun ==
    ASSUME ShapeInv, NamesInv, SealRun PROVE NamesInv'
<1>1. /\ phase = "up" /\ phase' = "up" /\ UNCHANGED <<segs, tier>>
      /\ CloseRun(RunId, mem.log) /\ mem' = [ord |-> FALSE, log |-> <<>>]
    BY DEF SealRun, shape
<1>2. /\ RunId \in Nat /\ RunId # 0 /\ RunId < nextSeg' /\ nextSeg <= nextSeg' /\ nextSeg' \in Nat
      /\ (RunId = run /\ run # 0) \/ nextSeg <= RunId
    BY SealedRun
<1>3. mem.log \in Seq(Write) /\ mem'.ord = FALSE
    BY <1>1, Basics
<1>4. PICK id \in Nat : id = RunId
    BY <1>2
<1> QED
    BY <1>1, <1>2, <1>3, <1>4, NamesClosed

LEMMA SealedJob ==
    ASSUME ShapeInv, Len(wal') \in Nat, NEW first \in BOOLEAN
    PROVE  LET j == [log |-> mem.log, tmp |-> 0, seq |-> covered + Len(wal'),
                     fences |-> Fences(Parts(segs)), id |-> nextSeg, first |-> first] IN
           /\ j \in Job /\ LowsApart(j.fences) /\ nextSeg + Max({1, Cardinality(j.fences)}) \in Nat
           /\ nextSeg <= nextSeg + Max({1, Cardinality(j.fences)})
           /\ \A x \in Ids(j) : x < nextSeg + Max({1, Cardinality(j.fences)}) /\ nextSeg <= x
<1>1. PICK fs : fs = Fences(Parts(segs))
    OBVIOUS
<1> DEFINE j == [log |-> mem.log, tmp |-> 0, seq |-> covered + Len(wal'),
                 fences |-> fs, id |-> nextSeg, first |-> first]
<1>2. fs \in SUBSET Fence /\ LowsApart(fs)
    BY <1>1, LiveFences, LiveLows DEF ShapeInv
<1>3. mem.log \in Seq(Write) /\ nextSeg \in Nat /\ covered \in Nat
    BY Basics
<1>4. j \in Job
    BY <1>2, <1>3 DEF Job
<1>5. PICK m \in Nat : m = Max({1, Cardinality(fs)})
    BY <1>2, FilesOf
<1>6. j.fences = fs /\ j.tmp = 0 /\ j.id = nextSeg
    OBVIOUS
<1> HIDE DEF j
<1>7. Files(j) = m
    BY <1>5, <1>6 DEF Files
<1>8. \A x \in Ids(j) : x < nextSeg + m /\ nextSeg <= x
    BY <1>6, <1>7 DEF Ids
<1>9. nextSeg <= nextSeg + m /\ nextSeg + m \in Nat
    BY <1>3
<1> QED
    BY <1>1, <1>2, <1>4, <1>5, <1>6, <1>8, <1>9 DEF j

LEMMA NamesSealTable ==
    ASSUME ShapeInv, NamesInv, ShapeInv', SealTable PROVE NamesInv'
<1> DEFINE fs == Fences(Parts(segs))
<1>1. /\ phase = "up" /\ phase' = "up" /\ ~mem.ord /\ UNCHANGED <<run, segs, tier>>
      /\ nextSeg' = nextSeg + Max({1, Cardinality(fs)})
      /\ mem' = [ord |-> FALSE, log |-> <<>>]
    BY DEF SealTable, shape
<1>2. PICK first \in BOOLEAN :
          frozen' = Append(frozen, [log |-> mem.log, tmp |-> 0, seq |-> covered + Len(wal'),
                                    fences |-> fs, id |-> nextSeg, first |-> first])
    BY DEF SealTable
<1>3. PICK j : j = [log |-> mem.log, tmp |-> 0, seq |-> covered + Len(wal'),
                    fences |-> fs, id |-> nextSeg, first |-> first]
    OBVIOUS
<1>4. Len(wal') \in Nat
    BY DEF ShapeInv, LogInv
<1>5. j.fences = fs /\ j.tmp = 0
    BY <1>3
<1>6. /\ j \in Job /\ LowsApart(j.fences) /\ nextSeg' \in Nat /\ nextSeg <= nextSeg'
      /\ \A x \in Ids(j) : x < nextSeg' /\ nextSeg <= x
    BY <1>1, <1>3, <1>4, <1>5, SealedJob
<1>7. run' = 0 /\ mem'.ord = FALSE /\ frozen' = Append(frozen, j)
    BY <1>1, <1>2, <1>3, Basics
<1> QED
    BY <1>1, <1>5, <1>6, <1>7, NamesQueue

-----------------------------------------------------------------------------
(* Names through the segment work.                                            *)

LEMMA PlanSegs ==
    ASSUME ShapeInv, Plan
    PROVE  /\ Pieces(segs') \subseteq Pieces(segs)
           /\ \A q \in segs' : \E s \in segs : q.c = s.c
<1>1. PICK trigger \in 1..2 : PlanFirst(trigger) \/ PlanRanges(trigger)
    BY DEF Plan
<1>2. (\A s \in segs : Segment(s)) /\ Tiled(Parts(segs))
    BY DEF ShapeInv, SegInv
<1>3. CASE UNCHANGED segs
    BY <1>3
<1>4. CASE Chain(Whole, 0, segs) /\ segs' = PromoteAll(segs)
    <2>1. \A p \in segs' : p.level = 1 /\ \E s \in segs : p.c = s.c
        BY <1>2, <1>4, PromotedAllOf
    <2> QED
        BY <2>1 DEF Pieces, Parts
<1>5. CASE PlanRanges(trigger)
    <2> DEFINE held == UNION {m.fences : m \in merges}
               due == {f \in MergeDue(segs, trigger) :
                          MergeParallel > 1 => \A g \in held : ~Overlap(f, g)}
    <2>1. segs' = PromoteDue(segs, due, Busy).segs
        BY <1>5 DEF PlanRanges
    <2>2. due \in SUBSET Fences(Parts(segs))
        BY DEF MergeDue
    <2> HIDE DEF due
    <2> QED
        BY <1>2, <2>1, <2>2, PromotedDueOf
<1> QED
    BY <1>1, <1>3, <1>4, <1>5 DEF PlanFirst, PromotableAll

LEMMA MergeSegs ==
    ASSUME LandMerge
    PROVE  \E m \in merges : \A q \in segs' :
               \/ q \in segs
               \/ q.level = 1 /\ \E g, seq : q = Bottom(m.inputs, g, seq)
<1>1. PICK m \in merges :
          LET fs == IF m.fences = {} THEN {Whole} ELSE m.fences IN
          \E cuts \in SUBSET CutKeys(m.inputs, fs) :
             segs' = (segs \ m.inputs) \cup Outputs(m.inputs, fs, cuts, m.seq)
    BY DEF LandMerge, Outputs
<1>2. PICK fs, cuts : segs' = (segs \ m.inputs) \cup Outputs(m.inputs, fs, cuts, m.seq)
    BY <1>1
<1>3. \A q \in Outputs(m.inputs, fs, cuts, m.seq) : \E g : q = Bottom(m.inputs, g, m.seq)
    BY DEF Outputs
<1>4. \A g : Bottom(m.inputs, g, m.seq).level = 1
    BY DEF Bottom
<1> QED
    BY <1>2, <1>3, <1>4

\* Fewer pieces.
LEMMA NamesFewer ==
    ASSUME ShapeInv, NamesInv, phase = "up",
           UNCHANGED <<phase, com, mem, run, frozen, tier, nextSeg>>,
           Pieces(segs') \subseteq Pieces(segs)
    PROVE  NamesInv'
<1>1. Named(frozen, run, tier, Pieces(segs), nextSeg) /\ NamedApart(segs) /\ QueueNamed /\ Uncommitted
    BY DEF NamesInv
<1>2. Named(frozen, run, tier, Pieces(segs'), nextSeg)
    BY <1>1 DEF Named
<1>3. NamedApart(segs')
    BY <1>1 DEF NamedApart
<1>4. QueueNamed' /\ Uncommitted'
    BY <1>1 DEF QueueNamed, Uncommitted
<1> QED
    BY <1>2, <1>3, <1>4 DEF NamesInv

LEMMA NamesPlan ==
    ASSUME ShapeInv, NamesInv, Plan PROVE NamesInv'
<1>1. phase = "up" /\ UNCHANGED <<phase, com, mem, run, frozen, tier, nextSeg>>
    BY DEF Plan, Working, tables
<1> QED
    BY <1>1, PlanSegs, NamesFewer

LEMMA NamesLandMerge ==
    ASSUME ShapeInv, NamesInv, LandMerge PROVE NamesInv'
<1>1. phase = "up" /\ UNCHANGED <<phase, com, mem, run, frozen, tier, nextSeg>>
    BY DEF LandMerge, Working, tables
<1>2. \A q \in segs' : q \in segs \/ q.level = 1
    BY MergeSegs
<1>3. Pieces(segs') \subseteq Pieces(segs)
    BY <1>2 DEF Pieces, Parts
<1> QED
    BY <1>1, <1>3, NamesFewer

LEMMA NamesUnlink ==
    ASSUME ShapeInv, NamesInv, Unlink PROVE NamesInv'
<1>1. phase = "up" /\ UNCHANGED <<phase, com, mem, run, frozen, tier, nextSeg, segs>>
    BY DEF Unlink, tables, shape
<1> QED
    BY <1>1, NamesFewer

LEMMA NamesStartTier ==
    ASSUME ShapeInv, NamesInv, StartTier PROVE NamesInv'
<1>1. /\ phase = "up" /\ tier = {} /\ nextSeg' = nextSeg + 1
      /\ UNCHANGED <<phase, com, mem, run, frozen, segs>>
    BY DEF StartTier, Working, tables
<1>2. PICK f : tier' = {[inputs |-> Tierable(f), fence |-> f, id |-> nextSeg]}
    BY DEF StartTier
<1>3. \A t \in tier' : t.id = nextSeg
    BY <1>2
<1>4. Named(frozen, run, tier, Pieces(segs), nextSeg) /\ NamedApart(segs) /\ QueueNamed /\ Uncommitted
    BY <1>1 DEF NamesInv
<1>5. run \in Nat /\ nextSeg \in Nat /\ run < nextSeg
    BY <1>1, Basics
<1>6. \A s \in Pieces(segs) : s.id \in Nat
    BY IdsAre
<1>7. \A i \in DOMAIN frozen : \A x \in Ids(frozen[i]) : x \in Nat
    BY DEF Ids
<1>8. PICK T : T = tier'
    OBVIOUS
<1>9. Named(frozen, run, T, Pieces(segs), nextSeg + 1)
    <2>1. \A i \in DOMAIN frozen : \A x \in Ids(frozen[i]) : x < nextSeg /\ x < nextSeg + 1
        BY <1>4, <1>5, <1>7 DEF Named
    <2>2. \A s \in Pieces(segs) : s.id < nextSeg /\ s.id < nextSeg + 1
        BY <1>4, <1>5, <1>6 DEF Named
    <2>3. \A t \in T : t.id = nextSeg
        BY <1>3, <1>8
    <2>4. nextSeg < nextSeg + 1 /\ nextSeg # run /\ ~(nextSeg < nextSeg)
        BY <1>5
    <2>5. \A t \in T : t.id < nextSeg + 1 /\ \A s \in Pieces(segs) : s.id # t.id
        BY <2>2, <2>3, <2>4
    <2>6. \A t \in T \cup Pieces(segs) : \A i \in DOMAIN frozen : t.id \notin Ids(frozen[i])
        BY <1>4, <2>1, <2>3, <2>4 DEF Named
    <2>7. run # 0 => /\ \A i \in DOMAIN frozen : run \notin Ids(frozen[i])
                     /\ \A t \in T \cup Pieces(segs) : t.id # run
        BY <1>4, <2>3, <2>4 DEF Named
    <2> QED
        BY <1>4, <2>1, <2>2, <2>5, <2>6, <2>7 DEF Named
<1>10. QueueNamed' /\ Uncommitted' /\ NamedApart(segs')
    BY <1>1, <1>4 DEF QueueNamed, Uncommitted
<1> QED
    BY <1>1, <1>8, <1>9, <1>10 DEF NamesInv

LEMMA NamesLandTier ==
    ASSUME ShapeInv, NamesInv, LandTier PROVE NamesInv'
<1>1. /\ phase = "up" /\ tier' = {}
      /\ UNCHANGED <<phase, com, mem, run, frozen, nextSeg>>
    BY DEF LandTier, Working, tables
<1>2. PICK t \in tier : segs' = (segs \ t.inputs) \cup {Tiered(t.inputs, t.fence, t.id)}
    BY DEF LandTier
<1>3. PICK p : p = Tiered(t.inputs, t.fence, t.id)
    OBVIOUS
<1>4. p.id = t.id
    BY <1>3 DEF Tiered, Piece
<1>5. Named(frozen, run, tier, Pieces(segs), nextSeg) /\ NamedApart(segs) /\ QueueNamed /\ Uncommitted
    BY <1>1 DEF NamesInv
<1>6. \A s \in Pieces(segs') : s \in Pieces(segs) \/ s = p
    BY <1>2, <1>3 DEF Pieces, Parts
<1>7. \A s \in Pieces(segs) : s.id # p.id
    BY <1>4, <1>5 DEF Named
<1>8. NamedApart(segs')
    BY <1>5, <1>6, <1>7 DEF NamedApart
<1>9. Named(frozen, run, {}, Pieces(segs'), nextSeg)
    BY <1>4, <1>5, <1>6 DEF Named
<1>10. QueueNamed' /\ Uncommitted'
    BY <1>1, <1>5 DEF QueueNamed, Uncommitted
<1> QED
    BY <1>1, <1>8, <1>9, <1>10 DEF NamesInv

LEMMA NamesLandSeal ==
    ASSUME ShapeInv, NamesInv, LandSeal PROVE NamesInv'
<1>1. PICK j, L : j = Head(frozen) /\ L = LandedSegs(j)
    OBVIOUS
<1>2. /\ phase = "up" /\ frozen # <<>> /\ segs' = segs \cup L
      /\ frozen' = Tail(frozen) /\ UNCHANGED <<phase, com, mem, run, tier, nextSeg>>
    BY <1>1 DEF LandSeal, Working
<1>3. /\ frozen \in Seq(Job) /\ Len(frozen) \in Nat /\ Len(frozen) >= 1
      /\ DOMAIN frozen = 1..Len(frozen) /\ j = frozen[1] /\ 1 \in DOMAIN frozen /\ j \in Job
      /\ DOMAIN frozen' = 1..(Len(frozen) - 1)
      /\ \A i \in 1..(Len(frozen) - 1) : frozen'[i] = frozen[i + 1] /\ i + 1 \in DOMAIN frozen
    BY <1>1, <1>2 DEF ShapeInv, JobInv
<1>4. Named(frozen, run, tier, Pieces(segs), nextSeg) /\ NamedApart(segs) /\ QueueNamed /\ Uncommitted
    BY <1>2 DEF NamesInv
<1>5. /\ j.tmp # 0 => \A g \in j.fences : g.hi = Top
      /\ j.first => j.fences = {}
    BY <1>3 DEF ShapeInv, JobInv
<1>6. LowsApart(j.fences)
    BY <1>3, <1>4 DEF QueueNamed
<1>7. j.log \in Seq(Write)
    BY <1>3 DEF Job
<1>8. (\A p \in Pieces(L) : p.id \in Ids(j)) /\ NamedApart(L)
    BY <1>1, <1>3, <1>5, <1>6, <1>7, LandedOf
<1>9. Pieces(segs') = Pieces(segs) \cup Pieces(L)
    BY <1>2 DEF Pieces, Parts
<1>10. run \in Nat /\ nextSeg \in Nat
    BY Basics
<1>11. PICK P : P = Pieces(L)
    OBVIOUS
<1>12. Named(Tail(frozen), run, tier, Pieces(segs) \cup P, nextSeg)
    BY <1>1, <1>2, <1>3, <1>4, <1>8, <1>10, <1>11, NamedLanded
<1>13. \A s \in Pieces(segs) : s.id \notin Ids(j)
    BY <1>3, <1>4 DEF Named
<1>14. NamedApart(segs')
    BY <1>4, <1>8, <1>9, <1>13 DEF NamedApart
<1>15. QueueNamed' /\ Uncommitted'
    BY <1>2, <1>3, <1>4 DEF QueueNamed, Uncommitted
<1> QED
    BY <1>2, <1>9, <1>11, <1>12, <1>14, <1>15 DEF NamesInv

-----------------------------------------------------------------------------
(* Names through a crash and the open after it.                               *)

LEMMA NamesCrash ==
    ASSUME NamesInv, NEW kept, Crash(kept) PROVE NamesInv'
<1>1. /\ phase' = "down" /\ UNCHANGED segs /\ frozen' = <<>> /\ tier' = {}
      /\ mem' = [ord |-> FALSE, log |-> <<>>]
    BY DEF Crash
<1> QED
    BY <1>1 DEF NamesInv, QueueNamed, Uncommitted

LEMMA NamesRecoverRun ==
    ASSUME ShapeInv, NamesInv, RecoverRun PROVE NamesInv'
<1>1. phase = "down" /\ UNCHANGED <<phase, com, mem, run, frozen, tier>>
    BY DEF RecoverRun, tables
<1>2. QueueNamed' /\ Uncommitted' /\ tier' = {} /\ NamedApart(segs)
    BY <1>1 DEF NamesInv, QueueNamed, Uncommitted
<1>3. PICK t \in tmps :
          \/ UNCHANGED segs
          \/ /\ \A s \in segs : s.id # t.id
             /\ segs' = segs \cup {RunPiece(LastRange, covered, t.id, t.recs)}
    BY DEF RecoverRun
<1>4. PICK p : p = RunPiece(LastRange, covered, t.id, t.recs)
    OBVIOUS
<1>5. p.id = t.id
    BY <1>4 DEF RunPiece
<1>6. NamedApart(segs')
    BY <1>2, <1>3, <1>4, <1>5 DEF NamedApart, Pieces, Parts
<1> QED
    BY <1>1, <1>2, <1>6 DEF NamesInv

LEMMA NamesOpened ==
    ASSUME ShapeInv, NamesInv, Opened PROVE NamesInv'
<1>1. /\ phase = "down" /\ phase' = "up" /\ mem' = [ord |-> FALSE, log |-> wal]
      /\ nextSeg' = Max({0} \cup {s.id : s \in segs}) + 1
      /\ UNCHANGED <<run, frozen, segs, tier>>
    BY DEF Opened, shape
<1>2. run = 0 /\ frozen = <<>> /\ tier = {} /\ NamedApart(segs)
    BY <1>1 DEF ShapeInv, LogInv, JobInv, NamesInv
<1>3. PICK D : D = {0} \cup {s.id : s \in segs}
    OBVIOUS
<1>4. PICK N \in Nat : \A s \in segs : s.id <= N /\ s.id \in Nat
    BY DEF ShapeInv, SegInv, Segment
<1>5. D \in SUBSET (0..N) /\ D # {} /\ \A s \in segs : s.id \in D
    BY <1>3, <1>4
<1>6. Max(D) \in 0..N /\ \A y \in D : y <= Max(D)
    BY <1>5, MaxBelow
<1>7. nextSeg' = Max(D) + 1
    BY <1>1, <1>3
<1>8. \A s \in segs : s.id < nextSeg'
    BY <1>4, <1>5, <1>6, <1>7
<1>9. PICK n : n = nextSeg'
    OBVIOUS
<1>10. Named(<<>>, 0, {}, Pieces(segs), n)
    BY <1>8, <1>9 DEF Named, Pieces
<1>11. QueueNamed' /\ Uncommitted'
    BY <1>1, <1>2 DEF QueueNamed, Uncommitted
<1> QED
    BY <1>1, <1>2, <1>9, <1>10, <1>11 DEF NamesInv

LEMMA NamesKept ==
    ASSUME ShapeInv, NamesInv, ShapeInv', [Next]_vars PROVE NamesInv'
<1>1. CASE UNCHANGED vars
    <2>1. UNCHANGED <<phase, com, mem, run, frozen, segs, tier, nextSeg>>
        BY <1>1 DEF vars, tables, shape
    <2> QED
        BY <2>1 DEF NamesInv, QueueNamed, Uncommitted
<1>2. CASE Next
    BY <1>2, NamesWrites, NamesCommit, NamesSealRun, NamesSealTable, NamesLandSeal, NamesUnlink,
       NamesPlan, NamesLandMerge, NamesStartTier, NamesLandTier, NamesCrash, NamesRecoverRun,
       NamesOpened DEF Next
<1> QED
    BY <1>1, <1>2

LEMMA NamesHolds == Spec => []NamesInv
<1>1. ShapeInv /\ NamesInv /\ ShapeInv' /\ [Next]_vars => NamesInv'
    BY NamesKept
<1> QED
    BY <1>1, NamesInit, ShapeHolds, PTL DEF Spec

-----------------------------------------------------------------------------
(* Where committed writes are: the invariant's parts for what a crash leaves. *)

\* The writes committed when n are, and where the log after the first a records, or
\* a run's file, has one.
Past(n) == {w \in Write : w.n <= n}
LoggedAfter(W, a, w) == \E p \in DOMAIN W : p > a /\ W[p] = w
Filed(T, id, w) == \E t \in T : t.id = id /\ w \in Range(t.recs)

\* The log's records that the tables before the i-th of the queue cover.
After(Q, cov, i) == IF i = 1 THEN 0 ELSE Q[i - 1].seq - cov

\* A commit leaves nothing unsynced.
SyncedInv == walDur = Len(wal) /\ \A t \in tmps : t.dur = Len(t.recs)

\* The history is as it was written, and what was promised is committed.
HistInv ==
    /\ \A i \in DOMAIN hist : hist[i].n = i
    /\ prom <= com
    /\ phase = "down" => com = Len(hist)

\* The log, the files, the segments and the sealed tables hold committed writes.
PastInv ==
    /\ wal \in Seq(Past(com))
    /\ \A t \in tmps : t.recs \in Seq(Past(com))
    /\ \A s \in segs : s.c \in [Key -> Seq(Past(com))]
    /\ \A i \in DOMAIN frozen : frozen[i].log \in Seq(Past(com))

\* What is not committed is in the live table; a committed write of a table is in
\* the table's run or in the part of the log that no older table covers.
TailHome == \A i \in DOMAIN hist : i > com => hist[i] \in Range(mem.log)
MemHome ==
    \A w \in Range(mem.log) : w.n <= com =>
        IF mem.ord THEN Filed(tmps, run, w)
        ELSE LoggedAfter(wal, After(frozen, covered, Len(frozen) + 1), w)
Homed(j, a, W, T) ==
    \A w \in Range(j.log) :
        IF j.tmp = 0 THEN LoggedAfter(W, a, w) ELSE Filed(T, j.tmp, w)
QueueHome ==
    \A i \in DOMAIN frozen : Homed(frozen[i], After(frozen, covered, i), wal, tmps)

HomeInv ==
    /\ SyncedInv /\ HistInv /\ PastInv
    /\ phase = "up" => TailHome /\ MemHome /\ QueueHome

LEMMA HomeInit == Init => HomeInv
<1> SUFFICES ASSUME Init PROVE HomeInv
    OBVIOUS
<1>1. SyncedInv /\ HistInv /\ PastInv
    BY DEF Init, SyncedInv, HistInv, PastInv
<1>2. TailHome /\ MemHome /\ QueueHome
    BY DEF Init, TailHome, MemHome, QueueHome, Range
<1> QED
    BY <1>1, <1>2 DEF HomeInv

LEMMA SeqWiden ==
    ASSUME NEW A, NEW B, A \subseteq B, NEW s \in Seq(A) PROVE s \in Seq(B)
<1>1. Len(s) \in Nat /\ s \in [1..Len(s) -> A]
    OBVIOUS
<1>2. s \in [1..Len(s) -> B]
    BY <1>1
<1> QED
    BY <1>1, <1>2

LEMMA SeqWithin ==
    ASSUME NEW T, NEW s \in Seq(T), NEW B, Range(s) \subseteq B PROVE s \in Seq(B)
<1>1. Len(s) \in Nat /\ s \in [1..Len(s) -> T] /\ DOMAIN s = 1..Len(s)
    OBVIOUS
<1>2. \A i \in 1..Len(s) : s[i] \in B
    BY <1>1 DEF Range
<1>3. s \in [1..Len(s) -> B]
    BY <1>1, <1>2
<1> QED
    BY <1>1, <1>3

LEMMA PastWiden ==
    ASSUME NEW n \in Nat, NEW m \in Nat, n <= m
    PROVE  /\ Past(n) \subseteq Past(m)
           /\ \A s \in Seq(Past(n)) : s \in Seq(Past(m))
           /\ \A c \in [Key -> Seq(Past(n))] : c \in [Key -> Seq(Past(m))]
<1>1. Past(n) \subseteq Past(m)
    BY DEF Past, Write
<1>2. \A s \in Seq(Past(n)) : s \in Seq(Past(m))
    BY <1>1, SeqWiden
<1> QED
    BY <1>1, <1>2

\* All that was written is committed once the history's length is.
LEMMA AllPast ==
    ASSUME ShapeInv, HistInv
    PROVE  /\ mem.log \in Seq(Past(Len(hist))) /\ Len(hist) \in Nat /\ com \in Nat /\ com <= Len(hist)
           /\ \A w \in Range(hist) : w \in Write /\ w.n \in 1..Len(hist) /\ w = hist[w.n]
           /\ Range(mem.log) \subseteq Range(hist) /\ mem.log \in Seq(Write)
<1>1. /\ hist \in Seq(Write) /\ Range(mem.log) \subseteq Range(hist) /\ mem.log \in Seq(Write)
      /\ Len(hist) \in Nat /\ com \in Nat /\ com <= Len(hist)
    BY Basics DEF ShapeInv, WriterInv
<1>2. \A w \in Range(hist) : w \in Write /\ w.n \in 1..Len(hist) /\ w = hist[w.n]
    BY <1>1 DEF HistInv, Range
<1>3. Range(mem.log) \subseteq Past(Len(hist))
    BY <1>1, <1>2 DEF Past
<1>4. mem.log \in Seq(Past(Len(hist)))
    BY <1>1, <1>3, SeqWithin
<1> QED
    BY <1>1, <1>2, <1>4

LEMMA SplitRange ==
    ASSUME NEW ws \in Seq(Write)
    PROVE  /\ Range(Staged(ws)) = {w \in Range(ws) : w.n > com}
           /\ Range(Committed(ws)) = {w \in Range(ws) : w.n <= com}
<1>1. PICK I \in SUBSET DOMAIN ws : I = {i \in DOMAIN ws : ws[i].n > com}
    OBVIOUS
<1>2. PICK J \in SUBSET DOMAIN ws : J = {i \in DOMAIN ws : ws[i].n <= com}
    OBVIOUS
<1>3. PICK u : u = Subsequence(ws, I)
    OBVIOUS
<1>4. PICK v : v = Subsequence(ws, J)
    OBVIOUS
<1>5. /\ \A j \in DOMAIN u : \E i \in I : u[j] = ws[i]
      /\ \A i \in I : \E j \in DOMAIN u : u[j] = ws[i]
    BY <1>3, SubsequenceOf
<1>6. /\ \A j \in DOMAIN v : \E i \in J : v[j] = ws[i]
      /\ \A i \in J : \E j \in DOMAIN v : v[j] = ws[i]
    BY <1>4, SubsequenceOf
<1>7. Staged(ws) = u /\ Committed(ws) = v
    BY <1>1, <1>2, <1>3, <1>4 DEF Staged, Committed
<1>8. Range(u) = {w \in Range(ws) : w.n > com}
    BY <1>1, <1>5 DEF Range
<1>9. Range(v) = {w \in Range(ws) : w.n <= com}
    BY <1>2, <1>6 DEF Range
<1> QED
    BY <1>7, <1>8, <1>9

\* More of the log.
LEMMA LogGrown ==
    ASSUME NEW W \in Seq(Write), NEW us \in Seq(Write)
    PROVE  /\ \A a, w : LoggedAfter(W, a, w) => LoggedAfter(W \o us, a, w)
           /\ \A a \in Nat : a <= Len(W) =>
                 \A w \in Range(us) : LoggedAfter(W \o us, a, w)
<1>1. PICK V : V = W \o us
    OBVIOUS
<1>2. /\ V \in Seq(Write) /\ Len(V) = Len(W) + Len(us) /\ Len(W) \in Nat /\ Len(us) \in Nat
      /\ \A i \in 1..Len(W) : V[i] = W[i]
      /\ \A i \in 1..Len(us) : V[Len(W) + i] = us[i]
    BY <1>1, ConcatRange
<1>3. DOMAIN V = 1..(Len(W) + Len(us)) /\ DOMAIN W = 1..Len(W) /\ DOMAIN us = 1..Len(us)
    BY <1>2
<1>4. \A a, w : LoggedAfter(W, a, w) => LoggedAfter(V, a, w)
    <2> SUFFICES ASSUME NEW a, NEW w, LoggedAfter(W, a, w) PROVE LoggedAfter(V, a, w)
        OBVIOUS
    <2>1. PICK p \in DOMAIN W : p > a /\ W[p] = w
        BY DEF LoggedAfter
    <2>2. p \in DOMAIN V /\ V[p] = w
        BY <1>2, <1>3, <2>1
    <2> QED
        BY <2>1, <2>2 DEF LoggedAfter
<1>5. ASSUME NEW a \in Nat, a <= Len(W), NEW w \in Range(us) PROVE LoggedAfter(V, a, w)
    <2>1. PICK i \in DOMAIN us : us[i] = w
        BY DEF Range
    <2>2. Len(W) + i \in DOMAIN V /\ V[Len(W) + i] = w /\ Len(W) + i > a
        BY <1>2, <1>3, <1>5, <2>1
    <2> QED
        BY <2>2 DEF LoggedAfter
<1> QED
    BY <1>1, <1>4, <1>5

LEMMA AfterIs ==
    ASSUME ShapeInv, NEW i \in 1..(Len(frozen) + 1)
    PROVE  After(frozen, covered, i) \in Nat /\ After(frozen, covered, i) <= Len(wal)
<1>1. Len(frozen) \in Nat /\ DOMAIN frozen = 1..Len(frozen) /\ covered \in Nat /\ wal \in Seq(Write)
    BY Basics
<1>2. CASE i = 1
    BY <1>1, <1>2 DEF After
<1>3. CASE i # 1
    <2>1. i - 1 \in DOMAIN frozen
        BY <1>1, <1>3
    <2>2. frozen[i - 1].seq \in Nat
        BY <2>1, Basics
    <2>3. covered <= frozen[i - 1].seq /\ frozen[i - 1].seq <= covered + Len(wal)
        BY <2>1 DEF ShapeInv, JobInv, Seq0
    <2>4. After(frozen, covered, i) = frozen[i - 1].seq - covered
        BY <1>3 DEF After
    <2> QED
        BY <1>1, <2>2, <2>3, <2>4
<1> QED
    BY <1>2, <1>3

-----------------------------------------------------------------------------
(* Homes through the writer's steps.                                          *)

\* The log and the files that tables to land need stay, or grow.
Kept(W, T) ==
    /\ \A a, w : LoggedAfter(wal, a, w) => LoggedAfter(W, a, w)
    /\ \A i \in DOMAIN frozen : frozen[i].tmp # 0 =>
          \A w : Filed(tmps, frozen[i].tmp, w) => Filed(T, frozen[i].tmp, w)

LEMMA QueueStays ==
    ASSUME ShapeInv, QueueHome, NEW Q, \A i \in DOMAIN frozen : Q[i] = frozen[i],
           NEW W, NEW T, Kept(W, T)
    PROVE  \A i \in DOMAIN frozen : Homed(Q[i], After(Q, covered, i), W, T)
<1> TAKE i \in DOMAIN frozen
<1>1. Len(frozen) \in Nat /\ DOMAIN frozen = 1..Len(frozen)
    BY Basics
<1>2. After(Q, covered, i) = After(frozen, covered, i)
    <2>1. i # 1 => i - 1 \in DOMAIN frozen
        BY <1>1
    <2> QED
        BY <2>1 DEF After
<1>3. PICK a : a = After(frozen, covered, i)
    OBVIOUS
<1>4. Homed(frozen[i], a, wal, tmps)
    BY <1>3 DEF QueueHome
<1>5. Homed(frozen[i], a, W, T)
    BY <1>4 DEF Homed, Kept
<1> QED
    BY <1>2, <1>3, <1>5

LEMMA QueueHomeGrown ==
    ASSUME ShapeInv, QueueHome, NEW j \in Job, frozen' = Append(frozen, j), UNCHANGED covered,
           Kept(wal', tmps'), Homed(j, After(frozen, covered, Len(frozen) + 1), wal', tmps')
    PROVE  QueueHome'
<1>1. Len(frozen) \in Nat /\ DOMAIN frozen = 1..Len(frozen) /\ frozen \in Seq(Job)
    BY Basics
<1>2. PICK Q, W, T : Q = frozen' /\ W = wal' /\ T = tmps'
    OBVIOUS
<1>3. /\ DOMAIN Q = 1..(Len(frozen) + 1) /\ Q[Len(frozen) + 1] = j
      /\ \A i \in DOMAIN frozen : Q[i] = frozen[i]
    BY <1>1, <1>2
<1>4. \A i \in DOMAIN frozen : Homed(Q[i], After(Q, covered, i), W, T)
    BY <1>2, <1>3, QueueStays
<1>5. PICK n : n = Len(frozen) + 1
    OBVIOUS
<1>6. After(Q, covered, n) = After(frozen, covered, n)
    <2>1. n # 1 => n - 1 \in DOMAIN frozen
        BY <1>1, <1>5
    <2> QED
        BY <1>3, <2>1 DEF After
<1>7. Homed(Q[n], After(Q, covered, n), W, T)
    BY <1>2, <1>3, <1>5, <1>6
<1>8. \A i \in DOMAIN Q : i \in DOMAIN frozen \/ i = n
    BY <1>1, <1>3, <1>5
<1>9. \A i \in DOMAIN Q : Homed(Q[i], After(Q, covered, i), W, T)
    BY <1>4, <1>7, <1>8
<1> QED
    BY <1>2, <1>9 DEF QueueHome

LEMMA QueueHomeSame ==
    ASSUME ShapeInv, QueueHome, UNCHANGED <<frozen, covered>>, Kept(wal', tmps')
    PROVE  QueueHome'
<1>1. PICK W, T : W = wal' /\ T = tmps'
    OBVIOUS
<1>2. \A i \in DOMAIN frozen : Homed(frozen[i], After(frozen, covered, i), W, T)
    BY <1>1, QueueStays
<1> QED
    BY <1>1, <1>2 DEF QueueHome

LEMMA HistGrown ==
    ASSUME ShapeInv, HistInv, phase = "up", UNCHANGED <<phase, com, prom>>, NEW ws \in Seq(Write),
           hist' \in Seq(Write), Len(hist') = Len(hist) + Len(ws),
           \A i \in 1..Len(hist) : hist'[i] = hist[i],
           \A i \in 1..Len(ws) : hist'[Len(hist) + i] = ws[i] /\ ws[i].n = Len(hist) + i
    PROVE  /\ HistInv'
           /\ \A i \in DOMAIN hist' : (i \in DOMAIN hist /\ hist'[i] = hist[i]) \/ hist'[i] \in Range(ws)
           /\ \A w \in Range(ws) : w.n > com
<1>1. /\ hist \in Seq(Write) /\ Len(hist) \in Nat /\ DOMAIN hist = 1..Len(hist) /\ Len(ws) \in Nat
      /\ DOMAIN ws = 1..Len(ws) /\ DOMAIN hist' = 1..(Len(hist) + Len(ws)) /\ com \in Nat /\ com <= Len(hist)
    BY AllPast, Basics
<1>2. \A i \in DOMAIN hist' : i \in DOMAIN hist \/ \E j \in 1..Len(ws) : i = Len(hist) + j
    <2> TAKE i \in DOMAIN hist'
    <2>1. CASE i <= Len(hist)
        BY <1>1, <2>1
    <2>2. CASE i > Len(hist)
        <3>1. i - Len(hist) \in 1..Len(ws) /\ i = Len(hist) + (i - Len(hist))
            BY <1>1, <2>2
        <3> QED
            BY <3>1
    <2> QED
        BY <1>1, <2>1, <2>2
<1>3. \A i \in DOMAIN hist' : hist'[i].n = i
    BY <1>1, <1>2 DEF HistInv
<1>4. HistInv'
    BY <1>3 DEF HistInv
<1>5. \A i \in DOMAIN hist' : (i \in DOMAIN hist /\ hist'[i] = hist[i]) \/ hist'[i] \in Range(ws)
    <2> TAKE i \in DOMAIN hist'
    <2>1. CASE i \in DOMAIN hist
        BY <1>1, <2>1
    <2>2. ASSUME NEW j \in 1..Len(ws), i = Len(hist) + j PROVE hist'[i] \in Range(ws)
        <3>1. hist'[i] = ws[j] /\ j \in DOMAIN ws
            BY <1>1, <2>2
        <3> QED
            BY <3>1 DEF Range
    <2> QED
        BY <1>2, <2>1, <2>2
<1>6. \A w \in Range(ws) : w.n > com
    BY <1>1 DEF Range
<1> QED
    BY <1>4, <1>5, <1>6

LEMMA HomeHashed ==
    ASSUME ShapeInv, HomeInv, phase = "up",
           UNCHANGED <<phase, com, prom, wal, walDur, covered, segs, tmps>>, NEW ws \in Seq(Write),
           hist' \in Seq(Write), Len(hist') = Len(hist) + Len(ws),
           \A i \in 1..Len(hist) : hist'[i] = hist[i],
           \A i \in 1..Len(ws) : hist'[Len(hist) + i] = ws[i] /\ ws[i].n = Len(hist) + i,
           Hashed(ws)
    PROVE  HomeInv'
<1>1. SyncedInv /\ HistInv /\ PastInv /\ TailHome /\ MemHome /\ QueueHome
    BY DEF HomeInv
<1>2. /\ HistInv'
      /\ \A i \in DOMAIN hist' : (i \in DOMAIN hist /\ hist'[i] = hist[i]) \/ hist'[i] \in Range(ws)
      /\ \A w \in Range(ws) : w.n > com
    BY <1>1, HistGrown
<1>3. /\ mem.log \in Seq(Write) /\ mem.ord \in BOOLEAN /\ run \in Nat /\ com \in Nat
      /\ mem = [ord |-> mem.ord, log |-> mem.log] /\ Range(mem.log) \subseteq Range(hist)
      /\ \A w \in Range(ws) : w \in Write /\ w.n \in Nat
      /\ \A w \in Range(mem.log) : w \in Write /\ w.n \in Nat
      /\ \A i \in DOMAIN hist : hist[i].n = i /\ i \in Nat
    <2>1. \A w \in Write : w.n \in Nat
        BY DEF Write
    <2>2. (\A w \in Range(ws) : w \in Write) /\ \A w \in Range(mem.log) : w \in Write
        BY Basics DEF Range
    <2>3. hist \in Seq(Write)
        BY Basics
    <2> QED
        BY <1>1, <2>1, <2>2, <2>3, Basics, AllPast DEF HistInv
<1>4. SyncedInv' /\ Kept(wal', tmps')
    BY <1>1 DEF SyncedInv, Kept
<1>5. CASE ~mem.ord /\ UNCHANGED <<run, frozen>> /\ mem' = [mem EXCEPT !.log = @ \o ws]
    <2>1. PICK u : u = mem.log \o ws
        OBVIOUS
    <2>2. u \in Seq(Write) /\ Range(u) = Range(mem.log) \cup Range(ws)
        BY <1>3, <2>1, ConcatRange
    <2>3. mem' = [ord |-> mem.ord, log |-> u]
        BY <1>3, <1>5, <2>1
    <2>4. mem'.ord = mem.ord /\ mem'.log = u
        BY <2>3
    <2>5. TailHome'
        <3>1. \A i \in DOMAIN hist' : i > com => hist'[i] \in Range(u)
            BY <1>1, <1>2, <2>2 DEF TailHome
        <3> QED
            BY <2>4, <3>1 DEF TailHome
    <2>6. ASSUME NEW w \in Range(u), w.n <= com
          PROVE  LoggedAfter(wal, After(frozen, covered, Len(frozen) + 1), w)
        <3>1. w \in Range(mem.log)
            BY <1>2, <1>3, <2>2, <2>6
        <3> QED
            BY <1>1, <1>5, <2>6, <3>1 DEF MemHome
    <2>7. MemHome'
        BY <1>5, <2>4, <2>6 DEF MemHome
    <2>8. QueueHome'
        BY <1>1, <1>4, <1>5, QueueHomeSame
    <2>9. PastInv'
        BY <1>1, <1>5 DEF PastInv
    <2> QED
        BY <1>2, <1>4, <2>5, <2>7, <2>8, <2>9 DEF HomeInv
<1>6. CASE /\ mem.ord /\ mem' = [ord |-> FALSE, log |-> Staged(mem.log) \o ws]
           /\ IF run = 0 THEN UNCHANGED <<run, frozen>>
              ELSE CloseRun(run, Committed(mem.log))
    <2>1. PICK us \in Seq(Write) : us = Staged(mem.log)
        BY <1>3, StagedOf
    <2>2. PICK cs \in Seq(Write) : cs = Committed(mem.log)
        BY <1>3, StagedOf
    <2>3. /\ Range(us) = {w \in Range(mem.log) : w.n > com}
          /\ Range(cs) = {w \in Range(mem.log) : w.n <= com}
        BY <1>3, <2>1, <2>2, SplitRange
    <2>4. PICK u : u = us \o ws
        OBVIOUS
    <2>5. Range(u) = Range(us) \cup Range(ws)
        BY <2>4, ConcatRange
    <2>6. mem'.ord = FALSE /\ mem'.log = u
        BY <1>6, <2>1, <2>4
    <2>7. TailHome'
        <3> SUFFICES ASSUME NEW i \in DOMAIN hist', i > com PROVE hist'[i] \in Range(u)
            BY <2>6 DEF TailHome
        <3>1. CASE i \in DOMAIN hist /\ hist'[i] = hist[i]
            <4>1. hist[i] \in Range(mem.log) /\ hist[i].n > com
                BY <1>1, <1>3, <3>1 DEF TailHome
            <4> QED
                BY <2>3, <2>5, <3>1, <4>1
        <3> QED
            BY <1>2, <2>5, <3>1
    <2>8. MemHome'
        <3>1. \A w \in Range(u) : ~(w.n <= com)
            BY <1>2, <1>3, <2>3, <2>5
        <3> QED
            BY <2>6, <3>1 DEF MemHome
    <2>9. CASE run = 0 /\ UNCHANGED <<run, frozen>>
        <3>1. QueueHome'
            BY <1>1, <1>4, <2>9, QueueHomeSame
        <3>2. PastInv'
            BY <1>1, <2>9 DEF PastInv
        <3> QED
            BY <1>2, <1>4, <2>7, <2>8, <3>1, <3>2 DEF HomeInv
    <2>10. CASE run # 0 /\ CloseRun(run, cs)
        <3>1. PICK first \in BOOLEAN : frozen' = Append(frozen, RunJob(run, cs, first))
            BY <2>10 DEF CloseRun
        <3>2. PICK j : j = RunJob(run, cs, first)
            OBVIOUS
        <3>3. j \in Job /\ j.tmp = run /\ j.log = cs
            BY <1>3, <2>10, <3>2, RunJobIs
        <3>4. \A w \in Range(cs) : Filed(tmps, run, w)
            BY <1>1, <1>6, <2>3 DEF MemHome
        <3>5. Homed(j, After(frozen, covered, Len(frozen) + 1), wal', tmps')
            BY <2>10, <3>3, <3>4 DEF Homed
        <3>6. frozen' = Append(frozen, j)
            BY <3>1, <3>2
        <3>7. QueueHome'
            BY <1>1, <1>4, <3>3, <3>5, <3>6, QueueHomeGrown
        <3>8. j.log \in Seq(Past(com))
            <4>1. Range(cs) \subseteq Past(com)
                BY <1>3, <2>3 DEF Past
            <4> QED
                BY <3>3, <4>1, SeqWithin
        <3>9. \A i \in DOMAIN frozen' : (i \in DOMAIN frozen /\ frozen'[i] = frozen[i]) \/ frozen'[i] = j
            <4>1. frozen \in Seq(Job)
                BY Basics
            <4> QED
                BY ONLY <4>1, <3>3, <3>6
        <3>10. PastInv'
            BY <1>1, <3>8, <3>9 DEF PastInv
        <3> QED
            BY <1>2, <1>4, <2>7, <2>8, <3>7, <3>10 DEF HomeInv
    <2> QED
        BY <1>6, <2>2, <2>9, <2>10
<1> QED
    BY <1>5, <1>6 DEF Hashed

LEMMA HomeDirect ==
    ASSUME ShapeInv, HomeInv, phase = "up",
           UNCHANGED <<phase, com, prom, wal, walDur, covered, segs, tmps>>, NEW k \in Key, Direct(k)
    PROVE  HomeInv'
<1>1. SyncedInv /\ HistInv /\ PastInv /\ TailHome /\ MemHome /\ QueueHome
    BY DEF HomeInv
<1>2. /\ hist \in Seq(Write) /\ Len(hist) \in Nat /\ mem.log \in Seq(Write) /\ com \in Nat
      /\ com <= Len(hist) /\ mem.ord \in BOOLEAN
    BY <1>1, Basics, AllPast
<1>3. PICK w : w = Next1(k, FALSE)
    OBVIOUS
<1>4. w \in Write /\ w.n = Len(hist) + 1
    BY <1>2, <1>3 DEF Next1, Write
<1>5. /\ hist' = Append(hist, w) /\ mem' = [ord |-> TRUE, log |-> Append(mem.log, w)]
      /\ UNCHANGED <<run, frozen>> /\ (mem.ord \/ mem.log = <<>>)
    BY <1>3 DEF Direct, GoesDirect
<1>6. PICK ws \in Seq(Write) : ws = <<w>>
    <2>1. <<w>> \in Seq(Write)
        BY <1>4
    <2> QED
        BY <2>1
<1>7. /\ hist' \in Seq(Write) /\ Len(hist') = Len(hist) + Len(ws)
      /\ \A i \in 1..Len(hist) : hist'[i] = hist[i]
      /\ \A i \in 1..Len(ws) : hist'[Len(hist) + i] = ws[i] /\ ws[i].n = Len(hist) + i
    BY <1>2, <1>4, <1>5, <1>6
<1>8. /\ HistInv'
      /\ \A i \in DOMAIN hist' : (i \in DOMAIN hist /\ hist'[i] = hist[i]) \/ hist'[i] \in Range(ws)
    BY <1>1, <1>7, HistGrown
<1>9. Range(ws) = {w}
    BY <1>6 DEF Range
<1>10. PICK u : u = Append(mem.log, w)
    OBVIOUS
<1>11. Range(u) = Range(mem.log) \cup {w}
    BY <1>2, <1>4, <1>10, AppendRange
<1>12. mem'.ord = TRUE /\ mem'.log = u
    BY <1>5, <1>10
<1>13. TailHome'
    <2>1. \A i \in DOMAIN hist' : i > com => hist'[i] \in Range(u)
        BY <1>1, <1>8, <1>9, <1>11 DEF TailHome
    <2> QED
        BY <1>12, <2>1 DEF TailHome
<1>14. MemHome'
    <2> SUFFICES ASSUME NEW v \in Range(u), v.n <= com PROVE Filed(tmps, run, v)
        BY <1>5, <1>12 DEF MemHome
    <2>1. v \in Range(mem.log)
        BY <1>2, <1>4, <1>11
    <2>2. mem.ord
        BY <1>5, <2>1 DEF Range
    <2> QED
        BY <1>1, <2>1, <2>2 DEF MemHome
<1>15. QueueHome'
    <2>1. Kept(wal', tmps')
        BY DEF Kept
    <2> QED
        BY <1>1, <1>5, <2>1, QueueHomeSame
<1>16. SyncedInv' /\ PastInv'
    BY <1>1, <1>5 DEF SyncedInv, PastInv
<1> QED
    BY <1>8, <1>13, <1>14, <1>15, <1>16 DEF HomeInv

LEMMA HomeWrites ==
    ASSUME ShapeInv, HomeInv, Writes PROVE HomeInv'
<1>1. /\ phase = "up"
      /\ UNCHANGED <<phase, com, prom, wal, walDur, covered, segs, tmps>>
    BY DEF Writes, log, shape
<1>2. PICK k \in Key : \/ Direct(k)
                       \/ \E inline \in BOOLEAN : Append1(k, inline)
                       \/ Put(k)
                       \/ Delete(k)
    BY DEF Writes
<1>3. hist \in Seq(Write) /\ Len(hist) \in Nat
    BY Basics
<1>4. ASSUME NEW w \in Write, w.n = Len(hist) + 1, hist' = Append(hist, w), Hashed(<<w>>)
      PROVE  HomeInv'
    <2>1. <<w>> \in Seq(Write)
        OBVIOUS
    <2>2. PICK ws \in Seq(Write) : ws = <<w>>
        BY <2>1
    <2>3. /\ hist' \in Seq(Write) /\ Len(hist') = Len(hist) + Len(ws)
          /\ \A i \in 1..Len(hist) : hist'[i] = hist[i]
          /\ \A i \in 1..Len(ws) : hist'[Len(hist) + i] = ws[i] /\ ws[i].n = Len(hist) + i
        BY <1>3, <1>4, <2>2
    <2>4. Hashed(ws)
        BY <1>4, <2>2
    <2> QED
        BY <1>1, <2>3, <2>4, HomeHashed
<1>5. \A del \in BOOLEAN : Next1(k, del) \in Write /\ Next1(k, del).n = Len(hist) + 1
    BY <1>3 DEF Next1, Write
<1>6. CASE \E inline \in BOOLEAN : Append1(k, inline)
    BY <1>4, <1>5, <1>6 DEF Append1
<1>7. CASE Delete(k)
    BY <1>4, <1>5, <1>7 DEF Delete
<1>8. CASE Put(k)
    <2>1. PICK t \in Write : t = Next1(k, TRUE) /\ t.n = Len(hist) + 1
        BY <1>5
    <2>2. PICK n \in Nat \ {0} : n = t.n + 1
        <3>1. t.n \in Nat
            BY DEF Write
        <3>2. t.n + 1 \in Nat \ {0}
            BY ONLY <3>1
        <3> QED
            BY ONLY <3>2
    <2>3. PICK w : w = [n |-> n, k |-> k, del |-> FALSE]
        OBVIOUS
    <2>4. w \in Write /\ w.n = n
        BY <2>3 DEF Write
    <2>5. n = Len(hist) + 2
        BY <1>3, <2>1, <2>2
    <2>6. hist' = hist \o <<t, w>> /\ Hashed(<<t, w>>)
        BY <1>8, <2>1, <2>2, <2>3 DEF Put
    <2>7. <<t, w>> \in Seq(Write)
        BY <2>4
    <2>8. PICK ws \in Seq(Write) : ws = <<t, w>>
        BY <2>7
    <2>9. /\ hist' \in Seq(Write) /\ Len(hist') = Len(hist) + Len(ws)
          /\ \A i \in 1..Len(hist) : hist'[i] = hist[i]
          /\ \A i \in 1..Len(ws) : hist'[Len(hist) + i] = ws[i]
        BY <1>3, <2>6, <2>8, ConcatRange
    <2>10. \A i \in 1..Len(ws) : ws[i].n = Len(hist) + i
        <3>1. Len(ws) = 2 /\ ws[1] = t /\ ws[2] = w
            BY <2>8
        <3>2. \A i \in 1..Len(ws) : i = 1 \/ i = 2
            BY <3>1
        <3> QED
            BY <2>1, <2>4, <2>5, <3>1, <3>2
    <2>11. Hashed(ws)
        BY <2>6, <2>8
    <2> QED
        BY <1>1, <2>9, <2>10, <2>11, HomeHashed
<1>9. CASE Direct(k)
    BY <1>1, <1>9, HomeDirect
<1> QED
    BY <1>2, <1>6, <1>7, <1>8, <1>9

\* A batch committed into the run's file, which holds the whole table, synced.
LEMMA HomeCommitDirect ==
    ASSUME SyncEvery = 1, ShapeInv, NamesInv, HomeInv, phase = "up", CommitDirect
    PROVE  /\ com' = Len(hist) /\ UNCHANGED <<wal, walDur>>
           /\ \A t \in tmps' : t.dur = Len(t.recs) /\ t.recs \in Seq(Past(Len(hist)))
           /\ Kept(wal', tmps')
           /\ \A w \in Range(mem.log) : Filed(tmps', RunId, w)
<1>1. SyncedInv /\ HistInv /\ PastInv
    BY DEF HomeInv
<1>2. /\ mem.log \in Seq(Past(Len(hist))) /\ com \in Nat /\ Len(hist) \in Nat /\ com <= Len(hist)
    BY <1>1, AllPast
<1>3. Due(unsynced + 1)
    BY DEF ShapeInv, LogInv, Due
<1>4. PICK new : new = [id |-> RunId, recs |-> mem.log, dur |-> Len(mem.log)]
    OBVIOUS
<1>5. /\ tmps' = (tmps \ {t \in tmps : t.id = run}) \cup {new} /\ com' = Len(hist)
      /\ UNCHANGED <<wal, walDur>>
    BY <1>3, <1>4 DEF CommitDirect
<1>6. new.id = RunId /\ new.recs = mem.log /\ new.dur = Len(mem.log)
    BY <1>4
<1>7. \A t \in tmps : t.recs \in Seq(Past(Len(hist))) /\ t.dur = Len(t.recs)
    BY <1>1, <1>2, PastWiden DEF PastInv, SyncedInv
<1>8. \A t \in tmps' : t.dur = Len(t.recs) /\ t.recs \in Seq(Past(Len(hist)))
    BY <1>2, <1>5, <1>6, <1>7
<1>9. Kept(wal', tmps')
    <2> SUFFICES ASSUME NEW i \in DOMAIN frozen, frozen[i].tmp # 0, NEW w, Filed(tmps, frozen[i].tmp, w)
                 PROVE  Filed(tmps', frozen[i].tmp, w)
        BY <1>5 DEF Kept
    <2>1. PICK t \in tmps : t.id = frozen[i].tmp /\ w \in Range(t.recs)
        BY DEF Filed
    <2>2. t.id # RunId /\ t.id # run
        <3>1. frozen[i].tmp # RunId
            BY NamesCommitDirect
        <3>2. run # 0 => RunId = run
            BY DEF RunId
        <3> QED
            BY <2>1, <3>1, <3>2
    <2>3. t \in tmps'
        BY <1>5, <2>2
    <2> QED
        BY <2>1, <2>3 DEF Filed
<1>10. \A w \in Range(mem.log) : Filed(tmps', RunId, w)
    BY <1>5, <1>6 DEF Filed
<1> QED
    BY <1>5, <1>8, <1>9, <1>10

\* A batch committed to the log, after what older tables cover, synced.
LEMMA HomeCommitLog ==
    ASSUME ShapeInv, HomeInv, phase = "up", ~mem.ord, wal' = wal \o Staged(mem.log), UNCHANGED tmps
    PROVE  /\ wal' \in Seq(Past(Len(hist))) /\ Kept(wal', tmps')
           /\ \A w \in Range(mem.log) :
                 LoggedAfter(wal', After(frozen, covered, Len(frozen) + 1), w)
<1>1. HistInv /\ PastInv /\ MemHome
    BY DEF HomeInv
<1>2. /\ mem.log \in Seq(Past(Len(hist))) /\ com \in Nat /\ Len(hist) \in Nat /\ com <= Len(hist)
      /\ mem.log \in Seq(Write)
    BY <1>1, AllPast
<1>3. PICK us \in Seq(Write) : us = Staged(mem.log)
    BY <1>2, StagedOf
<1>4. Range(us) = {w \in Range(mem.log) : w.n > com}
    BY <1>2, <1>3, SplitRange
<1>5. us \in Seq(Past(Len(hist)))
    <2>1. Range(mem.log) \subseteq Past(Len(hist))
        BY <1>2 DEF Range
    <2>2. Range(us) \subseteq Past(Len(hist))
        BY <1>4, <2>1
    <2> QED
        BY <2>2, SeqWithin
<1>6. wal \in Seq(Past(Len(hist))) /\ wal \in Seq(Write)
    BY <1>1, <1>2, PastWiden, Basics DEF PastInv
<1>7. wal' \in Seq(Past(Len(hist))) /\ wal' = wal \o us
    BY <1>3, <1>5, <1>6, ConcatRange
<1>8. /\ \A a, w : LoggedAfter(wal, a, w) => LoggedAfter(wal', a, w)
      /\ \A a \in Nat : a <= Len(wal) => \A w \in Range(us) : LoggedAfter(wal', a, w)
    BY <1>3, <1>6, <1>7, LogGrown
<1>9. Kept(wal', tmps')
    BY <1>8 DEF Kept
<1>10. PICK a \in Nat : a = After(frozen, covered, Len(frozen) + 1) /\ a <= Len(wal)
    <2>1. Len(frozen) + 1 \in 1..(Len(frozen) + 1)
        BY Basics
    <2> QED
        BY <2>1, AfterIs
<1>11. ASSUME NEW w \in Range(mem.log) PROVE LoggedAfter(wal', a, w)
    <2>1. CASE w.n > com
        BY <1>4, <1>8, <1>10, <2>1
    <2>2. CASE w.n <= com
        BY <1>1, <1>8, <1>10, <2>2 DEF MemHome
    <2>3. w.n \in Nat
        <3>1. w \in Write
            BY <1>2 DEF Range
        <3> QED
            BY <3>1 DEF Write
    <2> QED
        BY <1>2, <2>1, <2>2, <2>3
<1> QED
    BY <1>7, <1>9, <1>10, <1>11

\* What a step that commits all leaves, once the log, the files and the table are
\* known to hold it.
LEMMA HomeAll ==
    ASSUME ShapeInv, HomeInv, com' = Len(hist), UNCHANGED <<phase, hist, segs>>, phase = "up",
           prom' = prom \/ prom' = Len(hist), SyncedInv',
           wal' \in Seq(Past(Len(hist))), \A t \in tmps' : t.recs \in Seq(Past(Len(hist))),
           \A i \in DOMAIN frozen' : \/ i \in DOMAIN frozen /\ frozen'[i] = frozen[i]
                                     \/ frozen'[i].log = mem.log,
           MemHome', QueueHome'
    PROVE  HomeInv'
<1>1. HistInv /\ PastInv
    BY DEF HomeInv
<1>2. /\ mem.log \in Seq(Past(Len(hist))) /\ Len(hist) \in Nat /\ com \in Nat /\ com <= Len(hist)
      /\ hist \in Seq(Write) /\ prom \in Nat
    BY <1>1, AllPast, Basics DEF ShapeInv, WriterInv
<1>3. /\ \A s \in Seq(Past(com)) : s \in Seq(Past(Len(hist)))
      /\ \A c \in [Key -> Seq(Past(com))] : c \in [Key -> Seq(Past(Len(hist)))]
    BY <1>2, PastWiden
<1>4. HistInv'
    BY <1>1, <1>2 DEF HistInv
<1>5. PastInv'
    <2>1. \A s \in segs : s.c \in [Key -> Seq(Past(Len(hist)))]
        BY <1>1, <1>3 DEF PastInv
    <2>2. \A i \in DOMAIN frozen' : frozen'[i].log \in Seq(Past(Len(hist)))
        BY <1>1, <1>2, <1>3 DEF PastInv
    <2> QED
        BY <2>1, <2>2 DEF PastInv
<1>6. TailHome'
    BY <1>2 DEF TailHome
<1> QED
    BY <1>4, <1>5, <1>6 DEF HomeInv

\* With nothing staged all is committed.
LEMMA NoneStaged ==
    ASSUME ShapeInv, HomeInv, phase = "up", Staged(mem.log) = <<>>
    PROVE  com = Len(hist) /\ \A w \in Range(mem.log) : w.n <= com
<1>1. HistInv /\ TailHome
    BY DEF HomeInv
<1>2. /\ hist \in Seq(Write) /\ Len(hist) \in Nat /\ com \in Nat /\ com <= Len(hist)
      /\ mem.log \in Seq(Write)
    BY <1>1, AllPast, Basics
<1>3. \A i \in DOMAIN mem.log : ~(mem.log[i].n > com)
    BY <1>2, StagedEmpty
<1>4. \A w \in Range(mem.log) : ~(w.n > com)
    BY <1>3 DEF Range
<1>5. com = Len(hist)
    <2> SUFFICES ASSUME com < Len(hist) PROVE FALSE
        BY <1>2
    <2>1. PICK i \in Nat : i = Len(hist)
        BY <1>2
    <2>2. i \in DOMAIN hist /\ i > com
        BY <1>2, <2>1
    <2>3. hist[i].n = i /\ hist[i] \in Range(mem.log)
        BY <1>1, <2>2 DEF HistInv, TailHome
    <2> QED
        BY <1>4, <2>2, <2>3
<1>6. \A w \in Range(mem.log) : w.n \in Nat
    <2>1. \A w \in Range(mem.log) : w \in Write
        BY <1>2 DEF Range
    <2> QED
        BY <2>1 DEF Write
<1> QED
    BY <1>2, <1>4, <1>5, <1>6

LEMMA HomeCommit ==
    ASSUME SyncEvery = 1, ShapeInv, NamesInv, HomeInv, Commit \/ Sync
    PROVE  HomeInv'
<1>1. phase = "up" /\ UNCHANGED <<phase, hist, mem, frozen, covered, segs>> /\ prom' = Len(hist)
    BY DEF Commit, Sync, Promise, shape
<1>2. PastInv /\ QueueHome /\ MemHome /\ SyncedInv /\ HistInv
    BY <1>1 DEF HomeInv
<1>3. CASE mem.ord /\ CommitDirect /\ run' = RunId
    <2>1. /\ com' = Len(hist) /\ UNCHANGED <<wal, walDur>>
          /\ \A t \in tmps' : t.dur = Len(t.recs) /\ t.recs \in Seq(Past(Len(hist)))
          /\ Kept(wal', tmps')
          /\ \A w \in Range(mem.log) : Filed(tmps', RunId, w)
        BY <1>1, <1>3, HomeCommitDirect
    <2>2. SyncedInv'
        BY <1>2, <2>1 DEF SyncedInv
    <2>3. MemHome'
        BY <1>1, <1>3, <2>1 DEF MemHome
    <2>4. QueueHome'
        BY <1>1, <1>2, <2>1, QueueHomeSame
    <2>5. wal' \in Seq(Past(Len(hist)))
        BY <1>2, <2>1, AllPast, PastWiden DEF PastInv
    <2> QED
        BY <1>1, <2>1, <2>2, <2>3, <2>4, <2>5, HomeAll
<1>4. CASE ~mem.ord /\ \E u \in Nat : Due(u) /\ CommitLog(u)
    <2>1. PICK u \in Nat : Due(u) /\ CommitLog(u)
        BY <1>4
    <2>2. /\ wal' = wal \o Staged(mem.log) /\ walDur' = Len(wal') /\ com' = Len(hist)
          /\ UNCHANGED tmps
        BY <2>1 DEF CommitLog
    <2>3. /\ wal' \in Seq(Past(Len(hist))) /\ Kept(wal', tmps')
          /\ \A w \in Range(mem.log) :
                LoggedAfter(wal', After(frozen, covered, Len(frozen) + 1), w)
        BY <1>1, <1>4, <2>2, HomeCommitLog
    <2>4. SyncedInv'
        BY <1>2, <2>2 DEF SyncedInv
    <2>5. MemHome'
        BY <1>1, <1>4, <2>3 DEF MemHome
    <2>6. QueueHome'
        BY <1>1, <1>2, <2>3, QueueHomeSame
    <2>7. \A t \in tmps' : t.recs \in Seq(Past(Len(hist)))
        BY <1>2, <2>2, AllPast, PastWiden DEF PastInv
    <2> QED
        BY <1>1, <2>2, <2>3, <2>4, <2>5, <2>6, <2>7, HomeAll
<1>5. CASE mem.ord /\ Staged(mem.log) = <<>> /\ UNCHANGED <<wal, walDur, tmps, com, run>>
    <2>1. com = Len(hist)
        BY <1>1, <1>5, NoneStaged
    <2>2. Kept(wal', tmps')
        BY <1>5 DEF Kept
    <2>3. QueueHome'
        BY <1>1, <1>2, <2>2, QueueHomeSame
    <2>4. SyncedInv' /\ MemHome'
        BY <1>1, <1>2, <1>5 DEF SyncedInv, MemHome
    <2>5. wal' \in Seq(Past(Len(hist))) /\ \A t \in tmps' : t.recs \in Seq(Past(Len(hist)))
        BY <1>2, <1>5, <2>1 DEF PastInv
    <2> QED
        BY <1>1, <1>5, <2>1, <2>3, <2>4, <2>5, HomeAll
<1>6. unsynced + 1 \in Nat /\ Due(unsynced + 1) /\ SyncEvery \in Nat /\ Due(SyncEvery)
    BY DEF ShapeInv, LogInv, Due
<1> QED
    BY <1>3, <1>4, <1>5, <1>6 DEF Commit, Sync

LEMMA HomeSealRun ==
    ASSUME SyncEvery = 1, ShapeInv, NamesInv, HomeInv, SealRun
    PROVE  HomeInv'
<1>1. /\ phase = "up" /\ mem.ord /\ UNCHANGED <<phase, hist, covered, segs>>
      /\ CloseRun(RunId, mem.log) /\ mem' = [ord |-> FALSE, log |-> <<>>]
    BY DEF SealRun, shape
<1>2. PastInv /\ QueueHome /\ MemHome /\ SyncedInv /\ HistInv
    BY <1>1 DEF HomeInv
<1>3. /\ com' = Len(hist) /\ UNCHANGED <<wal, walDur>> /\ (prom' = prom \/ prom' = Len(hist))
      /\ \A t \in tmps' : t.dur = Len(t.recs) /\ t.recs \in Seq(Past(Len(hist)))
      /\ Kept(wal', tmps')
      /\ \A w \in Range(mem.log) : Filed(tmps', RunId, w)
    <2>1. CASE CommitDirect
        <3>1. prom' = Len(hist) \/ prom' = prom
            BY DEF SealRun, Promise
        <3> QED
            BY <1>1, <2>1, <3>1, HomeCommitDirect
    <2>2. CASE ~CommitDirect
        <3>1. Staged(mem.log) = <<>> /\ UNCHANGED <<wal, walDur, tmps, com, prom>>
            BY <2>2 DEF SealRun
        <3>2. com = Len(hist) /\ \A w \in Range(mem.log) : w.n <= com
            BY <1>1, <3>1, NoneStaged
        <3>3. RunId = run
            BY <2>2, SealedRun
        <3>4. Kept(wal', tmps')
            BY <3>1 DEF Kept
        <3>5. \A w \in Range(mem.log) : Filed(tmps', RunId, w)
            BY <1>1, <1>2, <3>1, <3>2, <3>3 DEF MemHome
        <3>6. \A t \in tmps' : t.dur = Len(t.recs) /\ t.recs \in Seq(Past(Len(hist)))
            BY <1>2, <3>1, <3>2 DEF SyncedInv, PastInv
        <3> QED
            BY <3>1, <3>2, <3>4, <3>5, <3>6
    <2> QED
        BY <2>1, <2>2
<1>4. PICK first \in BOOLEAN : frozen' = Append(frozen, RunJob(RunId, mem.log, first))
    BY <1>1 DEF CloseRun
<1>5. PICK id \in Nat : id = RunId /\ id # 0
    BY SealedRun
<1>6. PICK j : j = RunJob(id, mem.log, first)
    OBVIOUS
<1>7. j \in Job /\ j.tmp = id /\ j.log = mem.log /\ frozen' = Append(frozen, j)
    BY <1>4, <1>5, <1>6, Basics, RunJobIs
<1>8. Homed(j, After(frozen, covered, Len(frozen) + 1), wal', tmps')
    BY <1>3, <1>5, <1>7 DEF Homed
<1>9. QueueHome'
    BY <1>1, <1>2, <1>3, <1>7, <1>8, QueueHomeGrown
<1>10. \A i \in DOMAIN frozen' : \/ i \in DOMAIN frozen /\ frozen'[i] = frozen[i]
                                 \/ frozen'[i].log = mem.log
    BY <1>7, Basics
<1>11. MemHome'
    BY <1>1 DEF MemHome, Range
<1>12. SyncedInv'
    BY <1>2, <1>3 DEF SyncedInv
<1>13. wal' \in Seq(Past(Len(hist)))
    BY <1>2, <1>3, AllPast, PastWiden DEF PastInv
<1> QED
    BY <1>1, <1>3, <1>9, <1>10, <1>11, <1>12, <1>13, HomeAll

LEMMA HomeSealTable ==
    ASSUME SyncEvery = 1, ShapeInv, HomeInv, ShapeInv', SealTable
    PROVE  HomeInv'
<1> DEFINE fs == Fences(Parts(segs))
           u == IF Staged(mem.log) = <<>> THEN unsynced ELSE unsynced + 1
<1>1. /\ phase = "up" /\ ~mem.ord /\ UNCHANGED <<phase, hist, covered, segs, tmps>>
      /\ mem' = [ord |-> FALSE, log |-> <<>>] /\ com' = Len(hist) /\ prom' = Len(hist)
      /\ wal' = wal \o Staged(mem.log) /\ walDur' = IF Due(u) THEN Len(wal') ELSE walDur
    BY DEF SealTable, shape, Promise
<1>2. PastInv /\ QueueHome /\ MemHome /\ SyncedInv /\ HistInv
    BY <1>1 DEF HomeInv
<1>3. PICK first \in BOOLEAN :
          frozen' = Append(frozen, [log |-> mem.log, tmp |-> 0, seq |-> covered + Len(wal'),
                                    fences |-> fs, id |-> nextSeg, first |-> first])
    BY DEF SealTable
<1>4. PICK j : j = [log |-> mem.log, tmp |-> 0, seq |-> covered + Len(wal'),
                    fences |-> fs, id |-> nextSeg, first |-> first]
    OBVIOUS
<1>5. Len(wal') \in Nat
    BY DEF ShapeInv, LogInv
<1>6. j \in Job /\ j.tmp = 0 /\ j.log = mem.log /\ frozen' = Append(frozen, j)
    BY <1>3, <1>4, <1>5, SealedJob
<1>7. walDur' = Len(wal')
    <2>1. CASE Staged(mem.log) = <<>>
        <3>1. wal' = wal \/ walDur' = Len(wal')
            BY <1>1, <2>1, Basics
        <3> QED
            BY <1>1, <1>2, <3>1 DEF SyncedInv
    <2>2. CASE Staged(mem.log) # <<>>
        <3>1. Due(unsynced + 1)
            BY DEF ShapeInv, LogInv, Due
        <3> QED
            BY <1>1, <2>2, <3>1
    <2> QED
        BY <2>1, <2>2
<1> HIDE DEF u, fs
<1>8. /\ wal' \in Seq(Past(Len(hist))) /\ Kept(wal', tmps')
      /\ \A w \in Range(mem.log) : LoggedAfter(wal', After(frozen, covered, Len(frozen) + 1), w)
    BY <1>1, HomeCommitLog
<1>9. Homed(j, After(frozen, covered, Len(frozen) + 1), wal', tmps')
    BY <1>6, <1>8 DEF Homed
<1>10. QueueHome'
    BY <1>1, <1>2, <1>6, <1>8, <1>9, QueueHomeGrown
<1>11. \A i \in DOMAIN frozen' : \/ i \in DOMAIN frozen /\ frozen'[i] = frozen[i]
                                 \/ frozen'[i].log = mem.log
    BY <1>6, Basics
<1>12. MemHome'
    BY <1>1 DEF MemHome, Range
<1>13. SyncedInv'
    BY <1>1, <1>2, <1>7 DEF SyncedInv
<1>14. \A t \in tmps' : t.recs \in Seq(Past(Len(hist)))
    BY <1>1, <1>2, AllPast, PastWiden DEF PastInv
<1> QED
    BY <1>1, <1>8, <1>10, <1>11, <1>12, <1>13, <1>14, HomeAll

-----------------------------------------------------------------------------
(* Homes through the segment work.                                            *)

\* Segments that hold no write the old ones did not.
LEMMA HomeSegs ==
    ASSUME HomeInv,
           UNCHANGED <<phase, hist, com, prom, mem, run, frozen, wal, walDur, covered, tmps>>,
           \A s \in segs' : s.c \in [Key -> Seq(Past(com))]
    PROVE  HomeInv'
<1>1. SyncedInv' /\ HistInv' /\ PastInv'
    BY DEF HomeInv, SyncedInv, HistInv, PastInv
<1>2. phase = "up" => TailHome' /\ MemHome' /\ QueueHome'
    BY DEF HomeInv, TailHome, MemHome, QueueHome
<1> QED
    BY <1>1, <1>2 DEF HomeInv

LEMMA HomePlan ==
    ASSUME ShapeInv, HomeInv, Plan PROVE HomeInv'
<1>1. UNCHANGED <<phase, hist, com, prom, mem, run, frozen, wal, walDur, covered, tmps>>
    BY DEF Plan, tables, log
<1>2. \A s \in segs' : s.c \in [Key -> Seq(Past(com))]
    BY PlanSegs DEF HomeInv, PastInv
<1> QED
    BY <1>1, <1>2, HomeSegs

LEMMA HomeStartTier ==
    ASSUME HomeInv, StartTier PROVE HomeInv'
<1>1. UNCHANGED <<phase, hist, com, prom, mem, run, frozen, wal, walDur, covered, tmps, segs>>
    BY DEF StartTier, tables, log
<1>2. \A s \in segs' : s.c \in [Key -> Seq(Past(com))]
    BY <1>1 DEF HomeInv, PastInv
<1> QED
    BY <1>1, <1>2, HomeSegs

\* The segments of a merge, one after the other.
LEMMA InputsInOrder ==
    ASSUME ShapeInv, NamesInv, NEW T \in SUBSET segs PROVE InOrder(T) \in Seq(T)
<1>1. (\A s \in segs : Segment(s)) /\ Tiled(Parts(segs)) /\ NamedApart(segs)
    BY DEF ShapeInv, SegInv, NamesInv
<1>2. PICK N \in Nat : \A s \in segs : s.id <= N
    BY DEF ShapeInv, SegInv
<1> QED
    BY <1>1, <1>2, InOrderOf

LEMMA HomeLandMerge ==
    ASSUME ShapeInv, NamesInv, HomeInv, LandMerge PROVE HomeInv'
<1>1. UNCHANGED <<phase, hist, com, prom, mem, run, frozen, wal, walDur, covered, tmps>>
    BY DEF LandMerge, tables, log
<1>2. PICK m \in merges : \A q \in segs' :
          \/ q \in segs
          \/ q.level = 1 /\ \E g, seq : q = Bottom(m.inputs, g, seq)
    BY MergeSegs
<1>3. PICK T \in SUBSET segs : T = m.inputs
    BY DEF ShapeInv, MergeInv, MergesHold
<1>4. InOrder(T) \in Seq(T)
    BY InputsInOrder
<1>5. PICK W : W = Past(com)
    OBVIOUS
<1>6. \A s \in segs : s.c \in [Key -> Seq(W)]
    BY <1>5 DEF HomeInv, PastInv
<1>7. \A s \in T : s.c \in [Key -> Seq(W)]
    BY <1>6
<1>8. \A g, seq : Bottom(T, g, seq).c \in [Key -> Seq(W)]
    BY <1>4, <1>7, BottomOf
<1>9. \A q \in segs' : q.c \in [Key -> Seq(W)]
    BY <1>2, <1>3, <1>6, <1>8
<1> QED
    BY <1>1, <1>5, <1>9, HomeSegs

LEMMA HomeLandTier ==
    ASSUME ShapeInv, NamesInv, HomeInv, LandTier PROVE HomeInv'
<1>1. UNCHANGED <<phase, hist, com, prom, mem, run, frozen, wal, walDur, covered, tmps>>
    BY DEF LandTier, tables, log
<1>2. PICK t \in tier : segs' = (segs \ t.inputs) \cup {Tiered(t.inputs, t.fence, t.id)}
    BY DEF LandTier
<1>3. PICK T \in SUBSET segs : T = t.inputs
    BY DEF ShapeInv, TierInv, Pieces
<1>4. InOrder(T) \in Seq(T)
    BY InputsInOrder
<1>5. PICK W : W = Past(com)
    OBVIOUS
<1>6. \A s \in segs : s.c \in [Key -> Seq(W)]
    BY <1>5 DEF HomeInv, PastInv
<1>7. \A s \in T : s.c \in [Key -> Seq(W)]
    BY <1>6
<1>8. \A f, id : Tiered(T, f, id).c \in [Key -> Seq(W)]
    BY <1>4, <1>7, TieredOf
<1>9. \A q \in segs' : q.c \in [Key -> Seq(W)]
    BY <1>2, <1>3, <1>6, <1>8
<1> QED
    BY <1>1, <1>5, <1>9, HomeSegs

LEMMA HomeUnlink ==
    ASSUME ShapeInv, HomeInv, Unlink PROVE HomeInv'
<1>1. /\ UNCHANGED <<phase, hist, com, prom, mem, run, frozen, wal, walDur, covered, segs>>
      /\ phase = "up" /\ tmps' = tmps \ LandedTmps
    BY DEF Unlink, tables, log, shape
<1>2. SyncedInv /\ HistInv /\ PastInv /\ TailHome /\ MemHome /\ QueueHome
    BY <1>1 DEF HomeInv
<1>3. SyncedInv' /\ HistInv' /\ PastInv' /\ TailHome'
    BY <1>1, <1>2 DEF SyncedInv, HistInv, PastInv, TailHome
<1>4. \A w : Filed(tmps, run, w) => Filed(tmps', run, w)
    BY <1>1 DEF Filed, LandedTmps
<1>5. Kept(wal', tmps')
    BY <1>1 DEF Kept, Filed, LandedTmps
<1>6. MemHome'
    BY <1>1, <1>2, <1>4 DEF MemHome
<1>7. QueueHome'
    BY <1>1, <1>2, <1>5, QueueHomeSame
<1> QED
    BY <1>3, <1>6, <1>7 DEF HomeInv

\* The log without the first g records, which a landing covers.
Retired(w, g) == SubSeq(w, g + 1, Len(w))
Shorter(W, w, g, U) ==
    /\ U \in Seq(W) /\ Len(U) = Len(w) - g
    /\ \A a \in Nat : \A x : LoggedAfter(w, a + g, x) => LoggedAfter(U, a, x)

LEMMA LogRetired ==
    ASSUME NEW W, NEW w \in Seq(W), NEW g \in Nat, g <= Len(w)
    PROVE  Shorter(W, w, g, Retired(w, g))
<1> PICK U : U = SubSeq(w, g + 1, Len(w))
    OBVIOUS
<1>1. /\ U \in Seq(W) /\ Len(U) = Len(w) - g /\ Len(w) \in Nat /\ DOMAIN w = 1..Len(w)
      /\ \A i \in 1..(Len(w) - g) : U[i] = w[i + g]
    OBVIOUS
<1>2. DOMAIN U = 1..(Len(w) - g)
    <2>1. U \in Seq(W) /\ Len(U) = Len(w) - g
        BY <1>1
    <2>2. DOMAIN U = 1..Len(U)
        BY ONLY <2>1
    <2> QED
        BY ONLY <2>1, <2>2
<1>3. ASSUME NEW a \in Nat, NEW x, LoggedAfter(w, a + g, x) PROVE LoggedAfter(U, a, x)
    <2>1. PICK p \in DOMAIN w : p > a + g /\ w[p] = x
        BY <1>3 DEF LoggedAfter
    <2>2. p - g \in 1..(Len(w) - g) /\ p - g > a /\ (p - g) + g = p
        <3>1. PICK n \in Nat : n = Len(w)
            BY <1>1
        <3>2. p \in 1..n /\ p > a + g
            BY <1>1, <2>1, <3>1
        <3>3. p - g \in 1..(n - g) /\ p - g > a /\ (p - g) + g = p
            BY ONLY a \in Nat, g \in Nat, n \in Nat, <3>2
        <3> QED
            BY <3>1, <3>3
    <2>3. U[p - g] = x
        BY <1>1, <2>1, <2>2
    <2> QED
        BY <1>2, <2>2, <2>3 DEF LoggedAfter
<1> QED
    BY <1>1, <1>3 DEF Shorter, Retired

LEMMA HomeLandSeal ==
    ASSUME ShapeInv, NamesInv, HomeInv, LandSeal PROVE HomeInv'
<1>1. PICK j, gone, L : j = Head(frozen) /\ gone = j.seq - covered /\ L = LandedSegs(j)
    OBVIOUS
<1>2. /\ phase = "up" /\ frozen # <<>> /\ segs' = segs \cup L /\ frozen' = Tail(frozen)
      /\ covered' = j.seq /\ wal' = SubSeq(wal, gone + 1, Len(wal))
      /\ walDur' = Max({0, walDur - gone})
      /\ UNCHANGED <<phase, hist, com, prom, mem, run, tmps>>
    BY <1>1 DEF LandSeal, Working
<1>3. SyncedInv /\ HistInv /\ PastInv /\ TailHome /\ MemHome /\ QueueHome
    BY <1>2 DEF HomeInv
<1>4. PICK Q, n : Q = frozen' /\ n = Len(frozen)
    OBVIOUS
<1>5. /\ n \in Nat /\ n >= 1 /\ DOMAIN frozen = 1..n /\ 1 \in DOMAIN frozen
      /\ j = frozen[1] /\ j \in Job /\ Q \in Seq(Job) /\ Len(Q) = n - 1 /\ DOMAIN Q = 1..(n - 1)
      /\ \A i \in 1..(n - 1) : Q[i] = frozen[i + 1] /\ i + 1 \in DOMAIN frozen
    <2>1. frozen \in Seq(Job) /\ Len(frozen) \in Nat
        BY Basics
    <2> QED
        BY <1>1, <1>2, <1>4, <2>1
<1>6. /\ covered \in Nat /\ Len(wal) \in Nat /\ \A i \in DOMAIN frozen : frozen[i].seq \in Nat
      /\ j.seq \in Nat /\ gone \in Nat /\ gone <= Len(wal)
    <2>1. covered \in Nat /\ Len(wal) \in Nat /\ \A i \in DOMAIN frozen : frozen[i].seq \in Nat
        BY Basics
    <2>2. covered <= j.seq /\ j.seq <= covered + Len(wal)
        BY <1>5 DEF ShapeInv, JobInv, Seq0
    <2> QED
        BY <1>1, <1>5, <2>1, <2>2
<1>7. PICK U : U = wal'
    OBVIOUS
<1>8. /\ U \in Seq(Past(com)) /\ Len(U) = Len(wal) - gone
      /\ \A a \in Nat : \A x : LoggedAfter(wal, a + gone, x) => LoggedAfter(U, a, x)
    <2>1. wal \in Seq(Past(com)) /\ U = SubSeq(wal, gone + 1, Len(wal))
        BY <1>2, <1>3, <1>7 DEF PastInv
    <2>2. PICK W : W = Past(com)
        OBVIOUS
    <2> PICK v \in Seq(W) : v = wal
        BY <2>1, <2>2
    <2>3. gone \in Nat /\ gone <= Len(v) /\ U = Retired(v, gone)
        BY <1>6, <2>1 DEF Retired
    <2>4. Shorter(W, v, gone, U)
        BY <2>3, LogRetired, Zenon
    <2> QED
        BY <2>2, <2>4 DEF Shorter
<1>9. \A i \in 1..n : /\ After(Q, j.seq, i) \in Nat
                      /\ After(frozen, covered, i + 1) = After(Q, j.seq, i) + gone
    <2> TAKE i \in 1..n
    <2>1. i + 1 # 1 /\ (i + 1) - 1 = i /\ i \in DOMAIN frozen
        BY <1>5
    <2>2. After(frozen, covered, i + 1) = frozen[i].seq - covered
        BY <2>1 DEF After
    <2>3. CASE i = 1
        <3>1. After(Q, j.seq, i) = 0
            BY <2>3 DEF After
        <3> QED
            BY <1>1, <1>5, <1>6, <2>2, <2>3, <3>1
    <2>4. CASE i # 1
        <3>1. i - 1 \in 1..(n - 1) /\ (i - 1) + 1 = i /\ 1 < i
            BY <1>5, <2>4
        <3>2. Q[i - 1] = frozen[i]
            BY <1>5, <3>1
        <3>3. After(Q, j.seq, i) = frozen[i].seq - j.seq
            BY <2>4, <3>2 DEF After
        <3>4. frozen[1].seq <= frozen[i].seq
            BY <1>5, <2>1, <3>1 DEF ShapeInv, JobInv
        <3>5. PICK x \in Nat : x = frozen[i].seq /\ j.seq <= x
            BY <1>5, <1>6, <2>1, <3>4
        <3>6. PICK y \in Nat, c \in Nat : y = j.seq /\ c = covered /\ y <= x /\ gone = y - c
            BY <1>1, <1>6, <3>5
        <3>7. x - y \in Nat /\ x - c = (x - y) + gone
            BY ONLY x \in Nat, y \in Nat, c \in Nat, <3>6
        <3> QED
            BY <2>2, <3>3, <3>5, <3>6, <3>7
    <2> QED
        BY <2>3, <2>4
<1>10. QueueHome'
    <2>1. ASSUME NEW i \in DOMAIN Q PROVE Homed(Q[i], After(Q, j.seq, i), U, tmps)
        <3>1. i \in 1..(n - 1) /\ i \in 1..n
            BY <1>5
        <3>2. PICK a \in Nat : a = After(Q, j.seq, i) /\ After(frozen, covered, i + 1) = a + gone
            BY <1>9, <3>1
        <3>3. Homed(Q[i], a + gone, wal, tmps)
            BY <1>3, <1>5, <3>1, <3>2 DEF QueueHome
        <3>4. Homed(Q[i], a, U, tmps)
            BY <1>8, <3>3 DEF Homed
        <3> QED
            BY <3>2, <3>4
    <2> QED
        BY <1>2, <1>4, <1>7, <2>1 DEF QueueHome
<1>11. MemHome'
    <2>1. n \in 1..n /\ Len(Q) + 1 = n
        BY <1>5
    <2>2. PICK a \in Nat : a = After(Q, j.seq, n) /\ After(frozen, covered, n + 1) = a + gone
        BY <1>9, <2>1
    <2>3. \A w \in Range(mem.log) : w.n <= com =>
              IF mem.ord THEN Filed(tmps, run, w) ELSE LoggedAfter(U, a, w)
        BY <1>3, <1>4, <1>8, <2>2 DEF MemHome
    <2> QED
        BY <1>2, <1>4, <1>7, <2>1, <2>2, <2>3 DEF MemHome
<1>12. SyncedInv'
    <2>1. walDur = Len(wal) /\ \A t \in tmps : t.dur = Len(t.recs)
        BY <1>3 DEF SyncedInv
    <2>2. PICK m \in Nat : m = Len(wal) - gone
        BY <1>6
    <2>3. PICK z \in Nat : z = 0
        OBVIOUS
    <2>4. Max({z, m}) = m
        <3>1. Max({z, m}) \in Nat /\ Max({z, m}) >= m /\ Max({z, m}) \in {z, m}
            BY MaxOfTwo
        <3> QED
            BY <2>3, <3>1
    <2> QED
        BY <1>2, <1>7, <1>8, <2>1, <2>2, <2>3, <2>4 DEF SyncedInv
<1>13. PastInv'
    <2>1. /\ j.tmp # 0 => \A g \in j.fences : g.hi = Top
          /\ j.first => j.fences = {}
        BY <1>5 DEF ShapeInv, JobInv
    <2>2. LowsApart(j.fences)
        BY <1>5 DEF NamesInv, QueueNamed
    <2>3. PICK W : W = Past(com)
        OBVIOUS
    <2>4. j.log \in Seq(W)
        BY <1>3, <1>5, <2>3 DEF PastInv
    <2>5. \A p \in L : p.c \in [Key -> Seq(W)]
        BY <1>1, <1>5, <2>1, <2>2, <2>4, LandedOf
    <2>6. \A s \in segs' : s.c \in [Key -> Seq(Past(com))]
        BY <1>2, <1>3, <2>3, <2>5 DEF PastInv
    <2>7. \A i \in DOMAIN Q : Q[i].log \in Seq(Past(com))
        BY <1>3, <1>5 DEF PastInv
    <2> QED
        BY <1>2, <1>3, <1>4, <1>7, <1>8, <2>6, <2>7 DEF PastInv
<1>14. HistInv' /\ TailHome'
    BY <1>2, <1>3 DEF HistInv, TailHome
<1> QED
    BY <1>10, <1>11, <1>12, <1>13, <1>14 DEF HomeInv

-----------------------------------------------------------------------------
(* Homes through a crash and the open after it.                               *)

\* The first places of a sequence.
LEMMA SubsequencePrefix ==
    ASSUME NEW T, NEW s \in Seq(T), NEW m \in Nat, m <= Len(s)
    PROVE  LET u == Subsequence(s, 1..m) IN
           u \in Seq(T) /\ Len(u) = m /\ \A j \in 1..m : u[j] = s[j]
<1> DEFINE I == 1..m
           u == Subsequence(s, I)
<1>1. I \in SUBSET DOMAIN s /\ IsFiniteSet(I) /\ Cardinality(I) = m
    <2>1. IsFiniteSet(I) /\ Cardinality(I) = IF 1 > m THEN 0 ELSE m - 1 + 1
        BY FS_Interval
    <2> QED
        BY <2>1
<1>2. \A i \in I : Cardinality({h \in I : h < i}) = i - 1
    <2> TAKE i \in I
    <2>1. {h \in I : h < i} = 1..(i - 1)
        OBVIOUS
    <2>2. PICK n \in Nat : n = i - 1
        OBVIOUS
    <2>3. Cardinality(1..n) = IF 1 > n THEN 0 ELSE n - 1 + 1
        BY FS_Interval
    <2>4. Cardinality(1..n) = n
        BY ONLY n \in Nat, <2>3
    <2> QED
        BY ONLY <2>1, <2>2, <2>4
<1>3. ASSUME NEW j \in I PROVE (CHOOSE i \in I : Cardinality({h \in I : h < i}) = j - 1) = j
    <2> DEFINE x == CHOOSE i \in I : Cardinality({h \in I : h < i}) = j - 1
    <2>1. \E i \in I : Cardinality({h \in I : h < i}) = j - 1
        BY <1>2
    <2>2. x \in I /\ Cardinality({h \in I : h < x}) = j - 1
        BY <2>1, Zenon
    <2> HIDE DEF x
    <2>3. x - 1 = j - 1
        BY <1>2, <2>2
    <2>4. x = j
        BY <2>2, <2>3
    <2> QED
        BY <2>4 DEF x
<1>4. \A j \in I : u[j] = s[CHOOSE i \in I : Cardinality({h \in I : h < i}) = j - 1]
    <2>1. 1..Cardinality(I) = I
        BY <1>1
    <2> QED
        BY <2>1 DEF Subsequence
<1>5. \A j \in I : u[j] = s[j]
    BY <1>3, <1>4
<1> HIDE DEF I
<1>6. u \in Seq(T) /\ Len(u) = m
    BY <1>1, SubsequenceOf
<1> QED
    BY <1>5, <1>6 DEF I

\* A committed write is still in the log, a file or a segment, where it was in one
\* of them or in a table; one not committed is in none of them.
LEMMA HeldIsPast ==
    ASSUME ShapeInv, HomeInv, phase = "up"
    PROVE  /\ \A w \in Held0(wal, tmps, segs) : w \in Past(com)
           /\ \A w \in Range(mem.log) : w.n <= com => w \in Held0(wal, tmps, segs)
           /\ \A i \in DOMAIN frozen : \A w \in Range(frozen[i].log) : w \in Held0(wal, tmps, segs)
<1>1. PastInv /\ MemHome /\ QueueHome
    BY DEF HomeInv
<1>2. \A s \in Seq(Past(com)) : Range(s) \subseteq Past(com)
    BY DEF Range
<1>3. \A s \in segs, k \in Key : s.c[k] \in Seq(Past(com))
    BY <1>1 DEF PastInv
<1>4. \A w \in Held0(wal, tmps, segs) :
          \/ w \in Range(wal)
          \/ \E t \in tmps : w \in Range(t.recs)
          \/ \E s \in segs, k \in Key : w \in Range(s.c[k])
    BY DEF Held0
<1>5. \A w \in Held0(wal, tmps, segs) : w \in Past(com)
    BY <1>1, <1>2, <1>3, <1>4 DEF PastInv
<1>6. \A a, w : LoggedAfter(wal, a, w) => w \in Held0(wal, tmps, segs)
    <2>1. \A a, w : LoggedAfter(wal, a, w) => w \in Range(wal)
        BY DEF LoggedAfter, Range
    <2> QED
        BY <2>1 DEF Held0
<1>7. \A id, w : Filed(tmps, id, w) => w \in Held0(wal, tmps, segs)
    BY DEF Filed, Held0
<1>8. \A w \in Range(mem.log) : w.n <= com => w \in Held0(wal, tmps, segs)
    BY <1>1, <1>6, <1>7 DEF MemHome
<1>9. \A i \in DOMAIN frozen : \A w \in Range(frozen[i].log) : w \in Held0(wal, tmps, segs)
    BY <1>1, <1>6, <1>7 DEF QueueHome, Homed
<1> QED
    BY <1>5, <1>8, <1>9

LEMMA HomeCrash ==
    ASSUME ShapeInv, HomeInv, NEW kept \in {walDur, Len(wal)}, Crash(kept) PROVE HomeInv'
<1>1. /\ phase = "up" /\ phase' = "down" /\ wal' = SubSeq(wal, 1, kept) /\ walDur' = kept
      /\ com' = Len(hist') /\ frozen' = <<>> /\ UNCHANGED <<prom, segs>>
    BY DEF Crash
<1>2. SyncedInv /\ HistInv /\ PastInv /\ TailHome
    BY <1>1 DEF HomeInv
<1>3. /\ hist \in Seq(Write) /\ Len(hist) \in Nat /\ DOMAIN hist = 1..Len(hist)
      /\ com \in Nat /\ com <= Len(hist) /\ wal \in Seq(Write)
    BY <1>2, AllPast, Basics
<1>4. wal' = wal /\ walDur' = Len(wal)
    <2>1. kept = Len(wal)
        BY <1>2 DEF SyncedInv
    <2>2. SubSeq(wal, 1, Len(wal)) = wal
        BY <1>3
    <2> QED
        BY <1>1, <2>1, <2>2
<1>5. tmps' = tmps
    <2>1. PICK whole \in SUBSET tmps :
             tmps' = whole \cup {[t EXCEPT !.recs = SubSeq(@, 1, t.dur)] : t \in tmps \ whole}
        BY DEF Crash
    <2>2. ASSUME NEW t \in tmps PROVE [t EXCEPT !.recs = SubSeq(@, 1, t.dur)] = t
        <3>1. t.recs \in Seq(Write) /\ t.dur = Len(t.recs)
            BY <1>2, Basics DEF SyncedInv
        <3>2. SubSeq(t.recs, 1, t.dur) = t.recs
            BY <3>1
        <3>3. t \in Run
            BY DEF ShapeInv, LogInv
        <3> QED
            BY <3>2, <3>3 DEF Run
    <2> QED
        BY <2>1, <2>2
<1>6. PICK H : H = Held0(wal, tmps, segs)
    OBVIOUS
<1> DEFINE was == H \cup Range(mem.log) \cup (UNION {Range(frozen[i].log) : i \in DOMAIN frozen})
<1>7. hist' = Subsequence(hist, {i \in DOMAIN hist : hist[i] \notin was \ H})
    <2>1. PICK x \in {(Held0(wal, tmps, segs) \cup Range(mem.log)
                       \cup (UNION {Range(frozen[i].log) : i \in DOMAIN frozen}))
                      \ Held0(wal', tmps', segs)} :
             hist' = Subsequence(hist, {i \in DOMAIN hist : hist[i] \notin x})
        BY Zenon DEF Crash
    <2>2. Held0(wal', tmps', segs) = H
        BY <1>4, <1>5, <1>6
    <2>3. x = was \ H
        BY <1>6, <2>1, <2>2
    <2> QED
        BY <2>1, <2>3
<1>8. /\ \A w \in H : w \in Past(com)
      /\ \A w \in Range(mem.log) : w \in was /\ (w.n <= com => w \in H)
      /\ \A w \in was : w \in H \/ w \in Range(mem.log)
    BY <1>1, <1>6, HeldIsPast
<1> HIDE DEF was
<1>9. \A i \in DOMAIN hist : hist[i] \notin was \ H <=> i <= com
    <2> TAKE i \in DOMAIN hist
    <2>1. hist[i].n = i /\ i \in Nat
        <3>1. hist[i].n = i
            BY <1>2 DEF HistInv
        <3>2. i \in Nat
            BY <1>3
        <3> QED
            BY <3>1, <3>2
    <2>2. CASE i <= com
        BY <1>8, <2>1, <2>2
    <2>3. CASE i > com
        <3>1. hist[i] \in was
            BY <1>2, <1>8, <2>3 DEF TailHome
        <3>2. hist[i] \notin Past(com)
            BY <1>3, <2>1, <2>3 DEF Past
        <3> QED
            BY <1>3, <1>8, <2>1, <2>3, <3>1, <3>2
    <2> QED
        BY <1>3, <2>1, <2>2, <2>3
<1>10. {i \in DOMAIN hist : hist[i] \notin was \ H} = 1..com
    BY <1>3, <1>9
<1>11. hist' \in Seq(Write) /\ Len(hist') = com /\ \A i \in 1..com : hist'[i] = hist[i]
    <2>1. PICK u : u = Subsequence(hist, 1..com)
        OBVIOUS
    <2>2. u \in Seq(Write) /\ Len(u) = com /\ \A i \in 1..com : u[i] = hist[i]
        BY <1>3, <2>1, SubsequencePrefix
    <2> QED
        BY <1>7, <1>10, <2>1, <2>2
<1>12. com' = com /\ DOMAIN hist' = 1..com
    BY <1>1, <1>11
<1>13. HistInv'
    BY <1>1, <1>2, <1>3, <1>11, <1>12 DEF HistInv
<1>14. SyncedInv' /\ PastInv'
    BY <1>1, <1>2, <1>4, <1>5, <1>12 DEF SyncedInv, PastInv
<1> QED
    BY <1>1, <1>13, <1>14 DEF HomeInv

LEMMA HomeRecoverRun ==
    ASSUME ShapeInv, HomeInv, RecoverRun PROVE HomeInv'
<1>1. /\ phase = "down"
      /\ UNCHANGED <<phase, hist, com, prom, mem, run, frozen, wal, walDur, covered>>
    BY DEF RecoverRun, tables, log
<1>2. PICK t \in tmps :
          /\ tmps' = tmps \ {t}
          /\ \/ UNCHANGED segs
             \/ segs' = segs \cup {RunPiece(LastRange, covered, t.id, t.recs)}
    BY DEF RecoverRun
<1>3. SyncedInv /\ HistInv /\ PastInv
    BY DEF HomeInv
<1>4. PICK p : p = RunPiece(LastRange, covered, t.id, t.recs)
    OBVIOUS
<1>5. p.c = Chains(t.recs)
    BY <1>4 DEF RunPiece
<1>6. PICK W : W = Past(com)
    OBVIOUS
<1>7. Chains(t.recs) \in [Key -> Seq(W)]
    <2>1. t.recs \in Seq(W)
        BY <1>3, <1>6 DEF PastInv
    <2> QED
        BY <2>1, ChainsOf
<1>8. \A s \in segs' : s.c \in [Key -> Seq(W)]
    BY <1>2, <1>3, <1>4, <1>5, <1>6, <1>7 DEF PastInv
<1>9. SyncedInv' /\ HistInv'
    BY <1>1, <1>2, <1>3 DEF SyncedInv, HistInv
<1>10. PastInv'
    BY <1>1, <1>2, <1>3, <1>6, <1>8 DEF PastInv
<1> QED
    BY <1>1, <1>9, <1>10 DEF HomeInv

LEMMA HomeOpened ==
    ASSUME ShapeInv, HomeInv, Opened PROVE HomeInv'
<1>1. /\ phase = "down" /\ phase' = "up" /\ mem' = [ord |-> FALSE, log |-> wal]
      /\ UNCHANGED <<hist, com, prom, run, frozen, wal, walDur, covered, segs, tmps>>
    BY DEF Opened, log, shape
<1>2. frozen = <<>> /\ wal \in Seq(Write) /\ hist \in Seq(Write)
    BY <1>1, Basics DEF ShapeInv, JobInv
<1>3. SyncedInv /\ HistInv /\ PastInv
    BY DEF HomeInv
<1>4. SyncedInv' /\ HistInv' /\ PastInv'
    BY <1>1, <1>3 DEF SyncedInv, HistInv, PastInv
<1>5. TailHome'
    <2>1. com = Len(hist) /\ \A i \in DOMAIN hist : ~(i > com)
        BY <1>1, <1>2, <1>3 DEF HistInv
    <2> QED
        BY <1>1, <2>1 DEF TailHome
<1>6. MemHome'
    <2>1. \A w \in Range(wal) : LoggedAfter(wal, 0, w)
        BY <1>2 DEF LoggedAfter, Range
    <2>2. After(frozen, covered, Len(frozen) + 1) = 0
        <3>1. Len(frozen) + 1 = 1
            BY <1>2
        <3> QED
            BY <3>1 DEF After
    <2>3. mem'.ord = FALSE /\ mem'.log = wal
        BY <1>1
    <2> QED
        BY <1>1, <2>1, <2>2, <2>3 DEF MemHome
<1>7. QueueHome'
    BY <1>1, <1>2 DEF QueueHome
<1> QED
    BY <1>4, <1>5, <1>6, <1>7 DEF HomeInv

LEMMA HomeKept ==
    ASSUME SyncEvery = 1, ShapeInv, NamesInv, HomeInv, ShapeInv', [Next]_vars PROVE HomeInv'
<1>1. CASE UNCHANGED vars
    <2>1. UNCHANGED <<phase, hist, com, prom, mem, run, frozen, wal, walDur, covered, tmps, segs>>
        BY <1>1 DEF vars, tables, log, shape
    <2>2. \A s \in segs' : s.c \in [Key -> Seq(Past(com))]
        BY <2>1 DEF HomeInv, PastInv
    <2> QED
        BY <2>1, <2>2, HomeSegs
<1>2. CASE Next
    BY <1>2, HomeWrites, HomeCommit, HomeSealRun, HomeSealTable, HomeLandSeal, HomeUnlink,
       HomePlan, HomeLandMerge, HomeStartTier, HomeLandTier, HomeCrash, HomeRecoverRun,
       HomeOpened DEF Next
<1> QED
    BY <1>1, <1>2

LEMMA HomeHolds == SyncEvery = 1 => (Spec => []HomeInv)
<1> SUFFICES ASSUME SyncEvery = 1 PROVE Spec => []HomeInv
    OBVIOUS
<1>1. ShapeInv /\ NamesInv /\ HomeInv /\ ShapeInv' /\ [Next]_vars => HomeInv'
    BY HomeKept
<1> QED
    BY <1>1, HomeInit, ShapeHolds, NamesHolds, PTL DEF Spec

\* What a crash leaves is the history's first writes, and every write a commit or a
\* sync promised durable is among them, for any number of keys, writes, tables,
\* merges and crashes, where every commit syncs (SyncPolicy::Always).  The writes of
\* the two ways into segments come back as one prefix: no log record retires, and no
\* run's file is unlinked, while it is the only home of a committed write.
THEOREM CrashKeepsPromises == SyncEvery = 1 => (Spec => []PrefixKept)
<1> SUFFICES ASSUME SyncEvery = 1 PROVE Spec => []PrefixKept
    OBVIOUS
<1>1. ShapeInv /\ HomeInv => PrefixKept
    <2> SUFFICES ASSUME ShapeInv, HomeInv PROVE PrefixKept
        OBVIOUS
    <2>1. prom \in Nat /\ com \in Nat /\ Len(hist) \in Nat /\ com <= Len(hist)
        BY DEF ShapeInv, WriterInv
    <2>2. prom <= com /\ \A i \in DOMAIN hist : hist[i].n = i
        BY DEF HomeInv, HistInv
    <2> QED
        BY <2>1, <2>2 DEF PrefixKept
<1> QED
    BY <1>1, ShapeHolds, HomeHolds, PTL
=============================================================================
