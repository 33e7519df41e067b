----------------------------- MODULE ScansProofs -----------------------------
(* A handle's bounds are of one commit, and its point reads of that commit,   *)
(* for any number of keys, handles, chunks and commits: the types, the table  *)
(* and the commits of Scans.                                                  *)
EXTENDS Scans, FiniteSetTheorems, SequenceTheorems, WellFoundedInduction, TLAPS

-----------------------------------------------------------------------------
(* The invariant's parts.                                                     *)

Words == {"log", "len", "wm"}
Vals == Seq(0..MaxChunk)
CommitSet == [log : 0..MaxChunk, len : 0..MaxChunk, wm : 0..Unbounded]
BoundSet == [log : 0..Unbounded, len : 0..Unbounded, wm : 0..SeeAll]
HistSet == [log : 0..MaxChunk, len : 0..MaxChunk, wm : 0..Unbounded, vals : [Keys -> Vals]]
StateSet == [forms : [Keys -> Published \cup {NoForm}], at : 0..Unbounded,
             complete : BOOLEAN, snap : NoSnap..MaxChunk]
UpSet == [fs : FormsStates, dirty : SUBSET Keys, complete : BOOLEAN,
          gone : BOOLEAN, posted : SUBSET CommitSet]
PassSet == [pc : {"idle", "look", "snap", "fill", "publish", "at"}, g : Nat,
            b : CommitSet, short : BOOLEAN]
HandleSet == [pc : {"out", "log", "len", "wm", "check", "look", "snap", "at",
                    "complete", "walk"},
              iso : Isolations \cup {"latest"}, n : Nat, b : BoundSet, g : Nat,
              canon : BOOLEAN, whole : BOOLEAN, out : Seq(Vals), fs : FormsStates]

\* The shape of every variable, and that what is pointed to is there.
TableType ==
    /\ slab \in Seq(Keys) /\ log \in Seq(1..MaxChunk)
    /\ chain \in [Keys -> Seq(Int)] /\ tail \in Nat
    /\ wr \in [pc : {"idle", "head", "index", "log", "len", "wm", "mark", "claim"}, id : Nat]
CommitType == mark \in Nat /\ marks \in [0..1 -> CommitSet] /\ hist \in Seq(HistSet)
BlockType ==
    /\ states \in Seq(StateSet) /\ up \in UpSet /\ pass \in PassSet
    /\ land \in Seq(Published \cup {NoForm})
HandleType == hd \in [Handles -> HandleSet]
TypeInv == TableType /\ CommitType /\ BlockType /\ HandleType
BlockPoint ==
    /\ Len(states) >= 1 /\ Len(states) <= MaxGen /\ Len(land) <= MaxKey
    /\ pass.g <= Len(states) /\ (pass.pc # "idle" => pass.g >= 1)
    /\ \A a, b \in up.posted : a = b
HandlePoint ==
    \A h \in Handles :
        /\ hd[h].g <= Len(states) /\ (hd[h].pc # "out" => hd[h].g >= 1)
        /\ hd[h].pc # "walk" => hd[h].out = <<>>

\* The write under way, and those the log has past n.
Under == wr.pc \in {"head", "index", "log"}
Writing(k) == Under /\ slab[wr.id] = k
Between(n, m, k) == \E i \in (n + 1)..m : slab[log[i]] = k

\* The table: an entry per key, whose chunks are below the tail and ascend; a
\* chunk of its own for every entry and every write.
TableInv ==
    /\ \A i, j \in DOMAIN slab : slab[i] = slab[j] => i = j
    /\ \A i \in DOMAIN log : log[i] <= Len(slab)
    /\ \A k \in Keys : \A i \in DOMAIN chain[k] :
          Offset(chain[k][i]) >= 1 /\ Offset(chain[k][i]) < tail
    /\ \A k \in Keys : \A i, j \in DOMAIN chain[k] :
          i < j => Offset(chain[k][i]) < Offset(chain[k][j])
    /\ \A k \in Keys : k \notin Range(slab) => chain[k] = <<>>
    /\ tail >= 1 /\ tail <= MaxChunk + 1 /\ (wr.pc = "head" => tail <= MaxChunk)
    /\ Len(slab) < tail /\ Len(log) < tail /\ (Under => Len(log) + 1 < tail)
    /\ Under => wr.id \in DOMAIN slab
    /\ ~Under => wr.id = 0
    /\ wr.pc \in {"head", "index"} => wr.id = Len(slab)

\* The log names the entries in the order they were made, and all but that of the
\* write under way.
EntryInv ==
    /\ \A j \in DOMAIN log : \A e \in 1..log[j] : \E l \in 1..j : log[l] = e
    /\ \A e \in DOMAIN slab :
          (\E l \in DOMAIN log : log[l] = e) \/ (Under /\ e = wr.id)

\* The commits: each is within the table and past the one before; its log has its
\* entries and no other.
HistInv ==
    /\ Len(hist) = mark + 1 /\ mark <= MaxCommit
    /\ hist[1].log = 0 /\ \A k \in Keys : hist[1].vals[k] = Base(k)
    /\ \A c \in DOMAIN hist :
          /\ hist[c].log <= Len(log) /\ hist[c].len <= Indexed /\ hist[c].wm <= tail
          /\ \A e \in 1..hist[c].len : \E l \in 1..hist[c].log : log[l] = e
          /\ \A l \in 1..hist[c].log : log[l] <= hist[c].len
    /\ \A c, d \in DOMAIN hist : c < d => hist[c].log < hist[d].log /\ hist[c].len <= hist[d].len

\* What they hold: the values of a commit are those below its watermark still, a
\* key without an entry has the partition's, and one not written since has what
\* it had.
ValuesInv ==
    \A c \in DOMAIN hist : \A k \in Keys :
        /\ hist[c].vals[k] = Values(k, hist[c].wm)
        /\ (\A e \in 1..hist[c].len : slab[e] # k) => hist[c].vals[k] = Base(k)
        /\ ~Between(hist[c].log, Len(log), k) /\ ~Writing(k) =>
              hist[c].vals[k] = Values(k, tail)
        /\ \A d \in DOMAIN hist : c <= d /\ ~Between(hist[c].log, hist[d].log, k) =>
              hist[c].vals[k] = hist[d].vals[k]

\* The mark that is named has the last commit's words; the other has those the
\* next one has stored so far, of a table at rest.
MarkInv ==
    /\ \A w \in Words : marks[Marked(mark)][w] = hist[mark + 1][w]
    /\ wr.pc \in {"len", "wm", "mark"} =>
          /\ marks[Marked(mark + 1)]["log"] = Len(log)
          /\ mark < MaxCommit /\ Len(log) > hist[mark + 1].log
    /\ wr.pc \in {"wm", "mark"} => marks[Marked(mark + 1)]["len"] = Len(slab)
    /\ wr.pc = "mark" => marks[Marked(mark + 1)]["wm"] = tail

\* The words a handle has loaded while the mark it read stands.
Loaded(pc) == CASE pc = "len" -> {"log"} [] pc = "wm" -> {"log", "len"}
                [] pc = "check" -> Words [] OTHER -> {}
LoadInv ==
    \A h \in Handles :
        /\ hd[h].n <= mark
        /\ hd[h].n = mark => \A w \in Loaded(hd[h].pc) : hd[h].b[w] = hist[mark + 1][w]
        /\ Bounded(h) => \A w \in Words : hd[h].b[w] = hist[hd[h].n + 1][w]

CommitInv ==
    /\ TypeInv /\ BlockPoint /\ HandlePoint
    /\ TableInv /\ EntryInv /\ HistInv /\ ValuesInv /\ MarkInv /\ LoadInv
-----------------------------------------------------------------------------
(* Least and greatest.                                                        *)

\* A set of naturals has a least one (PassPublish takes the least dirty block).
LEMMA LeastOf ==
    ASSUME NEW S \in SUBSET Nat, S # {}
    PROVE  \E x \in S : \A y \in S : x <= y
<1>1. \E x \in S : \A y \in S : ~(<<y, x>> \in OpToRel(<, Nat))
    BY NatLessThanWellFounded, WFMin, Zenon
<1>2. PICK x \in S : \A y \in S : ~(<<y, x>> \in OpToRel(<, Nat))
    BY <1>1, Zenon
<1>3. \A y \in S : x <= y
    <2> SUFFICES ASSUME NEW y \in S, ~(x <= y) PROVE FALSE
        OBVIOUS
    <2>1. y < x /\ <<y, x>> \in Nat \X Nat
        OBVIOUS
    <2>2. <<y, x>>[1] < <<y, x>>[2]
        BY <2>1
    <2> QED
        BY <2>1, <2>2, <1>2, Zenon DEF OpToRel
<1> QED
    BY <1>3

LEMMA MinIn ==
    ASSUME NEW S \in SUBSET Nat, S # {}
    PROVE  Min(S) \in S /\ \A y \in S : Min(S) <= y
BY LeastOf, Zenon DEF Min

\* And one that is bounded has a greatest (live_offs_into's newest tombstone).
LEMMA MaxIn ==
    ASSUME NEW N \in Nat, NEW S \in SUBSET (0..N), S # {}
    PROVE  Max(S) \in S /\ \A y \in S : y <= Max(S)
<1> DEFINE T == {N - y : y \in S}
<1>1. T \in SUBSET Nat /\ T # {}
    <2>1. \A y \in S : N - y \in Nat
        OBVIOUS
    <2> QED
        BY <2>1
<1>2. PICK x \in T : \A y \in T : x <= y
    BY <1>1, LeastOf
<1>3. PICK m \in S : x = N - m
    BY <1>2
<1>4. \A y \in S : m >= y
    <2> TAKE y \in S
    <2>1. N - m <= N - y
        BY <1>2, <1>3
    <2> QED
        BY <2>1
<1>5. \E z \in S : \A y \in S : z >= y
    BY <1>4
<1>6. Max(S) \in S /\ \A y \in S : Max(S) >= y
    BY <1>5, Zenon DEF Max
<1> QED
    BY <1>6

LEMMA MinTwo ==
    ASSUME NEW a \in Int, NEW b \in Int
    PROVE  Min({a, b}) = IF a <= b THEN a ELSE b
BY DEF Min

LEMMA MaxTwo ==
    ASSUME NEW a \in Int, NEW b \in Int
    PROVE  Max({a, b}) = IF a >= b THEN a ELSE b
BY DEF Max
-----------------------------------------------------------------------------
(* The values of a key, and what a later write does to them.                  *)

Seen(k, wm) == {i \in DOMAIN chain[k] : Offset(chain[k][i]) < wm}

LEMMA SeenIn ==
    ASSUME NEW k \in Keys, chain \in [Keys -> Seq(Int)], NEW wm \in Nat
    PROVE  /\ Seen(k, wm) \cup {0} \in SUBSET (0..Len(chain[k]))
           /\ Len(chain[k]) \in Nat
           /\ Max(Seen(k, wm) \cup {0}) \in 0..Len(chain[k])
<1>1. Len(chain[k]) \in Nat /\ DOMAIN chain[k] = 1..Len(chain[k])
    OBVIOUS
<1>2. Seen(k, wm) \cup {0} \in SUBSET (0..Len(chain[k]))
    BY <1>1 DEF Seen
<1>3. Max(Seen(k, wm) \cup {0}) \in Seen(k, wm) \cup {0}
    BY <1>1, <1>2, MaxIn
<1> QED
    BY <1>1, <1>2, <1>3

\* A chain that grew by chunks from the tail on.
Grown(k) ==
    /\ Len(chain[k]) <= Len(chain'[k])
    /\ \A i \in 1..Len(chain[k]) : chain'[k][i] = chain[k][i]
    /\ \A i \in (Len(chain[k]) + 1)..Len(chain'[k]) :
          Offset(chain'[k][i]) = tail + (i - Len(chain[k]) - 1)
    /\ tail + (Len(chain'[k]) - Len(chain[k])) <= tail'

\* What is below a watermark stays what it is.
LEMMA ValuesStand ==
    ASSUME NEW k \in Keys, NEW wm \in Nat, wm <= tail, tail \in Nat, Grown(k),
           chain \in [Keys -> Seq(Int)], (chain \in [Keys -> Seq(Int)])'
    PROVE  Values(k, wm)' = Values(k, wm)
<1> DEFINE c == chain[k]
           d == chain'[k]
           s == Seen(k, wm)
           m == Max(s \cup {0})
<1>1. c \in Seq(Int) /\ d \in Seq(Int) /\ Len(c) \in Nat /\ Len(d) \in Nat
      /\ DOMAIN c = 1..Len(c) /\ DOMAIN d = 1..Len(d) /\ Len(c) <= Len(d)
    BY DEF Grown
<1>2. \A i \in 1..Len(c) : d[i] = c[i]
    BY DEF Grown
<1>3. \A i \in (Len(c) + 1)..Len(d) : ~(Offset(d[i]) < wm)
    <2> TAKE i \in (Len(c) + 1)..Len(d)
    <2>1. i \in 1..Len(d)
        BY ONLY <1>1, i \in (Len(c) + 1)..Len(d)
    <2>2. d[i] \in Int
        BY <1>1, <2>1
    <2>3. Offset(d[i]) = tail + (i - Len(c) - 1)
        BY DEF Grown
    <2> HIDE DEF c, d
    <2> QED
        BY <2>1, <2>3, <1>1
<1>4. Seen(k, wm)' = s
    <2> HIDE DEF c, d
    <2>1. \A i : i \in DOMAIN d /\ Offset(d[i]) < wm <=> i \in DOMAIN c /\ Offset(c[i]) < wm
        <3> TAKE i
        <3>1. CASE i \in 1..Len(c)
            BY <3>1, <1>1, <1>2
        <3>2. CASE i \in 1..Len(d) /\ i \notin 1..Len(c)
            <4>1. i \in (Len(c) + 1)..Len(d)
                BY ONLY <3>2, <1>1
            <4> QED
                BY <3>2, <4>1, <1>1, <1>3
        <3>3. CASE i \notin 1..Len(d)
            BY <3>3, <1>1
        <3> QED
            BY <3>1, <3>2, <3>3
    <2> QED
        BY <2>1 DEF Seen, c, d
<1>5. m \in 0..Len(c) /\ s \subseteq 1..Len(c)
    BY SeenIn, <1>1 DEF Seen
<1>6. \A a \in Nat \ {0} : SubSeq(d, a, m) = SubSeq(c, a, m)
    <2> HIDE DEF c, d, m
    <2> TAKE a \in Nat \ {0}
    <2>1. \A i \in a..m : i \in 1..Len(c) /\ i \in 1..Len(d)
        BY <1>1, <1>5
    <2>2. \A i \in a..m : c[i] \in Int /\ d[i] \in Int /\ d[i] = c[i]
        BY <2>1, <1>1, <1>2
    <2>3. m \in Int /\ a \in Int
        BY <1>1, <1>5
    <2>4. /\ SubSeq(c, a, m) \in Seq(Int)
          /\ Len(SubSeq(c, a, m)) = IF a <= m THEN m - a + 1 ELSE 0
          /\ \A i \in 1..(m - a + 1) : SubSeq(c, a, m)[i] = c[a + i - 1]
        BY <2>2, <2>3, SubSeqProperties
    <2>5. /\ SubSeq(d, a, m) \in Seq(Int)
          /\ Len(SubSeq(d, a, m)) = IF a <= m THEN m - a + 1 ELSE 0
          /\ \A i \in 1..(m - a + 1) : SubSeq(d, a, m)[i] = d[a + i - 1]
        BY <2>2, <2>3, SubSeqProperties
    <2>6. \A i \in 1..Len(SubSeq(d, a, m)) : i \in 1..(m - a + 1) /\ (a + i - 1) \in a..m
        BY <2>3, <2>5
    <2>7. \A i \in 1..Len(SubSeq(d, a, m)) : SubSeq(d, a, m)[i] = SubSeq(c, a, m)[i]
        BY <2>2, <2>4, <2>5, <2>6
    <2> QED
        BY <2>4, <2>5, <2>7, SeqEqual
<1>7. {i \in s : d[i] < 0} = {i \in s : c[i] < 0}
    BY <1>2, <1>5
<1>8. {i \in s : c[i] < 0} # {} => Max({i \in s : c[i] < 0}) \in Nat
    <2> SUFFICES ASSUME {i \in s : c[i] < 0} # {} PROVE Max({i \in s : c[i] < 0}) \in Nat
        OBVIOUS
    <2> DEFINE u == {i \in s : c[i] < 0}
    <2>1. u \in SUBSET (0..Len(c)) /\ u # {}
        BY <1>5, <1>1
    <2> HIDE DEF u
    <2>2. Max(u) \in u
        BY <2>1, <1>1, MaxIn
    <2>3. Max(u) \in 0..Len(c)
        BY <2>1, <2>2, Zenon
    <2>4. Max(u) \in Nat
        BY ONLY <2>3, <1>1
    <2> QED
        BY <2>4 DEF u
<1> DEFINE t == {i \in s : c[i] < 0}
<1>9. Values(k, wm) = IF t = {} THEN Base(k) \o SubSeq(c, 1, m) ELSE SubSeq(c, Max(t) + 1, m)
    BY DEF Values, Live, Seen
<1>10. Values(k, wm)' = IF {i \in Seen(k, wm)' : d[i] < 0} = {} THEN Base(k) \o SubSeq(d, 1, Max(Seen(k, wm)' \cup {0}))
                        ELSE SubSeq(d, Max({i \in Seen(k, wm)' : d[i] < 0}) + 1, Max(Seen(k, wm)' \cup {0}))
    BY DEF Values, Live, Seen, Base
<1>11. Values(k, wm)' = IF t = {} THEN Base(k) \o SubSeq(d, 1, m) ELSE SubSeq(d, Max(t) + 1, m)
    BY <1>10, <1>4, <1>7
<1> QED
    <2> HIDE DEF c, d, s, m, t
    <2>1. CASE t = {}
        <3>1. 1 \in Nat \ {0}
            OBVIOUS
        <3>2. SubSeq(d, 1, m) = SubSeq(c, 1, m)
            BY <3>1, <1>6, Zenon
        <3> QED
            BY <2>1, <3>2, <1>9, <1>11
    <2>2. CASE t # {}
        <3>1. Max(t) + 1 \in Nat \ {0}
            BY <2>2, <1>8 DEF t
        <3> QED
            BY <2>2, <3>1, <1>6, <1>9, <1>11
    <2> QED
        BY <2>1, <2>2

LEMMA ValuesSame ==
    ASSUME NEW k \in Keys, NEW wm, chain'[k] = chain[k]
    PROVE  Values(k, wm)' = Values(k, wm)
BY DEF Values, Live, Base

\* A key without a chunk below the watermark has the partition's values.
LEMMA ValuesNone ==
    ASSUME NEW k \in Keys, NEW wm, chain[k] = <<>>
    PROVE  Values(k, wm) = Base(k)
<1>1. Seen(k, wm) = {}
    BY DEF Seen
<1>2. Max(Seen(k, wm) \cup {0}) = 0
    BY <1>1, MaxTwo
<1>3. Values(k, wm) = Base(k) \o SubSeq(<<>>, 1, 0)
    BY <1>1, <1>2 DEF Values, Live, Seen
<1> QED
    BY <1>3, ScansAssumption DEF Base

\* From the tail on a watermark hides nothing.
LEMMA ValuesAll ==
    ASSUME TableType, TableInv, NEW k \in Keys, NEW wm \in Nat, wm >= tail
    PROVE  Values(k, wm) = Values(k, tail)
<1>1. \A i \in DOMAIN chain[k] : Offset(chain[k][i]) < wm /\ Offset(chain[k][i]) < tail
    <2> TAKE i \in DOMAIN chain[k]
    <2>1. chain[k][i] \in Int
        BY DEF TableType
    <2>2. Offset(chain[k][i]) \in Int /\ tail \in Nat
        BY <2>1 DEF Offset, TableType
    <2> QED
        BY <2>2 DEF TableInv
<1> QED
    BY <1>1 DEF Values

\* The values are positions of the arena.
LEMMA ValuesType ==
    ASSUME TableType, TableInv, NEW k \in Keys, NEW wm \in Nat
    PROVE  Values(k, wm) \in Vals
<1> DEFINE c == chain[k]
           s == Seen(k, wm)
           m == Max(s \cup {0})
           t == {i \in s : c[i] < 0}
<1>1. c \in Seq(Int) /\ Len(c) \in Nat /\ DOMAIN c = 1..Len(c)
    BY DEF TableType
<1>2. m \in 0..Len(c) /\ s \subseteq 1..Len(c) /\ m \in s \cup {0}
    <2>1. chain \in [Keys -> Seq(Int)]
        BY DEF TableType
    <2>2. s \cup {0} \in SUBSET (0..Len(c)) /\ m \in 0..Len(c)
        BY <2>1, SeenIn
    <2> QED
        BY <2>2, <1>1, MaxIn DEF Seen
<1>3. \A i \in 1..m : i \in s
    <2> TAKE i \in 1..m
    <2>1. m \in s /\ i \in DOMAIN c /\ m \in DOMAIN c
        BY <1>1, <1>2
    <2>2. Offset(c[m]) < wm
        BY <2>1 DEF Seen
    <2>3. i = m \/ Offset(c[i]) < Offset(c[m])
        <3>1. i = m \/ i < m
            BY <1>2
        <3> QED
            BY <3>1, <2>1 DEF TableInv
    <2>4. Offset(c[i]) \in Int /\ Offset(c[m]) \in Int
        BY <2>1, <1>1 DEF Offset
    <2> QED
        BY <2>1, <2>2, <2>3, <2>4 DEF Seen
<1>4. \A i \in 1..m : c[i] \in Int /\ c[i] <= MaxChunk /\ (i \notin t => c[i] \in 0..MaxChunk)
    <2> TAKE i \in 1..m
    <2>1. i \in s /\ i \in DOMAIN c /\ c[i] \in Int
        <3>1. i \in s /\ i \in 1..Len(c)
            BY <1>2, <1>3
        <3> HIDE DEF c
        <3> QED
            BY <3>1, <1>1, ElementOfSeq
    <2>2. Offset(c[i]) < tail /\ tail <= MaxChunk + 1 /\ tail \in Nat
        BY <2>1 DEF TableInv, TableType
    <2>3. c[i] <= MaxChunk
        BY <2>1, <2>2, ScansAssumption DEF Offset
    <2> QED
        BY <2>1, <2>3, ScansAssumption
<1>5. Values(k, wm) = IF t = {} THEN Base(k) \o SubSeq(c, 1, m) ELSE SubSeq(c, Max(t) + 1, m)
    BY DEF Values, Live, Seen
<1>6. ASSUME NEW a \in Nat, a >= 1, \A i \in t : i < a
      PROVE  SubSeq(c, a, m) \in Vals
    <2> HIDE DEF c, m, t
    <2>1. \A i \in a..m : i \in 1..m /\ i \notin t
        <3> TAKE i \in a..m
        <3>1. i \in 1..m /\ ~(i < a)
            BY <1>2, <1>1, <1>6
        <3> QED
            BY <3>1, <1>6
    <2>2. \A i \in a..m : c[i] \in 0..MaxChunk
        BY <2>1, <1>4
    <2>3. m \in Int /\ a \in Int
        BY <1>1, <1>2, <1>6
    <2> QED
        BY <2>2, <2>3, SubSeqProperties DEF Vals
<1>7. CASE t = {}
    <2>1. SubSeq(c, 1, m) \in Vals
        BY <1>6, <1>7
    <2>2. Base(k) \in Vals
        <3>1. 0 \in 0..MaxChunk
            BY ScansAssumption
        <3>2. <<>> \in Vals /\ <<0>> \in Vals
            BY <3>1, EmptySeq DEF Vals
        <3> QED
            BY <3>2 DEF Base
    <2>3. Base(k) \o SubSeq(c, 1, m) \in Vals
        BY <2>1, <2>2, ConcatProperties DEF Vals
    <2> QED
        BY <1>5, <1>7, <2>3
<1>8. CASE t # {}
    <2>1. t \in SUBSET (0..Len(c)) /\ t \subseteq 1..Len(c)
        BY <1>2, <1>1
    <2>2. Max(t) \in t /\ \A y \in t : y <= Max(t)
        BY <2>1, <1>8, <1>1, MaxIn
    <2>3. Max(t) + 1 \in Nat /\ Max(t) + 1 >= 1 /\ \A i \in t : i < Max(t) + 1
        <3>1. Max(t) \in 1..Len(c)
            BY <2>1, <2>2
        <3> HIDE DEF c, t
        <3> QED
            BY <2>1, <2>2, <1>1, <3>1
    <2>4. SubSeq(c, Max(t) + 1, m) \in Vals
        BY <2>3, <1>6
    <2> QED
        BY <1>5, <1>8, <2>4
<1> QED
    BY <1>7, <1>8
-----------------------------------------------------------------------------
(* What the operators on blocks return.                                       *)

LEMMA Numbers ==
    /\ MaxKey \in Nat /\ MaxChunk \in Nat /\ MaxCommit \in Nat /\ MaxGen \in Nat
    /\ MaxGen >= 1 /\ Unbounded \in Nat /\ SeeAll \in Nat /\ Unbounded = MaxChunk + 1
    /\ SeeAll = MaxChunk + 2 /\ NoSnap = -1
BY ScansAssumption DEF Unbounded, SeeAll, NoSnap

LEMMA Lengths ==
    ASSUME TableType, TableInv
    PROVE  /\ Len(log) \in 0..MaxChunk /\ Len(slab) \in 0..MaxChunk
           /\ DOMAIN log = 1..Len(log) /\ DOMAIN slab = 1..Len(slab)
           /\ tail \in 1..Unbounded
<1>1. Len(log) \in Nat /\ Len(slab) \in Nat /\ tail \in Nat
    BY DEF TableType
<1>2. Len(log) < tail /\ Len(slab) < tail /\ tail <= MaxChunk + 1 /\ tail >= 1
    BY Zenon DEF TableInv
<1>3. Len(log) \in 0..MaxChunk /\ Len(slab) \in 0..MaxChunk /\ tail \in 1..Unbounded
    BY ONLY <1>1, <1>2, Numbers
<1> QED
    BY <1>3 DEF TableType

\* A bound is cut to what is there.
LEMMA Ends ==
    ASSUME TableType, TableInv, NEW b \in BoundSet
    PROVE  /\ LogEnd(b) \in 0..Len(log) /\ MemLen(b) \in 0..Len(slab)
           /\ LogEnd(b) = IF b.log <= Len(log) THEN b.log ELSE Len(log)
           /\ MemLen(b) = IF b.len <= Len(slab) THEN b.len ELSE Len(slab)
<1>1. b.log \in Nat /\ b.len \in Nat
    BY Numbers DEF BoundSet
<1>2. Len(log) \in Nat /\ Len(slab) \in Nat
    BY DEF TableType
<1>3. LogEnd(b) = IF Len(log) <= b.log THEN Len(log) ELSE b.log
    BY <1>1, <1>2, MinTwo DEF LogEnd
<1>4. MemLen(b) = IF Len(slab) <= b.len THEN Len(slab) ELSE b.len
    BY <1>1, <1>2, MinTwo DEF MemLen
<1> QED
    BY ONLY <1>1, <1>2, <1>3, <1>4

LEMMA CommitIsBound ==
    CommitSet \subseteq BoundSet
<1>1. 0..MaxChunk \subseteq 0..Unbounded /\ 0..Unbounded \subseteq 0..SeeAll
    BY Numbers
<1> QED
    BY <1>1 DEF CommitSet, BoundSet

LEMMA FormType ==
    ASSUME TableType, TableInv, NEW k \in Keys, NEW n \in 0..MaxChunk, NEW wm \in Nat
    PROVE  /\ [ver |-> n, vals |-> Values(k, wm)] \in Forms
           /\ [ver |-> n, vals |-> Base(k)] \in Forms
<1>1. Values(k, wm) \in Vals
    BY ValuesType
<1>2. Base(k) \in Vals
    <2>1. 0 \in 0..MaxChunk
        BY Numbers
    <2>2. <<>> \in Vals /\ <<0>> \in Vals
        BY <2>1, EmptySeq DEF Vals
    <2> QED
        BY <2>2 DEF Base
<1> QED
    BY <1>1, <1>2 DEF Forms, Vals

LEMMA SettledType ==
    ASSUME TableType, TableInv, NEW fs \in FormsStates, NEW n \in 0..MaxChunk,
           n <= Len(log) \/ n <= fs.seen, NEW wm \in Nat
    PROVE  Settled(fs, n, wm) \in FormsStates
<1>1. CASE n <= fs.seen
    BY <1>1 DEF Settled
<1>2. CASE ~(n <= fs.seen)
    <2> DEFINE added == IF fs.snap = NoSnap THEN {} ELSE fs.added \cup Created(fs, n)
               own == [k \in Keys |-> IF k \in ReadOf(fs, n) /\ fs.own[k] # NoForm
                          THEN [ver |-> n, vals |-> Values(k, wm)] ELSE fs.own[k]]
    <2>1. fs.seen \in Nat /\ fs.added \subseteq 1..MaxChunk /\ fs.own \in [Keys -> Forms \cup {NoForm}]
        BY Numbers DEF FormsStates
    <2>2. Created(fs, n) \subseteq 1..MaxChunk
        <3> SUFFICES ASSUME NEW j \in (fs.seen + 1)..n PROVE log[j] \in 1..MaxChunk
            BY DEF Created
        <3>1. j \in 1..Len(log)
            BY <2>1, <1>2, Lengths
        <3> QED
            BY <3>1, log \in Seq(1..MaxChunk), ElementOfSeq, Zenon DEF TableType
    <2>3. added \in SUBSET (1..MaxChunk)
        BY <2>1, <2>2
    <2>4. own \in [Keys -> Forms \cup {NoForm}]
        BY <2>1, FormType
    <2>5. Settled(fs, n, wm) = [fs EXCEPT !.seen = n, !.added = added, !.own = own]
        BY <1>2, Zenon DEF Settled
    <2> HIDE DEF added, own
    <2> QED
        BY <2>3, <2>4, <2>5 DEF FormsStates
<1> QED
    BY <1>1, <1>2

LEMMA RefreshedType ==
    ASSUME NEW fs \in FormsStates, NEW p, NEW len \in 0..MaxChunk
    PROVE  Refreshed(fs, p, len) \in FormsStates
<1>1. len \in NoSnap..MaxChunk
    BY Numbers
<1> QED
    BY <1>1 DEF FormsStates, Refreshed, Taken

LEMMA OfferedType ==
    ASSUME NEW fs, NEW p \in NoSnap..MaxChunk, NEW len \in 0..MaxChunk
    PROVE  Offered(fs, p, len) \in NoSnap..MaxChunk
<1>1. p \in Int /\ len \in Int
    BY Numbers
<1>2. Max({p, len}) = IF p >= len THEN p ELSE len
    BY <1>1, MaxTwo
<1>3. Max({p, len}) \in NoSnap..MaxChunk
    BY <1>2, Numbers
<1> QED
    BY <1>3 DEF Offered

LEMMA BuiltType ==
    ASSUME TableType, TableInv, NEW fs \in FormsStates, NEW k \in Keys, NEW wm \in Nat
    PROVE  Built(fs, k, wm) \in Forms
<1>1. fs.seen \in 0..MaxChunk
    BY DEF FormsStates
<1> QED
    BY <1>1, FormType DEF Built

\* The forms a state has with some of them marked, and the blocks of the writer
\* rebased and filed.
LEMMA MarkType ==
    Mark \in Published
<1>1. 0 \in 0..MaxChunk /\ -1 \in -1..MaxChunk
    BY Numbers
<1> QED
    BY <1>1, EmptySeq DEF Mark, Published

LEMMA MarksType ==
    ASSUME NEW st \in StateSet, NEW ks
    PROVE  Marks(st, ks) \in StateSet
<1> DEFINE forms == [k \in Keys |-> IF k \in ks THEN Mark ELSE st.forms[k]]
<1>1. st.forms \in [Keys -> Published \cup {NoForm}]
    BY DEF StateSet
<1>2. forms \in [Keys -> Published \cup {NoForm}]
    BY <1>1, MarkType
<1>3. Marks(st, ks) = [st EXCEPT !.forms = forms]
    BY DEF Marks
<1> HIDE DEF forms
<1> QED
    BY <1>2, <1>3 DEF StateSet

LEMMA FreshType ==
    ASSUME NEW g \in 0..MaxGen
    PROVE  Fresh(g) \in FormsStates
<1>1. 0 \in 0..MaxChunk /\ NoSnap \in NoSnap..MaxChunk
    BY Numbers
<1> QED
    BY <1>1 DEF Fresh, FormsStates

LEMMA WithoutIs ==
    ASSUME NEW fs \in FormsStates, NEW ks
    PROVE  /\ Without(fs, ks) \in FormsStates
           /\ Without(fs, ks).gen = fs.gen /\ Without(fs, ks).seen = fs.seen
           /\ Without(fs, ks).snap = fs.snap /\ Without(fs, ks).added = fs.added
           /\ \A k \in Keys : Without(fs, ks).own[k] = IF k \in ks THEN NoForm ELSE fs.own[k]
<1> DEFINE own == [k \in Keys |-> IF k \in ks THEN NoForm ELSE fs.own[k]]
<1>1. own \in [Keys -> Forms \cup {NoForm}]
    BY DEF FormsStates
<1>2. Without(fs, ks) = [fs EXCEPT !.own = own]
    BY DEF Without
<1>3. \A k \in Keys : own[k] = IF k \in ks THEN NoForm ELSE fs.own[k]
    OBVIOUS
<1> HIDE DEF own
<1> QED
    BY <1>1, <1>2, <1>3 DEF FormsStates

\* The blocks rebased, field by field.
Unlike(u, g) == {k \in Keys : u.fs.own[k] # NoForm /\ Differs(Stands(g, k), u.fs.own[k])}
LEMMA RebasedIs ==
    ASSUME NEW u \in UpSet, NEW g \in 1..MaxGen, NEW lost, lost # {} => u.fs.gen # g
    PROVE  /\ Rebased(u, g, lost) \in UpSet
           /\ Rebased(u, g, lost).fs.seen = u.fs.seen
           /\ \A k \in Keys : Rebased(u, g, lost).fs.own[k] =
                                IF k \in lost THEN NoForm ELSE u.fs.own[k]
           /\ Rebased(u, g, lost).fs.snap = u.fs.snap
           /\ Rebased(u, g, lost).fs.added = u.fs.added
           /\ Rebased(u, g, lost).fs.gen = g
           /\ Rebased(u, g, lost).complete = (u.complete /\ lost = {})
           /\ Rebased(u, g, lost).posted = u.posted /\ Rebased(u, g, lost).gone = u.gone
           /\ u.fs.gen # g => Rebased(u, g, lost).dirty = (u.dirty \cup Unlike(u, g)) \ lost
           /\ u.fs.gen = g => Rebased(u, g, lost) = u
<1>1. u.fs \in FormsStates /\ u.dirty \in SUBSET Keys /\ u.complete \in BOOLEAN
    BY DEF UpSet
<1>2. CASE u.fs.gen = g
    BY <1>1, <1>2 DEF Rebased
<1>3. CASE u.fs.gen # g
    <2> DEFINE w == Without(u.fs, lost)
               f == [w EXCEPT !.gen = g]
               d == (u.dirty \cup Unlike(u, g)) \ lost
               c == u.complete /\ lost = {}
    <2>1. w \in FormsStates /\ g \in 0..MaxGen
        BY <1>1, WithoutIs, Numbers
    <2>2. f \in FormsStates /\ f.gen = g /\ f.seen = w.seen /\ f.snap = w.snap /\ f.added = w.added /\ f.own = w.own
        BY <2>1 DEF FormsStates
    <2>3. d \in SUBSET Keys
        BY <1>1 DEF Unlike
    <2>4. c \in BOOLEAN
        BY Zenon
    <2>5. Rebased(u, g, lost) = [u EXCEPT !.fs = f, !.dirty = d, !.complete = c]
        BY <1>3, Zenon DEF Rebased, Unlike
    <2>6. /\ w.seen = u.fs.seen /\ w.snap = u.fs.snap /\ w.added = u.fs.added
          /\ \A k \in Keys : w.own[k] = IF k \in lost THEN NoForm ELSE u.fs.own[k]
        BY <1>1, WithoutIs
    <2> HIDE DEF w, f, d, c
    <2>7. /\ Rebased(u, g, lost) \in UpSet /\ Rebased(u, g, lost).fs = f /\ Rebased(u, g, lost).dirty = d
          /\ Rebased(u, g, lost).complete = c /\ Rebased(u, g, lost).posted = u.posted
          /\ Rebased(u, g, lost).gone = u.gone
        BY <2>2, <2>3, <2>4, <2>5 DEF UpSet
    <2> QED
        BY <1>3, <2>2, <2>6, <2>7 DEF d, c
<1> QED
    BY <1>2, <1>3

LEMMA LossesAre ==
    ASSUME NEW u, NEW g, NEW lost \in Losses(u, g)
    PROVE  /\ lost # {} => u.fs.gen # g
           /\ \A k \in lost : k \in Keys /\ u.fs.own[k] # NoForm
BY DEF Losses

\* Filed, field by field.
Kept(u, drop) == [u.fs EXCEPT !.own = [k \in Keys |-> IF k \in drop THEN NoForm ELSE u.fs.own[k]]]
Formed(u, drop) == {k \in Keys : Kept(u, drop).own[k] # NoForm}
Dirtied(u, drop, n) == u.dirty \cup (ReadOf(u.fs, n) \cap Formed(u, drop))
Whole(u, drop, n) == u.complete /\ ReadOf(u.fs, n) \subseteq Formed(u, drop)
LEMMA FiledIs ==
    ASSUME NEW u \in UpSet, NEW n, NEW wm, NEW drop
    PROVE  /\ Kept(u, drop) \in FormsStates
           /\ ReadOf(Kept(u, drop), n) = ReadOf(u.fs, n) /\ Kept(u, drop).seen = u.fs.seen
           /\ Filed(u, n, wm, drop) =
                 [u EXCEPT !.fs = Settled(Kept(u, drop), n, wm),
                           !.dirty = Dirtied(u, drop, n),
                           !.complete = Whole(u, drop, n)]
<1>1. u.fs \in FormsStates
    BY DEF UpSet
<1>2. Kept(u, drop) \in FormsStates
    <2> DEFINE own == [k \in Keys |-> IF k \in drop THEN NoForm ELSE u.fs.own[k]]
    <2>1. own \in [Keys -> Forms \cup {NoForm}]
        BY <1>1 DEF FormsStates
    <2> HIDE DEF own
    <2>2. [u.fs EXCEPT !.own = own] \in FormsStates
        BY <1>1, <2>1 DEF FormsStates
    <2> QED
        BY <2>2 DEF own, Kept
<1>3. ReadOf(Kept(u, drop), n) = ReadOf(u.fs, n) /\ Kept(u, drop).seen = u.fs.seen
    BY <1>1 DEF ReadOf, Kept, FormsStates
<1> DEFINE v == [u EXCEPT !.fs = Without(u.fs, drop)]
<1>4. v = [u EXCEPT !.fs = Kept(u, drop)]
    BY DEF Kept, Without
<1>5. v.fs = Kept(u, drop) /\ v.dirty = u.dirty /\ v.complete = u.complete
    BY <1>4 DEF UpSet
<1>6. Filed(u, n, wm, drop) =
         [v EXCEPT !.fs = Settled(v.fs, n, wm),
                   !.dirty = v.dirty \cup (ReadOf(v.fs, n) \cap {k \in Keys : v.fs.own[k] # NoForm}),
                   !.complete = v.complete /\ ReadOf(v.fs, n) \subseteq {k \in Keys : v.fs.own[k] # NoForm}]
    BY DEF Filed
<1> HIDE DEF v
<1>7. \A x, y, z : [v EXCEPT !.fs = x, !.dirty = y, !.complete = z] = [u EXCEPT !.fs = x, !.dirty = y, !.complete = z]
    BY <1>4 DEF UpSet
<1>8. Filed(u, n, wm, drop) =
         [v EXCEPT !.fs = Settled(Kept(u, drop), n, wm),
                   !.dirty = Dirtied(u, drop, n),
                   !.complete = Whole(u, drop, n)]
    BY <1>3, <1>5, <1>6 DEF Formed, Dirtied, Whole
<1>9. Filed(u, n, wm, drop) =
         [u EXCEPT !.fs = Settled(Kept(u, drop), n, wm),
                   !.dirty = Dirtied(u, drop, n),
                   !.complete = Whole(u, drop, n)]
    BY <1>7, <1>8, Zenon
<1> QED
    BY <1>2, <1>3, <1>9

LEMMA FiledType ==
    ASSUME TableType, TableInv, NEW u \in UpSet, NEW n \in 0..MaxChunk,
           n <= Len(log) \/ n <= u.fs.seen, NEW wm \in Nat, NEW drop
    PROVE  /\ Filed(u, n, wm, drop) \in UpSet /\ Filed(u, n, wm, drop).posted = u.posted
           /\ Filed(u, n, wm, drop).fs = Settled(Kept(u, drop), n, wm)
           /\ Filed(u, n, wm, drop).dirty = Dirtied(u, drop, n)
           /\ Filed(u, n, wm, drop).complete = Whole(u, drop, n)
           /\ Filed(u, n, wm, drop).gone = u.gone
<1> DEFINE f == Settled(Kept(u, drop), n, wm)
<1>1. Filed(u, n, wm, drop) = [u EXCEPT !.fs = f, !.dirty = Dirtied(u, drop, n), !.complete = Whole(u, drop, n)]
    BY FiledIs
<1>2. f \in FormsStates
    BY FiledIs, SettledType
<1>3. Dirtied(u, drop, n) \in SUBSET Keys
    BY DEF UpSet, Formed, Dirtied
<1>4. Whole(u, drop, n) \in BOOLEAN
    BY Zenon DEF Whole
<1> DEFINE d == Dirtied(u, drop, n)
           z == Whole(u, drop, n)
           r == Filed(u, n, wm, drop)
<1>5. r = [u EXCEPT !.fs = f, !.dirty = d, !.complete = z] /\ f \in FormsStates /\ d \in SUBSET Keys /\ z \in BOOLEAN
    BY <1>1, <1>2, <1>3, <1>4, Zenon
<1> HIDE DEF f, d, z, r
<1>6. r \in UpSet /\ r.posted = u.posted /\ r.fs = f /\ r.dirty = d /\ r.complete = z /\ r.gone = u.gone
    BY <1>5 DEF UpSet
<1> QED
    BY <1>6, Zenon DEF f, d, z, r
-----------------------------------------------------------------------------
(* The writer's steps on the table.                                           *)

LEMMA ChunksAre ==
    ASSUME TableType, NEW w \in Kinds
    PROVE  /\ Chunks(w) \in Seq(Int) /\ Len(Chunks(w)) \in {1, 2}
           /\ \A i \in 1..Len(Chunks(w)) : Offset(Chunks(w)[i]) = tail + (i - 1) \/ tail = 0
           /\ Len(Chunks(w)) = IF w = "put" THEN 2 ELSE 1
<1>1. w \in {"append", "put", "delete"} /\ tail \in Nat
    BY ScansAssumption DEF TableType
<1>2. CASE w = "append"
    BY <1>1, <1>2 DEF Chunks, Offset
<1>3. CASE w = "delete"
    BY <1>1, <1>3 DEF Chunks, Offset
<1>4. CASE w = "put"
    <2>1. Chunks(w) = <<-tail, tail + 1>>
        BY <1>4 DEF Chunks
    <2>2. -tail \in Int /\ tail + 1 \in Int
        BY <1>1
    <2>3. Chunks(w) \in Seq(Int) /\ Len(Chunks(w)) = 2 /\ Chunks(w)[1] = -tail /\ Chunks(w)[2] = tail + 1
        BY <2>1, <2>2
    <2>4. \A i \in 1..2 : i = 1 \/ i = 2
        OBVIOUS
    <2> QED
        BY <1>1, <1>4, <2>3, <2>4 DEF Offset
<1> QED
    BY <1>1, <1>2, <1>3, <1>4

\* A key whose chain is left alone.
LEMMA GrownSame ==
    ASSUME TableType, NEW k \in Keys, chain'[k] = chain[k], tail' \in Nat, tail <= tail'
    PROVE  Grown(k)
<1>1. Len(chain[k]) \in Nat /\ tail \in Nat /\ Len(chain'[k]) = Len(chain[k])
    BY DEF TableType
<1>2. (Len(chain[k]) + 1)..Len(chain'[k]) = {}
    BY <1>1
<1>3. Len(chain[k]) <= Len(chain'[k]) /\ tail + (Len(chain'[k]) - Len(chain[k])) <= tail'
    BY ONLY <1>1, tail' \in Nat, tail <= tail'
<1> QED
    BY <1>2, <1>3 DEF Grown

\* The writer's stores grow the chain of the key it writes and no other.
Grows ==
    /\ chain' \in [Keys -> Seq(Int)] /\ tail' \in Nat /\ tail <= tail'
    /\ \A k \in Keys : Grown(k)
LEMMA LinkGrows ==
    ASSUME TableType, TableInv, NEW q \in Keys, NEW w \in Kinds, Link(q, w)
    PROVE  Grows /\ \A k \in Keys : k # q => chain'[k] = chain[k]
<1> DEFINE d == Chunks(w)
<1>1. chain[q] \in Seq(Int) /\ d \in Seq(Int) /\ Len(d) \in {1, 2} /\ Len(chain[q]) \in Nat
      /\ tail \in Nat /\ tail >= 1
    BY ChunksAre DEF TableType, TableInv
<1>2. \A i \in 1..Len(d) : Offset(d[i]) = tail + (i - 1)
    BY <1>1, ChunksAre
<1>3. chain' = [chain EXCEPT ![q] = chain[q] \o d] /\ tail' = tail + Len(d)
    BY DEF Link
<1> HIDE DEF d
<1>4. chain[q] \o d \in Seq(Int) /\ Len(chain[q] \o d) = Len(chain[q]) + Len(d)
      /\ \A i \in 1..(Len(chain[q]) + Len(d)) :
            (chain[q] \o d)[i] = IF i <= Len(chain[q]) THEN chain[q][i] ELSE d[i - Len(chain[q])]
    BY <1>1, ConcatProperties
<1>5. chain' \in [Keys -> Seq(Int)] /\ chain'[q] = chain[q] \o d
    BY <1>3, <1>4 DEF TableType
<1>6. tail' \in Nat /\ tail <= tail'
    BY <1>1, <1>3
<1>7. \A k \in Keys : k # q => chain'[k] = chain[k]
    BY <1>3 DEF TableType
<1>8. Grown(q)
    <2>1. \A i \in 1..Len(chain[q]) : chain'[q][i] = chain[q][i]
        <3> TAKE i \in 1..Len(chain[q])
        <3>1. i \in 1..(Len(chain[q]) + Len(d)) /\ i <= Len(chain[q])
            BY <1>1
        <3> QED
            BY <3>1, <1>4, <1>5
    <2>2. \A i \in (Len(chain[q]) + 1)..Len(chain'[q]) : Offset(chain'[q][i]) = tail + (i - Len(chain[q]) - 1)
        <3> TAKE i \in (Len(chain[q]) + 1)..Len(chain'[q])
        <3>1. /\ i \in 1..(Len(chain[q]) + Len(d)) /\ ~(i <= Len(chain[q])) /\ i - Len(chain[q]) \in 1..Len(d)
            BY <1>1, <1>4, <1>5
        <3>2. chain'[q][i] = d[i - Len(chain[q])]
            BY <3>1, <1>4, <1>5
        <3> QED
            BY <3>1, <3>2, <1>2, <1>1
    <2>3. Len(chain'[q]) = Len(chain[q]) + Len(d)
        BY <1>4, <1>5
    <2>4. Len(chain[q]) <= Len(chain'[q]) /\ tail + (Len(chain'[q]) - Len(chain[q])) <= tail'
        <3>1. tail' = tail + Len(d)
            BY <1>3
        <3>2. Len(d) \in Nat /\ Len(chain[q]) \in Nat /\ tail \in Nat
            BY <1>1
        <3> QED
            BY ONLY <3>1, <3>2, <2>3
    <2> QED
        BY <2>1, <2>2, <2>4 DEF Grown
<1> QED
    BY <1>5, <1>6, <1>7, <1>8, GrownSame DEF Grows

LEMMA CreateGrows ==
    ASSUME TableType, TableInv, NEW q \in Keys, NEW w \in Kinds, Create(q, w)
    PROVE  Grows /\ \A k \in Keys : k # q => chain'[k] = chain[k]
<1> DEFINE c == Head(Chunks(w))
<1>1. tail \in Nat /\ tail >= 1 /\ Chunks(w) \in Seq(Int) /\ Len(Chunks(w)) \in {1, 2}
    BY ChunksAre DEF TableType, TableInv
<1>2. c \in Int /\ Offset(c) = tail
    <2>1. c = Chunks(w)[1] /\ 1 \in 1..Len(Chunks(w))
        BY <1>1
    <2>2. Offset(Chunks(w)[1]) = tail + (1 - 1) \/ tail = 0
        BY <2>1, ChunksAre
    <2>3. Chunks(w)[1] \in Int
        BY <1>1, <2>1, ElementOfSeq
    <2> HIDE DEF c
    <2> QED
        BY <1>1, <2>1, <2>2, <2>3
<1>3. chain' = [chain EXCEPT ![q] = <<c>>] /\ tail' = tail + 1 /\ q \notin Range(slab)
    BY DEF Create
<1>4. chain[q] = <<>>
    BY <1>3 DEF TableInv
<1> HIDE DEF c
<1>5. <<c>> \in Seq(Int) /\ Len(<<c>>) = 1 /\ <<c>>[1] = c
    BY <1>2
<1>6. chain' \in [Keys -> Seq(Int)] /\ chain'[q] = <<c>>
    BY <1>3, <1>5 DEF TableType
<1>7. \A k \in Keys : k # q => chain'[k] = chain[k]
    BY <1>3 DEF TableType
<1>8. Grown(q)
    <2>1. Len(chain[q]) = 0 /\ Len(chain'[q]) = 1
        BY <1>4, <1>5, <1>6
    <2>2. \A i \in (0 + 1)..1 : Offset(chain'[q][i]) = tail + (i - 0 - 1)
        BY <1>1, <1>2, <1>5, <1>6
    <2> QED
        BY <1>1, <1>3, <2>1, <2>2 DEF Grown
<1> QED
    BY <1>1, <1>3, <1>6, <1>7, <1>8, GrownSame DEF Grows

LEMMA PutHeadGrows ==
    ASSUME TableType, TableInv, PutHead
    PROVE  Grows /\ \A k \in Keys : k # slab[wr.id] => chain'[k] = chain[k]
<1> DEFINE q == slab[wr.id]
<1>1. tail \in Nat /\ tail >= 1 /\ wr.id \in DOMAIN slab /\ q \in Keys
    BY DEF TableType, TableInv, PutHead, Under
<1>2. chain' = [chain EXCEPT ![q] = Append(chain[q], tail)] /\ tail' = tail + 1
    BY DEF PutHead
<1> HIDE DEF q
<1>3. chain[q] \in Seq(Int) /\ Len(chain[q]) \in Nat
    BY <1>1 DEF TableType
<1>4. chain' \in [Keys -> Seq(Int)] /\ chain'[q] = Append(chain[q], tail)
    BY <1>1, <1>2, <1>3 DEF TableType
<1>5. \A k \in Keys : k # q => chain'[k] = chain[k]
    BY <1>2 DEF TableType
<1>6. Grown(q)
    <2>1. Len(chain'[q]) = Len(chain[q]) + 1 /\ chain'[q][Len(chain[q]) + 1] = tail
          /\ \A i \in 1..Len(chain[q]) : chain'[q][i] = chain[q][i]
        BY <1>1, <1>3, <1>4
    <2>2. \A i \in (Len(chain[q]) + 1)..Len(chain'[q]) : i = Len(chain[q]) + 1
        BY <2>1, <1>3
    <2>3. Offset(tail) = tail
        BY <1>1 DEF Offset
    <2>4. \A i \in (Len(chain[q]) + 1)..Len(chain'[q]) : Offset(chain'[q][i]) = tail + (i - Len(chain[q]) - 1)
        <3> TAKE i \in (Len(chain[q]) + 1)..Len(chain'[q])
        <3>1. i = Len(chain[q]) + 1 /\ Offset(chain'[q][i]) = tail
            BY <2>1, <2>2, <2>3
        <3> QED
            BY <3>1, <1>1, <1>3
    <2> QED
        <3>1. tail' = tail + 1 /\ tail \in Nat /\ Len(chain[q]) \in Nat /\ Len(chain'[q]) = Len(chain[q]) + 1
            BY <1>1, <1>2, <1>3, <2>1
        <3>2. Len(chain[q]) <= Len(chain'[q]) /\ tail + (Len(chain'[q]) - Len(chain[q])) <= tail'
            BY ONLY <3>1
        <3> QED
            BY <2>1, <2>4, <3>2 DEF Grown
<1> QED
    BY <1>1, <1>2, <1>4, <1>5, <1>6, GrownSame DEF Grows, q

\* Chunks stay below the tail and ascend.
LEMMA ChainsKeep ==
    ASSUME TableType, TableInv, Grows
    PROVE  /\ \A k \in Keys : \A i \in DOMAIN chain'[k] :
                 Offset(chain'[k][i]) >= 1 /\ Offset(chain'[k][i]) < tail'
           /\ \A k \in Keys : \A i, j \in DOMAIN chain'[k] :
                 i < j => Offset(chain'[k][i]) < Offset(chain'[k][j])
<1> SUFFICES ASSUME NEW k \in Keys
             PROVE  /\ \A i \in DOMAIN chain'[k] :
                          Offset(chain'[k][i]) >= 1 /\ Offset(chain'[k][i]) < tail'
                    /\ \A i, j \in DOMAIN chain'[k] :
                          i < j => Offset(chain'[k][i]) < Offset(chain'[k][j])
    OBVIOUS
<1> DEFINE c == chain[k]
           d == chain'[k]
           o(i) == Offset(c[i])
           p(i) == Offset(d[i])
           m == Len(c)
           n == Len(d)
<1>1. /\ c \in Seq(Int) /\ d \in Seq(Int) /\ m \in Nat /\ n \in Nat
      /\ DOMAIN c = 1..m /\ DOMAIN d = 1..n
    BY DEF TableType, Grows
<1>2. tail \in Nat /\ tail' \in Nat /\ tail >= 1 /\ tail <= tail'
    BY DEF TableType, TableInv, Grows
<1>3. \A i \in 1..m : o(i) \in Int /\ o(i) >= 1 /\ o(i) < tail
    <2> TAKE i \in 1..m
    <2>1. c[i] \in Int
        BY <1>1
    <2> QED
        BY <1>1, <2>1 DEF TableInv, Offset
<1>4. \A i, j \in 1..m : i < j => o(i) < o(j)
    BY <1>1 DEF TableInv
<1>5. m <= n /\ \A i \in 1..m : p(i) = o(i)
    BY DEF Grows, Grown
<1>6. \A i \in (m + 1)..n : p(i) = tail + (i - m - 1)
    BY DEF Grows, Grown
<1>7. tail + (n - m) <= tail'
    BY DEF Grows, Grown
<1> HIDE DEF c, d, m, n, o, p
<1>8. \A i \in 1..n : p(i) >= 1 /\ p(i) < tail'
    <2> TAKE i \in 1..n
    <2>1. CASE i \in 1..m
        BY <2>1, <1>1, <1>2, <1>3, <1>5
    <2>2. CASE i \in (m + 1)..n
        BY <2>2, <1>1, <1>2, <1>6, <1>7
    <2> QED
        BY <2>1, <2>2, <1>1
<1>9. \A i, j \in 1..n : i < j => p(i) < p(j)
    <2> SUFFICES ASSUME NEW i \in 1..n, NEW j \in 1..n, i < j PROVE p(i) < p(j)
        OBVIOUS
    <2>1. CASE j \in 1..m
        <3>1. i \in 1..m
            BY <2>1, <1>1
        <3> QED
            BY <2>1, <3>1, <1>4, <1>5
    <2>2. CASE j \in (m + 1)..n
        <3>1. CASE i \in 1..m
            BY <2>2, <3>1, <1>1, <1>2, <1>3, <1>5, <1>6
        <3>2. CASE i \in (m + 1)..n
            BY <2>2, <3>2, <1>1, <1>2, <1>6
        <3> QED
            BY <3>1, <3>2, <1>1
    <2> QED
        BY <2>1, <2>2, <1>1
<1> QED
    BY <1>1, <1>8, <1>9 DEF d, p, n

TabInv == TableType /\ TableInv /\ EntryInv

LEMMA TableLink ==
    ASSUME TabInv, NEW q \in Keys, NEW w \in Kinds, Link(q, w)
    PROVE  TabInv'
<1> USE DEF TabInv
<1>1. /\ wr.pc = "idle" /\ q \in Range(slab) /\ slab' = slab /\ log' = log
      /\ tail' = tail + Len(Chunks(w)) /\ tail + Len(Chunks(w)) <= MaxChunk + 1
      /\ wr' = [pc |-> "log", id |-> CHOOSE i \in DOMAIN slab : slab[i] = q]
    BY DEF Link
<1>2. \E i \in DOMAIN slab : slab[i] = q
    BY <1>1 DEF Range
<1> DEFINE e == CHOOSE i \in DOMAIN slab : slab[i] = q
<1>3. e \in DOMAIN slab /\ slab[e] = q
    BY <1>2
<1>4. wr' = [pc |-> "log", id |-> e]
    BY <1>1
<1> HIDE DEF e
<1>5. wr'.pc = "log" /\ wr'.id = e /\ Under' /\ ~Under
    BY <1>1, <1>4 DEF Under
<1>6. Grows /\ \A k \in Keys : k # q => chain'[k] = chain[k]
    BY LinkGrows
<1>7. e \in Nat /\ DOMAIN slab = 1..Len(slab) /\ Len(slab) \in Nat
    BY <1>3 DEF TableType
<1>8. TableType'
    <2>1. wr' \in [pc : {"idle", "head", "index", "log", "len", "wm", "mark", "claim"}, id : Nat]
        BY <1>4, <1>7
    <2> QED
        BY <1>1, <1>6, <2>1 DEF TableType, Grows
<1>9. Len(slab) < tail' /\ Len(log) + 1 < tail' /\ tail' >= 1 /\ tail' <= MaxChunk + 1 /\ Len(log) < tail'
    <2>1. Len(Chunks(w)) \in {1, 2} /\ tail \in Nat /\ Len(log) \in Nat /\ Len(slab) \in Nat
        BY ChunksAre DEF TableType
    <2>2. Len(slab) < tail /\ Len(log) < tail
        BY DEF TableInv
    <2>3. tail' = tail + Len(Chunks(w)) /\ tail + Len(Chunks(w)) <= MaxChunk + 1
        BY <1>1
    <2> DEFINE m == Len(Chunks(w))
    <2>4. m \in Nat /\ m >= 1 /\ tail' = tail + m /\ tail + m <= MaxChunk + 1
        BY <2>1, <2>3
    <2> HIDE DEF m
    <2> QED
        BY ONLY <2>1, <2>2, <2>4, Numbers
<1>10. \A k \in Keys : k \notin Range(slab) => chain'[k] = <<>>
    BY <1>1, <1>6 DEF TableInv
<1>11. TableInv'
    <2>1. (\A i, j \in DOMAIN slab : slab[i] = slab[j] => i = j)' /\ (\A i \in DOMAIN log : log[i] <= Len(slab))'
        BY <1>1 DEF TableInv
    <2>2. (\A k \in Keys : k \notin Range(slab) => chain[k] = <<>>)'
        BY <1>1, <1>10 DEF Range
    <2>3. (/\ tail >= 1 /\ tail <= MaxChunk + 1 /\ (wr.pc = "head" => tail <= MaxChunk)
           /\ Len(slab) < tail /\ Len(log) < tail /\ (Under => Len(log) + 1 < tail)
           /\ (Under => wr.id \in DOMAIN slab)
           /\ (~Under => wr.id = 0)
           /\ (wr.pc \in {"head", "index"} => wr.id = Len(slab)))'
        BY <1>1, <1>3, <1>5, <1>9
    <2> QED
        BY <2>1, <2>2, <2>3, <1>6, ChainsKeep DEF TableInv
<1>12. EntryInv'
    BY <1>1, <1>5 DEF EntryInv
<1> QED
    BY <1>8, <1>11, <1>12

LEMMA TableCreate ==
    ASSUME TabInv, NEW q \in Keys, NEW w \in Kinds, Create(q, w)
    PROVE  TabInv'
<1> USE DEF TabInv
<1>1. /\ wr.pc = "idle" /\ q \notin Range(slab) /\ slab' = Append(slab, q) /\ log' = log
      /\ tail' = tail + 1 /\ tail + Len(Chunks(w)) <= MaxChunk + 1
      /\ wr' = [pc |-> IF w = "put" THEN "head" ELSE "index", id |-> Len(slab) + 1]
    BY DEF Create
<1>2. /\ Len(slab) \in Nat /\ slab \in Seq(Keys) /\ slab' \in Seq(Keys) /\ Len(slab') = Len(slab) + 1
      /\ \A i \in 1..Len(slab) : slab'[i] = slab[i]
      /\ slab'[Len(slab) + 1] = q /\ DOMAIN slab = 1..Len(slab) /\ DOMAIN slab' = 1..(Len(slab) + 1)
    BY <1>1 DEF TableType
<1>3. wr'.pc \in {"head", "index"} /\ wr'.id = Len(slab) + 1 /\ Under' /\ ~Under /\ (wr'.pc = "head" => w = "put")
    BY <1>1 DEF Under
<1>4. Grows /\ \A k \in Keys : k # q => chain'[k] = chain[k]
    BY CreateGrows
<1>5. TableType'
    <2>1. wr' \in [pc : {"idle", "head", "index", "log", "len", "wm", "mark", "claim"}, id : Nat]
        BY <1>1, <1>2
    <2> QED
        BY <1>1, <1>2, <1>4, <2>1 DEF TableType, Grows
<1>6. /\ Len(slab) + 1 < tail' /\ Len(log) + 1 < tail' /\ tail' >= 1 /\ tail' <= MaxChunk + 1 /\ Len(log) < tail'
      /\ (w = "put" => tail' <= MaxChunk)
    <2>1. /\ Len(Chunks(w)) \in {1, 2} /\ Len(Chunks(w)) = (IF w = "put" THEN 2 ELSE 1)
          /\ tail \in Nat /\ Len(log) \in Nat /\ Len(slab) \in Nat
        BY ChunksAre DEF TableType
    <2>2. Len(slab) < tail /\ Len(log) < tail
        BY DEF TableInv
    <2>3. tail' = tail + 1 /\ tail + Len(Chunks(w)) <= MaxChunk + 1
        BY <1>1
    <2> QED
        BY ONLY <2>1, <2>2, <2>3, Numbers
<1>7. \A i \in 1..Len(slab) : slab[i] # q
    BY <1>1, <1>2 DEF Range
<1>8. \A i \in 1..(Len(slab) + 1) : i \in 1..Len(slab) \/ i = Len(slab) + 1
    BY <1>2
<1>9. \A i, j \in DOMAIN slab' : slab'[i] = slab'[j] => i = j
    <2>1. \A i, j \in 1..Len(slab) : slab[i] = slab[j] => i = j
        BY <1>2 DEF TableInv
    <2> QED
        BY <2>1, <1>2, <1>7, <1>8
<1>10. \A i \in DOMAIN log : log[i] <= Len(slab) + 1
    <2> TAKE i \in DOMAIN log
    <2>0. log \in Seq(1..MaxChunk) /\ i \in 1..Len(log)
        BY DEF TableType
    <2>1. log[i] <= Len(slab) /\ log[i] \in 1..MaxChunk
        BY <2>0, ElementOfSeq, Zenon DEF TableInv
    <2> QED
        BY <2>1, <1>2, Numbers
<1>11. \A k \in Keys : k \notin Range(slab') => chain'[k] = <<>>
    <2> SUFFICES ASSUME NEW k \in Keys, k \notin Range(slab') PROVE chain'[k] = <<>>
        OBVIOUS
    <2>0. \A i \in 1..(Len(slab) + 1) : slab'[i] # k
        BY <1>2 DEF Range
    <2>1. k # q
        BY <2>0, <1>2
    <2>2. k \notin Range(slab)
        <3>1. \A i \in 1..Len(slab) : i \in 1..(Len(slab) + 1)
            BY <1>2
        <3> QED
            BY <2>0, <3>1, <1>2 DEF Range
    <2> QED
        BY <2>1, <2>2, <1>4 DEF TableInv
<1>12. TableInv'
    <2>1. (/\ tail >= 1 /\ tail <= MaxChunk + 1 /\ (wr.pc = "head" => tail <= MaxChunk)
           /\ Len(slab) < tail /\ Len(log) < tail /\ (Under => Len(log) + 1 < tail)
           /\ (Under => wr.id \in DOMAIN slab)
           /\ (~Under => wr.id = 0)
           /\ (wr.pc \in {"head", "index"} => wr.id = Len(slab)))'
        BY <1>1, <1>2, <1>3, <1>6
    <2> QED
        BY <2>1, <1>1, <1>2, <1>4, <1>9, <1>10, <1>11, ChainsKeep DEF TableInv
<1>13. EntryInv'
    <2>1. \A e \in DOMAIN slab : \E l \in DOMAIN log : log[l] = e
        BY <1>3 DEF EntryInv
    <2>2. \A e \in DOMAIN slab' : (\E l \in DOMAIN log : log[l] = e) \/ e = wr'.id
        BY <2>1, <1>2, <1>3, <1>8
    <2> QED
        BY <2>2, <1>1, <1>3 DEF EntryInv
<1> QED
    BY <1>5, <1>12, <1>13

LEMMA TablePutHead ==
    ASSUME TabInv, PutHead
    PROVE  TabInv'
<1> USE DEF TabInv
<1>1. wr.pc = "head" /\ slab' = slab /\ log' = log /\ tail' = tail + 1 /\ wr' = [wr EXCEPT !.pc = "index"]
    BY DEF PutHead
<1>2. wr'.pc = "index" /\ wr'.id = wr.id /\ Under /\ Under' /\ wr.id = Len(slab) /\ wr.id \in DOMAIN slab
    BY <1>1 DEF TableType, TableInv, Under
<1>3. Grows /\ \A k \in Keys : k # slab[wr.id] => chain'[k] = chain[k]
    BY PutHeadGrows
<1>4. TableType'
    BY <1>1, <1>3 DEF TableType, Grows
<1>5. Len(slab) < tail' /\ Len(log) + 1 < tail' /\ tail' >= 1 /\ tail' <= MaxChunk + 1 /\ Len(log) < tail'
    <2>1. tail \in Nat /\ Len(log) \in Nat /\ Len(slab) \in Nat
        BY DEF TableType
    <2>2. Len(slab) < tail /\ Len(log) + 1 < tail /\ tail <= MaxChunk /\ tail' = tail + 1
        BY <1>1, <1>2 DEF TableInv
    <2> QED
        BY ONLY <2>1, <2>2, Numbers
<1>6. \A k \in Keys : k \notin Range(slab) => chain'[k] = <<>>
    BY <1>2, <1>3 DEF TableInv, Range
<1>7. TableInv'
    <2>1. (\A i, j \in DOMAIN slab : slab[i] = slab[j] => i = j)' /\ (\A i \in DOMAIN log : log[i] <= Len(slab))'
        BY <1>1 DEF TableInv
    <2>2. (\A k \in Keys : k \notin Range(slab) => chain[k] = <<>>)'
        BY <1>1, <1>6 DEF Range
    <2>3. (/\ tail >= 1 /\ tail <= MaxChunk + 1 /\ (wr.pc = "head" => tail <= MaxChunk)
           /\ Len(slab) < tail /\ Len(log) < tail /\ (Under => Len(log) + 1 < tail)
           /\ (Under => wr.id \in DOMAIN slab)
           /\ (~Under => wr.id = 0)
           /\ (wr.pc \in {"head", "index"} => wr.id = Len(slab)))'
        BY <1>1, <1>2, <1>5
    <2> QED
        BY <2>1, <2>2, <2>3, <1>3, ChainsKeep DEF TableInv
<1>8. EntryInv'
    BY <1>1, <1>2 DEF EntryInv
<1> QED
    BY <1>4, <1>7, <1>8

LEMMA TableIndex ==
    ASSUME TabInv, IndexInsert
    PROVE  TabInv'
<1> USE DEF TabInv
<1>1. UNCHANGED <<slab, chain, tail, log>> /\ wr' = [wr EXCEPT !.pc = "log"] /\ wr.pc = "index"
    BY DEF IndexInsert
<1>2. wr'.pc = "log" /\ wr'.id = wr.id /\ Under /\ Under'
    BY <1>1 DEF TableType, Under
<1>3. TableType'
    BY <1>1 DEF TableType
<1>4. TableInv'
    BY <1>1, <1>2 DEF TableInv, Range
<1>5. EntryInv'
    BY <1>1, <1>2 DEF EntryInv
<1> QED
    BY <1>3, <1>4, <1>5

\* An entry logged, with every one made before it logged already.
LEMMA TableLog ==
    ASSUME TabInv, LogWrite
    PROVE  TabInv'
<1> USE DEF TabInv
<1>1. UNCHANGED <<slab, chain, tail>> /\ log' = Append(log, wr.id) /\ wr.pc = "log" /\ wr' = [pc |-> "idle", id |-> 0]
    BY DEF LogWrite, Resting
<1>2. Under /\ ~Under' /\ wr'.pc = "idle" /\ wr'.id = 0
    BY <1>1 DEF Under
<1>3. wr.id \in DOMAIN slab /\ wr.id \in 1..Len(slab) /\ wr.id \in 1..MaxChunk
    <2>1. wr.id \in DOMAIN slab
        BY <1>2 DEF TableInv
    <2> QED
        BY <2>1, Lengths, Numbers
<1>4. /\ Len(log) \in Nat /\ log' \in Seq(1..MaxChunk) /\ Len(log') = Len(log) + 1
      /\ \A i \in 1..Len(log) : log'[i] = log[i]
      /\ log'[Len(log) + 1] = wr.id /\ DOMAIN log = 1..Len(log) /\ DOMAIN log' = 1..(Len(log) + 1)
    BY <1>1, <1>3 DEF TableType
<1>5. \A i \in 1..(Len(log) + 1) : i \in 1..Len(log) \/ i = Len(log) + 1
    BY <1>4
<1>6. TableType'
    BY <1>1, <1>4 DEF TableType
<1>7. TableInv'
    <2>1. Len(log') < tail /\ tail \in Nat
        BY <1>2, <1>4 DEF TableInv, TableType
    <2>2. \A i \in DOMAIN log' : log'[i] <= Len(slab)
        <3>1. \A i \in 1..Len(log) : log[i] <= Len(slab)
            BY <1>4 DEF TableInv
        <3>2. wr.id <= Len(slab)
            BY <1>3, Lengths, Numbers
        <3> QED
            BY <1>4, <1>5, <3>1, <3>2
    <2> QED
        BY <2>1, <2>2, <1>1, <1>2 DEF TableInv, Range
<1>8. EntryInv'
    <2>1. \A e \in DOMAIN slab : \E l \in 1..(Len(log) + 1) : log'[l] = e
        <3> TAKE e \in DOMAIN slab
        <3>1. CASE e = wr.id
            BY <3>1, <1>4
        <3>2. CASE \E l \in DOMAIN log : log[l] = e
            <4>1. PICK l \in 1..Len(log) : log[l] = e
                BY <3>2, <1>4
            <4>2. l \in 1..(Len(log) + 1) /\ log'[l] = e
                BY <4>1, <1>4
            <4> QED
                BY <4>2
        <3> QED
            BY <3>1, <3>2, <1>2 DEF EntryInv
    <2>2. \A j \in 1..(Len(log) + 1) : \A e \in 1..log'[j] : \E l \in 1..j : log'[l] = e
        <3> SUFFICES ASSUME NEW j \in 1..(Len(log) + 1), NEW e \in 1..log'[j]
                     PROVE  \E l \in 1..j : log'[l] = e
            OBVIOUS
        <3>1. CASE j \in 1..Len(log)
            <4>1. log'[j] = log[j]
                BY <3>1, <1>4
            <4>2. PICK l \in 1..j : log[l] = e
                BY <3>1, <4>1, <1>4 DEF EntryInv
            <4>3. l \in 1..Len(log)
                BY <3>1, <4>2, <1>4
            <4> QED
                BY <4>2, <4>3, <1>4
        <3>2. CASE j = Len(log) + 1
            <4>1. e \in 1..wr.id
                BY <3>2, <1>4
            <4>2. e \in DOMAIN slab
                BY <4>1, <1>3, Lengths, Numbers
            <4> QED
                BY <2>1, <3>2, <4>2
        <3> QED
            BY <3>1, <3>2, <1>5
    <2> QED
        BY <2>1, <2>2, <1>1, <1>4 DEF EntryInv
<1> QED
    BY <1>6, <1>7, <1>8

\* A commit's stores leave the table alone.
LEMMA TableCommits ==
    ASSUME TabInv, CommitStore \/ CommitMark
    PROVE  TabInv' /\ UNCHANGED <<slab, chain, tail, log>> /\ ~Under /\ ~Under'
<1> USE DEF TabInv
<1>1. UNCHANGED <<slab, chain, tail, log>> /\ ~Under
    BY DEF CommitStore, CommitMark, Under
<1>2. wr' \in [pc : {"idle", "len", "wm", "mark"}, id : {0}]
    BY DEF CommitStore, CommitMark, CommitWord, Resting
<1>3. ~Under' /\ wr'.id = 0 /\ wr'.pc \notin {"head", "index", "log"}
    BY <1>2 DEF Under
<1>4. TableType'
    BY <1>1, <1>2 DEF TableType
<1>5. TableInv'
    BY <1>1, <1>3 DEF TableInv, Range
<1>6. EntryInv'
    BY <1>1, <1>3 DEF EntryInv
<1> QED
    BY <1>1, <1>3, <1>4, <1>5, <1>6

\* The writer waits at a claim, or goes on from it.
Turns ==
    /\ UNCHANGED <<slab, chain, tail, log, commits>>
    /\ wr.pc \in {"idle", "claim"} /\ wr' \in [pc : {"idle", "claim"}, id : {0}]

LEMMA PassTurns ==
    ASSUME PassEnds, UNCHANGED <<slab, chain, tail, log, commits>>
    PROVE  Turns \/ UNCHANGED <<table, commits>>
<1>1. CASE Claimed
    BY <1>1 DEF PassEnds, Claimed, Resting, Turns
<1>2. CASE ~Claimed
    BY <1>2 DEF PassEnds, table
<1> QED
    BY <1>1, <1>2

\* The writer and what it does to the table; every other step leaves it alone.
LEMMA WriterSteps ==
    ASSUME [Next]_vars
    PROVE  \/ \E k \in Keys, w \in Kinds : Link(k, w) \/ Create(k, w)
           \/ PutHead \/ IndexInsert \/ LogWrite \/ CommitStore \/ CommitMark
           \/ Turns \/ UNCHANGED <<table, commits>>
<1>1. CASE Write
    BY <1>1 DEF Write
<1>2. CASE PassBegin \/ PassLook \/ PassFill
    BY <1>2 DEF PassBegin, PassLook, PassFill
<1>3. CASE PassPublish \/ PassComplete \/ WriterScan \/ LandCarry \/ LandPublish
    BY <1>3 DEF PassPublish, PassComplete, WriterScan, LandCarry, LandPublish
<1>4. ASSUME NEW h \in Handles, Scan(h) PROVE UNCHANGED <<table, commits>>
    BY <1>4 DEF Scan, Enter, LoadWord, CheckMark, Look, Snap, LoadAt, LoadComplete, Walk, Again, Leave, Handles1
<1>5. CASE UNCHANGED vars
    BY <1>5 DEF vars
<1>6. CASE Claim
    BY <1>6 DEF Claim, Turns
<1>7. CASE PassSnap \/ PassAt \/ GiveUp
    <2>1. UNCHANGED <<slab, chain, tail, log, commits>> /\ (PassEnds \/ UNCHANGED wr)
        BY <1>7 DEF PassSnap, PassAt, GiveUp
    <2> QED
        BY <2>1, PassTurns DEF table
<1> QED
    BY <1>1, <1>2, <1>3, <1>4, <1>5, <1>6, <1>7 DEF Next

LEMMA TableTurns ==
    ASSUME TabInv, Turns
    PROVE  TabInv' /\ ~Under /\ ~Under'
<1> USE DEF TabInv
<1>1. UNCHANGED <<slab, chain, tail, log>> /\ ~Under
    BY DEF Turns, Under
<1>2. ~Under' /\ wr'.id = 0 /\ wr'.pc \notin {"head", "index", "log"}
    BY DEF Turns, Under
<1>3. TableType'
    BY <1>1 DEF TableType, Turns
<1>4. TableInv'
    BY <1>1, <1>2 DEF TableInv, Range
<1>5. EntryInv'
    BY <1>1, <1>2 DEF EntryInv
<1> QED
    BY <1>1, <1>2, <1>3, <1>4, <1>5

LEMMA TableNext ==
    ASSUME TabInv, [Next]_vars
    PROVE  TabInv'
<1>1. CASE \E k \in Keys, w \in Kinds : Link(k, w) \/ Create(k, w)
    BY <1>1, TableLink, TableCreate
<1>2. CASE UNCHANGED <<table, commits>>
    BY <1>2 DEF table, TabInv, TableType, TableInv, EntryInv, Under, Range
<1> QED
    BY <1>1, <1>2, WriterSteps, TablePutHead, TableIndex, TableLog, TableCommits, TableTurns

\* The table only grows: what is logged, made and linked stays.
Later ==
    /\ Grows
    /\ Len(log) <= Len(log') /\ \A i \in 1..Len(log) : log'[i] = log[i]
    /\ Len(slab) <= Len(slab') /\ \A i \in 1..Len(slab) : slab'[i] = slab[i]
    /\ Indexed <= Indexed'
LEMMA GrowsSame ==
    ASSUME TabInv, chain' = chain, tail' = tail
    PROVE  Grows
<1>1. TableType /\ tail \in Nat
    BY DEF TabInv, TableType
<1>2. \A k \in Keys : Grown(k)
    BY <1>1, GrownSame
<1> QED
    BY <1>1, <1>2 DEF Grows, TableType

LEMMA TableLater ==
    ASSUME TabInv, [Next]_vars
    PROVE  Later
<1>0. Len(log) \in Nat /\ Len(slab) \in Nat /\ slab \in Seq(Keys) /\ log \in Seq(1..MaxChunk)
    BY DEF TabInv, TableType
<1>1. ASSUME NEW q \in Keys, NEW w \in Kinds, Link(q, w) PROVE Later
    <2>1. slab' = slab /\ log' = log /\ wr.pc = "idle" /\ wr'.pc = "log"
        BY <1>1 DEF Link
    <2>2. Indexed' = Indexed /\ Indexed \in Int
        BY <2>1, <1>0 DEF Indexed
    <2> QED
        BY <1>0, <1>1, <2>1, <2>2, LinkGrows DEF TabInv, Later
<1>2. ASSUME NEW q \in Keys, NEW w \in Kinds, Create(q, w) PROVE Later
    <2>1. slab' = Append(slab, q) /\ log' = log /\ wr.pc = "idle" /\ wr'.pc \in {"head", "index"}
        BY <1>2 DEF Create
    <2>2. Len(slab') = Len(slab) + 1 /\ \A i \in 1..Len(slab) : slab'[i] = slab[i]
        BY <2>1, <1>0
    <2>3. Indexed' = Indexed /\ Indexed = Len(slab)
        BY <2>1, <2>2, <1>0 DEF Indexed
    <2> QED
        BY <1>0, <1>2, <2>1, <2>2, <2>3, CreateGrows DEF TabInv, Later
<1>3. CASE PutHead
    <2>1. slab' = slab /\ log' = log /\ wr.pc = "head" /\ wr'.pc = "index"
        BY <1>3 DEF PutHead, TabInv, TableType
    <2>2. Indexed' = Indexed /\ Indexed \in Int
        BY <2>1, <1>0 DEF Indexed
    <2> QED
        BY <1>0, <1>3, <2>1, <2>2, PutHeadGrows DEF TabInv, Later
<1>4. CASE IndexInsert
    <2>1. slab' = slab /\ log' = log /\ chain' = chain /\ tail' = tail /\ wr.pc = "index" /\ wr'.pc = "log"
        BY <1>4 DEF IndexInsert, TabInv, TableType
    <2>2. Indexed' = Len(slab) /\ Indexed = Len(slab) - 1
        BY <2>1, <1>0 DEF Indexed
    <2> QED
        BY <1>0, <2>1, <2>2, GrowsSame DEF TabInv, Later
<1>5. CASE LogWrite
    <2>1. slab' = slab /\ log' = Append(log, wr.id) /\ chain' = chain /\ tail' = tail /\ wr.pc = "log" /\ wr'.pc = "idle"
        BY <1>5 DEF LogWrite, Resting
    <2>2. Indexed' = Len(slab) /\ Indexed = Len(slab)
        BY <2>1, <1>0 DEF Indexed
    <2>3. TabInv' /\ wr.id \in Nat
        BY TableNext DEF TabInv, TableType
    <2>4. Len(log') = Len(log) + 1 /\ \A i \in 1..Len(log) : log'[i] = log[i]
        BY <2>1, <1>0
    <2> QED
        BY <1>0, <2>1, <2>2, <2>4, GrowsSame DEF Later
<1>6. CASE CommitStore \/ CommitMark \/ Turns
    <2>1. UNCHANGED <<slab, chain, tail, log>> /\ ~Under /\ ~Under'
        BY <1>6, TableCommits, TableTurns DEF Turns
    <2>2. Indexed' = Len(slab) /\ Indexed = Len(slab)
        BY <2>1 DEF Indexed, Under
    <2> QED
        BY <1>0, <2>1, <2>2, GrowsSame DEF Later
<1>7. CASE UNCHANGED <<table, commits>>
    <2>1. UNCHANGED <<slab, chain, tail, log, wr>>
        BY <1>7 DEF table
    <2>2. Indexed' = Indexed /\ Indexed \in Int
        BY <2>1, <1>0 DEF Indexed
    <2> QED
        BY <1>0, <2>1, <2>2, GrowsSame DEF Later
<1> QED
    BY <1>1, <1>2, <1>3, <1>4, <1>5, <1>6, <1>7, WriterSteps

\* What the log says between two of its positions stays.
LEMMA BetweenStays ==
    ASSUME TabInv, Later, NEW n \in Nat, NEW m \in Nat, m <= Len(log), NEW k
    PROVE  Between(n, m, k)' <=> Between(n, m, k)
<1>1. \A i \in (n + 1)..m : slab'[log'[i]] = slab[log[i]]
    <2> TAKE i \in (n + 1)..m
    <2>1. i \in 1..Len(log) /\ i \in DOMAIN log
        BY DEF TabInv, TableType
    <2>2. log[i] \in 1..MaxChunk /\ log[i] <= Len(slab)
        BY <2>1, log \in Seq(1..MaxChunk), ElementOfSeq, Zenon DEF TabInv, TableType, TableInv
    <2>3. log[i] \in 1..Len(slab)
        BY <2>2, Numbers DEF TabInv, TableType
    <2> QED
        BY <2>1, <2>3 DEF Later
<1> QED
    BY <1>1 DEF Between

\* A key not written since is as it was: every write is under way or logged.
LEMMA Untouched ==
    ASSUME TabInv, [Next]_vars, NEW k \in Keys, NEW n \in Nat, n <= Len(log),
           ~Between(n, Len(log), k)', ~Writing(k)'
    PROVE  ~Between(n, Len(log), k) /\ ~Writing(k) /\ chain'[k] = chain[k]
<1>0. Len(log) \in Nat /\ Len(slab) \in Nat /\ slab \in Seq(Keys) /\ log \in Seq(1..MaxChunk) /\ TabInv'
    BY TableNext DEF TabInv, TableType
<1>1. ~Between(n, Len(log), k)
    <2> SUFFICES ASSUME Between(n, Len(log), k) PROVE FALSE
        OBVIOUS
    <2>1. PICK l \in Nat : l = Len(log)
        BY <1>0
    <2>2. Between(n, l, k)'
        BY <2>1, <1>0, TableLater, BetweenStays
    <2>3. Len(log') \in Nat /\ l <= Len(log')
        BY <2>1, <1>0, TableLater DEF Later, TabInv, TableType
    <2>4. PICK i \in (n + 1)..l : slab'[log'[i]] = k
        BY <2>2 DEF Between
    <2>5. i \in (n + 1)..Len(log')
        BY <2>3, <2>4
    <2> QED
        BY <2>4, <2>5 DEF Between
<1>2. ASSUME NEW q \in Keys, NEW w \in Kinds, Link(q, w) PROVE ~Writing(k) /\ chain'[k] = chain[k]
    <2>1. /\ slab' = slab /\ wr.pc = "idle" /\ q \in Range(slab)
          /\ wr' = [pc |-> "log", id |-> CHOOSE i \in DOMAIN slab : slab[i] = q]
        BY <1>2 DEF Link
    <2>2. \E i \in DOMAIN slab : slab[i] = q
        BY <2>1 DEF Range
    <2>3. slab[CHOOSE i \in DOMAIN slab : slab[i] = q] = q
        BY <2>2
    <2>4. wr'.pc = "log" /\ slab'[wr'.id] = q
        BY <2>1, <2>3
    <2>5. k # q
        BY <2>4 DEF Writing, Under
    <2> QED
        BY <2>1, <2>5, <1>2, LinkGrows DEF TabInv, Writing, Under
<1>3. ASSUME NEW q \in Keys, NEW w \in Kinds, Create(q, w) PROVE ~Writing(k) /\ chain'[k] = chain[k]
    <2>1. /\ slab' = Append(slab, q) /\ wr.pc = "idle" /\ wr'.pc \in {"head", "index"} /\ wr'.id = Len(slab) + 1
        BY <1>3 DEF Create
    <2>2. slab'[wr'.id] = q
        BY <2>1, <1>0
    <2>3. k # q
        BY <2>1, <2>2 DEF Writing, Under
    <2> QED
        BY <2>1, <2>3, <1>3, CreateGrows DEF TabInv, Writing, Under
<1>4. CASE PutHead
    <2>1. slab' = slab /\ wr.pc = "head" /\ wr'.pc = "index" /\ wr'.id = wr.id
        BY <1>4 DEF PutHead, TabInv, TableType
    <2>2. k # slab[wr.id]
        BY <2>1 DEF Writing, Under
    <2> QED
        BY <1>1, <2>2, <1>4, PutHeadGrows DEF TabInv, Writing
<1>5. CASE IndexInsert
    BY <1>1, <1>5 DEF IndexInsert, TabInv, TableType, Writing, Under
<1>6. CASE LogWrite
    <2>1. slab' = slab /\ log' = Append(log, wr.id) /\ chain' = chain /\ wr.id \in Nat
        BY <1>6 DEF LogWrite, TabInv, TableType
    <2>2. Len(log') = Len(log) + 1 /\ log'[Len(log) + 1] = wr.id
        BY <2>1, <1>0
    <2>3. Len(log) + 1 \in (n + 1)..Len(log')
        BY <2>2, <1>0
    <2>4. slab[wr.id] # k
        BY <2>1, <2>2, <2>3 DEF Between
    <2> QED
        BY <1>1, <2>1, <2>4 DEF Writing
<1>7. CASE CommitStore \/ CommitMark \/ Turns
    BY <1>1, <1>7, TableCommits, TableTurns DEF Writing, Turns
<1>8. CASE UNCHANGED <<table, commits>>
    BY <1>1, <1>8 DEF table, Writing, Under
<1> QED
    BY <1>1, <1>2, <1>3, <1>4, <1>5, <1>6, <1>7, <1>8, WriterSteps

LEMMA ValuesUntouched ==
    ASSUME TabInv, [Next]_vars, NEW k \in Keys, chain'[k] = chain[k]
    PROVE  Values(k, tail)' = Values(k, tail)
<1>1. tail' \in Nat /\ tail <= tail' /\ TableType /\ TableInv
    BY TableLater DEF Later, Grows, TabInv
<1>2. PICK t \in Nat : t = tail'
    BY <1>1
<1>3. Values(k, t)' = Values(k, t)
    BY ValuesSame
<1>4. Values(k, t) = Values(k, tail)
    BY <1>1, <1>2, ValuesAll
<1> QED
    BY <1>2, <1>3, <1>4
-----------------------------------------------------------------------------
(* The commits.                                                               *)

CommInv == TabInv /\ CommitType /\ HistInv /\ ValuesInv /\ MarkInv

LEMMA HistFacts ==
    ASSUME CommInv, NEW c \in DOMAIN hist
    PROVE  /\ c \in 1..(mark + 1) /\ c \in Nat /\ mark \in Nat /\ DOMAIN hist = 1..(mark + 1)
           /\ hist[c].log \in Nat /\ hist[c].len \in Nat /\ hist[c].wm \in Nat
           /\ hist[c].vals \in [Keys -> Vals]
           /\ hist[c].log <= Len(log) /\ hist[c].len <= Len(slab) /\ hist[c].wm <= tail
           /\ hist[c].log \in 0..MaxChunk /\ hist[c].len \in 0..MaxChunk
           /\ hist[c].len <= Indexed /\ Len(log) \in Nat /\ Len(slab) \in Nat
<1>1. hist \in Seq(HistSet) /\ mark \in Nat /\ Len(hist) = mark + 1
    BY DEF CommInv, CommitType, HistInv
<1>2. hist[c] \in HistSet /\ c \in 1..(mark + 1) /\ DOMAIN hist = 1..(mark + 1)
    BY <1>1
<1>3. hist[c].log \in 0..MaxChunk /\ hist[c].len \in 0..MaxChunk /\ hist[c].wm \in 0..Unbounded
      /\ hist[c].vals \in [Keys -> Vals]
    BY <1>2 DEF HistSet
<1>4. hist[c].log <= Len(log) /\ hist[c].len <= Indexed /\ hist[c].wm <= tail
    BY DEF CommInv, HistInv
<1>5. Len(log) \in Nat /\ Len(slab) \in Nat
    BY DEF CommInv, TabInv, TableType
<1>6. Indexed \in Int /\ Indexed <= Len(slab)
    BY <1>5 DEF Indexed
<1>7. hist[c].log \in Nat /\ hist[c].len \in Nat /\ hist[c].wm \in Nat
    BY <1>3, Numbers
<1>8. hist[c].len <= Len(slab)
    BY ONLY <1>4, <1>5, <1>6, <1>7
<1> QED
    BY <1>1, <1>2, <1>3, <1>4, <1>5, <1>7, <1>8

LEMMA Marking ==
    ASSUME NEW n \in Nat
    PROVE  Marked(n) \in 0..1 /\ Marked(n + 1) \in 0..1 /\ Marked(n + 1) # Marked(n)
BY DEF Marked

\* A commit stays what it was, whatever is written after it.
LEMMA HistStands ==
    ASSUME CommInv, [Next]_vars, hist' = hist, mark' = mark
    PROVE  HistInv' /\ ValuesInv'
<1>1. TabInv /\ Later /\ TabInv'
    BY TableLater, TableNext DEF CommInv
<1>2. Indexed' \in Int /\ Indexed \in Int /\ Len(log') \in Nat /\ tail' \in Nat /\ tail \in Nat /\ Len(slab) \in Nat
    BY <1>1 DEF TabInv, TableType, Indexed
<1>3. HistInv'
    <2>1. ASSUME NEW c \in DOMAIN hist
          PROVE  /\ hist[c].log <= Len(log') /\ hist[c].len <= Indexed' /\ hist[c].wm <= tail'
                 /\ \A e \in 1..hist[c].len : \E l \in 1..hist[c].log : log'[l] = e
                 /\ \A l \in 1..hist[c].log : log'[l] <= hist[c].len
        <3>1. Len(log) <= Len(log') /\ Indexed <= Indexed' /\ tail <= tail'
            BY <1>1 DEF Later, Grows
        <3>2. \A l \in 1..hist[c].log : log'[l] = log[l]
            <4>1. \A l \in 1..hist[c].log : l \in 1..Len(log)
                BY <2>1, HistFacts
            <4> QED
                BY <4>1, <1>1 DEF Later
        <3>3. /\ hist[c].log <= Len(log') /\ hist[c].len <= Indexed' /\ hist[c].wm <= tail'
            <4>1. /\ hist[c].log <= Len(log) /\ hist[c].len <= Indexed /\ hist[c].wm <= tail
                  /\ hist[c].log \in Nat /\ hist[c].len \in Nat /\ hist[c].wm \in Nat /\ Len(log) \in Nat
                BY <2>1, HistFacts
            <4> QED
                BY ONLY <3>1, <1>2, <4>1
        <3>4. /\ \A e \in 1..hist[c].len : \E l \in 1..hist[c].log : log[l] = e
              /\ \A l \in 1..hist[c].log : log[l] <= hist[c].len
            BY <2>1 DEF CommInv, HistInv
        <3> QED
            BY <3>2, <3>3, <3>4
    <2> QED
        BY <2>1 DEF CommInv, HistInv
<1>4. ASSUME NEW c \in DOMAIN hist, NEW k \in Keys
      PROVE  /\ hist[c].vals[k] = Values(k, hist[c].wm)'
             /\ (\A e \in 1..hist[c].len : slab'[e] # k) => hist[c].vals[k] = Base(k)
             /\ ~Between(hist[c].log, Len(log), k)' /\ ~Writing(k)' => hist[c].vals[k] = Values(k, tail)'
             /\ \A d \in DOMAIN hist : c <= d /\ ~Between(hist[c].log, hist[d].log, k)' =>
                   hist[c].vals[k] = hist[d].vals[k]
    <2>1. PICK n \in Nat : n = hist[c].log
        BY <1>4, HistFacts
    <2>2. PICK w \in Nat : w = hist[c].wm
        BY <1>4, HistFacts
    <2>3. n <= Len(log) /\ w <= tail /\ hist[c].len <= Len(slab) /\ hist[c].len \in Nat
        BY <2>1, <2>2, <1>4, HistFacts
    <2>4. hist[c].vals[k] = Values(k, w)
        BY <2>2, <1>4 DEF CommInv, ValuesInv
    <2>5. Values(k, w)' = Values(k, w)
        <3>1. chain \in [Keys -> Seq(Int)] /\ (chain \in [Keys -> Seq(Int)])' /\ Grown(k)
            BY <1>1 DEF Later, Grows, TabInv, TableType
        <3> QED
            BY <3>1, <2>3, <1>2, ValuesStand
    <2>6. hist[c].vals[k] = Values(k, hist[c].wm)'
        BY <2>2, <2>4, <2>5
    <2>7. (\A e \in 1..hist[c].len : slab'[e] # k) => hist[c].vals[k] = Base(k)
        <3>1. \A e \in 1..hist[c].len : slab'[e] = slab[e]
            BY <2>3, <1>1, <1>2 DEF Later
        <3> QED
            BY <3>1, <1>4 DEF CommInv, ValuesInv
    <2>8. ASSUME ~Between(hist[c].log, Len(log), k)', ~Writing(k)' PROVE hist[c].vals[k] = Values(k, tail)'
        <3>1. ~Between(n, Len(log), k)'
            BY <2>8, <2>1
        <3>2. ~Between(n, Len(log), k) /\ ~Writing(k) /\ chain'[k] = chain[k]
            BY <3>1, <2>8, <2>3, <1>1, Untouched
        <3>3. hist[c].vals[k] = Values(k, tail)
            BY <3>2, <2>1, <1>4 DEF CommInv, ValuesInv
        <3> QED
            BY <3>2, <3>3, <1>1, ValuesUntouched
    <2>9. ASSUME NEW d \in DOMAIN hist, c <= d, ~Between(hist[c].log, hist[d].log, k)'
          PROVE  hist[c].vals[k] = hist[d].vals[k]
        <3>1. PICK m \in Nat : m = hist[d].log
            BY <2>9, HistFacts
        <3>2. m <= Len(log)
            BY <3>1, <2>9, HistFacts
        <3>3. ~Between(n, m, k)'
            BY <2>9, <2>1, <3>1
        <3>4. ~Between(n, m, k)
            BY <3>2, <3>3, <1>1, BetweenStays
        <3> QED
            BY <3>4, <2>1, <3>1, <2>9, <1>4 DEF CommInv, ValuesInv
    <2> QED
        BY <2>6, <2>7, <2>8, <2>9
<1>5. ValuesInv'
    BY <1>4 DEF ValuesInv, Base
<1> QED
    BY <1>3, <1>5

\* A new commit: the table at rest, with all that is linked logged.
LEMMA HistCommits ==
    ASSUME CommInv, CommitMark
    PROVE  CommInv'
<1>0. TabInv /\ TabInv' /\ UNCHANGED <<slab, chain, tail, log>> /\ ~Under /\ ~Under'
    BY TableCommits DEF CommInv
<1> DEFINE new == [log |-> Len(log), len |-> Len(slab), wm |-> tail, vals |-> [k \in Keys |-> Values(k, tail)]]
<1>1. hist' = Append(hist, new) /\ mark' = mark + 1 /\ marks' = marks /\ wr.pc = "mark" /\ wr'.pc = "idle"
    BY DEF CommitMark, Commit, Resting
<1>2. /\ Len(log) \in 0..MaxChunk /\ Len(slab) \in 0..MaxChunk /\ tail \in 1..Unbounded
      /\ DOMAIN log = 1..Len(log) /\ DOMAIN slab = 1..Len(slab)
    BY <1>0, Lengths DEF TabInv
<1>3. new \in HistSet
    <2>1. [k \in Keys |-> Values(k, tail)] \in [Keys -> Vals]
        BY <1>0, ValuesType DEF TabInv, TableType
    <2> QED
        BY <2>1, <1>2, Numbers DEF HistSet
<1>4. new.log = Len(log) /\ new.len = Len(slab) /\ new.wm = tail /\ \A k \in Keys : new.vals[k] = Values(k, tail)
    OBVIOUS
<1> HIDE DEF new
<1>5. mark \in Nat /\ hist \in Seq(HistSet) /\ Len(hist) = mark + 1 /\ DOMAIN hist = 1..(mark + 1)
    BY DEF CommInv, CommitType, HistInv
<1>6. /\ hist' \in Seq(HistSet) /\ Len(hist') = mark' + 1 /\ DOMAIN hist' = 1..(mark + 2)
      /\ hist'[mark + 2] = new /\ \A c \in 1..(mark + 1) : hist'[c] = hist[c]
    BY <1>1, <1>3, <1>5
<1>7. \A c \in 1..(mark + 2) : c \in 1..(mark + 1) \/ c = mark + 2
    BY <1>5
<1>8. CommitType'
    BY <1>1, <1>5, <1>6 DEF CommInv, CommitType
<1>9. mark < MaxCommit /\ Len(log) > hist[mark + 1].log
    BY <1>1 DEF CommInv, MarkInv
<1>10. \A c \in 1..(mark + 1) : hist[c].log < Len(log) /\ hist[c].len <= Len(slab)
    <2> TAKE c \in 1..(mark + 1)
    <2>1. c \in DOMAIN hist /\ mark + 1 \in DOMAIN hist
        BY <1>5
    <2>2. hist[c].log \in Nat /\ hist[mark + 1].log \in Nat /\ hist[c].len <= Len(slab)
        BY <2>1, HistFacts
    <2>3. c = mark + 1 \/ c < mark + 1
        BY <1>5
    <2>4. c = mark + 1 \/ hist[c].log < hist[mark + 1].log
        BY <2>1, <2>3 DEF CommInv, HistInv
    <2> QED
        BY <2>2, <2>4, <1>9, <1>2, Numbers
<1>11. HistInv'
    <2>1. (Len(hist) = mark + 1 /\ mark <= MaxCommit)'
        BY <1>1, <1>5, <1>6, <1>9, Numbers
    <2>2. 1 \in 1..(mark + 1)
        BY <1>5
    <2>3. (hist[1].log = 0 /\ \A k \in Keys : hist[1].vals[k] = Base(k))'
        BY <1>6, <2>2 DEF CommInv, HistInv, Base
    <2>4. Indexed = Len(slab) /\ Indexed' = Len(slab)
        BY <1>0 DEF Indexed, Under
    <2>5. ASSUME NEW c \in 1..(mark + 2)
          PROVE  /\ hist'[c].log <= Len(log) /\ hist'[c].len <= Len(slab) /\ hist'[c].wm <= tail
                 /\ \A e \in 1..hist'[c].len : \E l \in 1..hist'[c].log : log[l] = e
                 /\ \A l \in 1..hist'[c].log : log[l] <= hist'[c].len
        <3>1. CASE c \in 1..(mark + 1)
            BY <3>1, <1>5, <1>6, <2>4 DEF CommInv, HistInv
        <3>2. CASE c = mark + 2
            <4>1. hist'[c].log = Len(log) /\ hist'[c].len = Len(slab) /\ hist'[c].wm = tail
                BY <3>2, <1>4, <1>6
            <4>2. \A e \in 1..Len(slab) : \E l \in 1..Len(log) : log[l] = e
                BY <1>0, <1>2 DEF TabInv, EntryInv
            <4>3. \A l \in 1..Len(log) : log[l] <= Len(slab)
                BY <1>0, <1>2 DEF TabInv, TableInv
            <4> QED
                BY <4>1, <4>2, <4>3, <1>2, Numbers
        <3> QED
            BY <3>1, <3>2, <1>7
    <2>6. ASSUME NEW c \in 1..(mark + 2), NEW d \in 1..(mark + 2), c < d
          PROVE  hist'[c].log < hist'[d].log /\ hist'[c].len <= hist'[d].len
        <3>1. c \in 1..(mark + 1)
            BY <2>6, <1>5
        <3>2. CASE d \in 1..(mark + 1)
            BY <3>1, <3>2, <2>6, <1>5, <1>6 DEF CommInv, HistInv
        <3>3. CASE d = mark + 2
            BY <3>1, <3>3, <1>4, <1>6, <1>10
        <3> QED
            BY <3>2, <3>3, <1>7
    <2> QED
        BY <2>1, <2>3, <2>4, <2>5, <2>6, <1>0, <1>6 DEF HistInv
<1>12. ValuesInv'
    <2>1. \A k \in Keys : \A w : Values(k, w)' = Values(k, w)
        BY <1>0, ValuesSame
    <2>2. \A k, n, m : Between(n, m, k)' <=> Between(n, m, k)
        BY <1>0 DEF Between
    <2>3. \A k : ~Writing(k) /\ ~Writing(k)'
        BY <1>0 DEF Writing
    <2>4. ASSUME NEW c \in 1..(mark + 2), NEW k \in Keys
          PROVE  /\ hist'[c].vals[k] = Values(k, hist'[c].wm)
                 /\ (\A e \in 1..hist'[c].len : slab[e] # k) => hist'[c].vals[k] = Base(k)
                 /\ ~Between(hist'[c].log, Len(log), k) => hist'[c].vals[k] = Values(k, tail)
                 /\ \A d \in 1..(mark + 2) : c <= d /\ ~Between(hist'[c].log, hist'[d].log, k) =>
                       hist'[c].vals[k] = hist'[d].vals[k]
        <3>1. CASE c \in 1..(mark + 1)
            <4>1. hist'[c] = hist[c] /\ c \in DOMAIN hist
                BY <3>1, <1>5, <1>6
            <4>2. /\ hist[c].vals[k] = Values(k, hist[c].wm)
                  /\ (\A e \in 1..hist[c].len : slab[e] # k) => hist[c].vals[k] = Base(k)
                  /\ ~Between(hist[c].log, Len(log), k) => hist[c].vals[k] = Values(k, tail)
                  /\ \A d \in DOMAIN hist : c <= d /\ ~Between(hist[c].log, hist[d].log, k) =>
                        hist[c].vals[k] = hist[d].vals[k]
                BY <4>1, <2>3, <2>4 DEF CommInv, ValuesInv
            <4>3. ASSUME NEW d \in 1..(mark + 2), c <= d, ~Between(hist'[c].log, hist'[d].log, k)
                  PROVE  hist'[c].vals[k] = hist'[d].vals[k]
                <5>1. CASE d \in 1..(mark + 1)
                    BY <5>1, <4>1, <4>2, <4>3, <1>5, <1>6
                <5>2. CASE d = mark + 2
                    BY <5>2, <4>1, <4>2, <4>3, <1>4, <1>6
                <5> QED
                    BY <5>1, <5>2, <1>7
            <4> QED
                BY <4>1, <4>2, <4>3
        <3>2. CASE c = mark + 2
            <4>1. hist'[c].log = Len(log) /\ hist'[c].len = Len(slab) /\ hist'[c].wm = tail /\ hist'[c].vals[k] = Values(k, tail)
                BY <3>2, <1>4, <1>6
            <4>2. (\A e \in 1..Len(slab) : slab[e] # k) => Values(k, tail) = Base(k)
                <5> SUFFICES ASSUME \A e \in 1..Len(slab) : slab[e] # k PROVE Values(k, tail) = Base(k)
                    OBVIOUS
                <5>1. k \notin Range(slab)
                    BY <1>2 DEF Range
                <5>2. chain[k] = <<>>
                    BY <5>1, <1>0 DEF TabInv, TableInv
                <5> QED
                    BY <5>2, ValuesNone
            <4>3. \A d \in 1..(mark + 2) : c <= d => d = c
                BY <3>2, <1>5
            <4> QED
                BY <4>1, <4>2, <4>3
        <3> QED
            BY <3>1, <3>2, <1>7
    <2>5. ASSUME NEW c \in DOMAIN hist', NEW k \in Keys
          PROVE  /\ hist'[c].vals[k] = Values(k, hist[c].wm)'
                 /\ (\A e \in 1..hist'[c].len : slab'[e] # k) => hist'[c].vals[k] = Base(k)
                 /\ ~Between(hist[c].log, Len(log), k)' /\ ~Writing(k)' => hist'[c].vals[k] = Values(k, tail)'
                 /\ \A d \in DOMAIN hist' : c <= d /\ ~Between(hist[c].log, hist[d].log, k)' =>
                       hist'[c].vals[k] = hist'[d].vals[k]
        BY <2>1, <2>2, <2>4, <2>5, <1>0, <1>6
    <2> QED
        BY <2>5 DEF ValuesInv, Base
<1>13. MarkInv'
    <2>1. marks[Marked(mark + 1)]["log"] = Len(log) /\ marks[Marked(mark + 1)]["len"] = Len(slab)
          /\ marks[Marked(mark + 1)]["wm"] = tail
        BY <1>1 DEF CommInv, MarkInv
    <2>2. hist'[mark' + 1] = new
        BY <1>1, <1>5, <1>6
    <2>3. \A w \in Words : marks[Marked(mark + 1)][w] = new[w]
        BY <2>1, <1>4 DEF Words
    <2> QED
        BY <1>1, <2>2, <2>3 DEF MarkInv, Marked
<1> QED
    BY <1>0, <1>8, <1>11, <1>12, <1>13 DEF CommInv

\* A word stored goes into the mark that is not named.
LEMMA MarkStores ==
    ASSUME CommInv, CommitStore
    PROVE  CommInv'
<1>0. TabInv /\ TabInv' /\ UNCHANGED <<slab, chain, tail, log>> /\ ~Under /\ ~Under'
    BY TableCommits DEF CommInv
<1>1. /\ wr.pc \in {"idle", "len", "wm"} /\ mark < MaxCommit /\ Len(log) > hist[mark + 1].log
      /\ mark' = mark /\ hist' = hist
      /\ marks' = [marks EXCEPT ![Marked(mark + 1)][CommitWord(wr.pc)[1]] = CommitWord(wr.pc)[2]]
      /\ wr' = [pc |-> CommitWord(wr.pc)[3], id |-> 0]
    BY DEF CommitStore
<1> DEFINE i == Marked(mark + 1)
<1>2. mark \in Nat /\ marks \in [0..1 -> CommitSet] /\ i \in 0..1 /\ Marked(mark) \in 0..1 /\ i # Marked(mark)
    BY Marking DEF CommInv, CommitType
<1>3. Len(log) \in 0..MaxChunk /\ Len(slab) \in 0..MaxChunk /\ tail \in 0..Unbounded
    BY <1>0, Lengths, Numbers DEF TabInv
<1>4. [Next]_vars
    BY DEF Next
<1>5. HistInv' /\ ValuesInv'
    BY <1>1, <1>4, HistStands
<1>6. marks' \in [0..1 -> CommitSet] /\ marks'[Marked(mark)] = marks[Marked(mark)]
      /\ (wr.pc = "idle" => wr'.pc = "len" /\ marks'[i]["log"] = Len(log))
      /\ (wr.pc = "len" => wr'.pc = "wm" /\ marks'[i]["log"] = marks[i]["log"] /\ marks'[i]["len"] = Len(slab))
      /\ (wr.pc = "wm" => wr'.pc = "mark" /\ marks'[i]["log"] = marks[i]["log"]
                          /\ marks'[i]["len"] = marks[i]["len"] /\ marks'[i]["wm"] = tail)
    <2> HIDE DEF i
    <2>0. marks[i] \in CommitSet
        BY <1>2
    <2>1. CASE wr.pc = "idle"
        <3>1. marks' = [marks EXCEPT ![i] = [marks[i] EXCEPT !["log"] = Len(log)]] /\ wr'.pc = "len"
            BY <2>1, <1>1 DEF CommitWord, i
        <3>2. [marks[i] EXCEPT !["log"] = Len(log)] \in CommitSet /\ [marks[i] EXCEPT !["log"] = Len(log)]["log"] = Len(log)
            BY <2>0, <1>3 DEF CommitSet
        <3> QED
            BY <2>1, <3>1, <3>2, <1>2
    <2>2. CASE wr.pc = "len"
        <3>1. marks' = [marks EXCEPT ![i] = [marks[i] EXCEPT !["len"] = Len(slab)]] /\ wr'.pc = "wm"
            BY <2>2, <1>1 DEF CommitWord, i
        <3> DEFINE m == [marks[i] EXCEPT !["len"] = Len(slab)]
        <3>2. m \in CommitSet /\ m["len"] = Len(slab) /\ m["log"] = marks[i]["log"]
            BY <2>0, <1>3 DEF CommitSet
        <3> HIDE DEF m
        <3>3. marks' = [marks EXCEPT ![i] = m]
            BY <3>1 DEF m
        <3> QED
            BY <2>2, <3>1, <3>2, <3>3, <1>2
    <2>3. CASE wr.pc = "wm"
        <3>1. marks' = [marks EXCEPT ![i] = [marks[i] EXCEPT !["wm"] = tail]] /\ wr'.pc = "mark"
            BY <2>3, <1>1 DEF CommitWord, i
        <3> DEFINE m == [marks[i] EXCEPT !["wm"] = tail]
        <3>2. m \in CommitSet /\ m["wm"] = tail /\ m["log"] = marks[i]["log"] /\ m["len"] = marks[i]["len"]
            BY <2>0, <1>3 DEF CommitSet
        <3> HIDE DEF m
        <3>3. marks' = [marks EXCEPT ![i] = m]
            BY <3>1 DEF m
        <3> QED
            BY <2>3, <3>1, <3>2, <3>3, <1>2
    <2> QED
        BY <2>1, <2>2, <2>3, <1>1
<1>7. CommitType'
    BY <1>1, <1>6 DEF CommInv, CommitType
<1>8. MarkInv'
    <2>0. Marked(mark)' = Marked(mark) /\ Marked(mark + 1)' = i
        BY <1>1 DEF Marked
    <2> HIDE DEF i
    <2>1. \A w \in Words : marks'[Marked(mark)][w] = hist[mark + 1][w]
        BY <1>6 DEF CommInv, MarkInv
    <2>2. /\ marks'[i]["log"] = Len(log)
          /\ wr'.pc \in {"wm", "mark"} => marks'[i]["len"] = Len(slab)
          /\ wr'.pc = "mark" => marks'[i]["wm"] = tail
        BY <1>1, <1>6 DEF CommInv, MarkInv, i
    <2> QED
        BY <2>0, <2>1, <2>2, <1>0, <1>1 DEF MarkInv
<1> QED
    BY <1>0, <1>5, <1>7, <1>8 DEF CommInv

LEMMA CommNext ==
    ASSUME CommInv, [Next]_vars
    PROVE  CommInv'
<1>1. CASE UNCHANGED <<mark, marks, hist>> /\ (UNCHANGED table \/ wr'.pc \notin {"len", "wm", "mark"})
    <2>1. TabInv' /\ HistInv' /\ ValuesInv'
        BY <1>1, TableNext, HistStands DEF CommInv
    <2>2. CommitType'
        BY <1>1 DEF CommInv, CommitType
    <2>3. MarkInv'
        BY <1>1 DEF CommInv, MarkInv, Marked, table
    <2> QED
        BY <2>1, <2>2, <2>3 DEF CommInv
<1>2. ASSUME NEW q \in Keys, NEW w \in Kinds, Link(q, w) \/ Create(q, w) PROVE CommInv'
    BY <1>1, <1>2 DEF Link, Create, commits
<1>3. CASE PutHead \/ IndexInsert \/ LogWrite
    <2>1. wr'.pc \notin {"len", "wm", "mark"}
        BY <1>3 DEF PutHead, IndexInsert, LogWrite, Resting, CommInv, TabInv, TableType
    <2> QED
        BY <1>1, <1>3, <2>1 DEF PutHead, IndexInsert, LogWrite, commits
<1>4. CASE UNCHANGED <<table, commits>> \/ Turns
    BY <1>1, <1>4 DEF commits, Turns
<1> QED
    BY <1>2, <1>3, <1>4, MarkStores, HistCommits, WriterSteps
-----------------------------------------------------------------------------
(* The types of the blocks.                                                   *)

BlockInv == BlockType /\ BlockPoint

\* A look ends no further than the log or than it was.
LEMMA LookEnd ==
    ASSUME TabInv, BlockInv, NEW b \in BoundSet, NEW n \in up.fs.seen..Max({up.fs.seen, LogEnd(b)})
    PROVE  /\ n \in 0..MaxChunk /\ n \in Nat /\ up.fs.seen \in 0..MaxChunk /\ n >= up.fs.seen
           /\ n <= up.fs.seen \/ (n <= LogEnd(b) /\ LogEnd(b) <= Len(log))
<1>1. up.fs.seen \in 0..MaxChunk
    BY DEF BlockInv, BlockType, UpSet, FormsStates
<1>2. LogEnd(b) \in 0..Len(log) /\ Len(log) \in 0..MaxChunk
    BY Ends, Lengths DEF TabInv
<1>3. Max({up.fs.seen, LogEnd(b)}) = IF up.fs.seen >= LogEnd(b) THEN up.fs.seen ELSE LogEnd(b)
    BY <1>1, <1>2, Numbers, MaxTwo
<1> QED
    BY ONLY <1>1, <1>2, <1>3, Numbers, n \in up.fs.seen..Max({up.fs.seen, LogEnd(b)})

LEMMA StatesPut ==
    ASSUME BlockInv, NEW g \in 1..Len(states), NEW s \in StateSet, states' = [states EXCEPT ![g] = s]
    PROVE  states' \in Seq(StateSet) /\ Len(states') = Len(states)
BY ExceptSeq DEF BlockInv, BlockType

LEMMA StateIn ==
    ASSUME BlockInv, NEW g \in 1..Len(states)
    PROVE  states[g] \in StateSet /\ g \in 1..MaxGen /\ Len(states) \in Nat
BY Numbers DEF BlockInv, BlockType, BlockPoint

LEMMA PassIn ==
    ASSUME BlockInv
    PROVE  /\ pass.pc # "idle" => pass.g \in 1..Len(states)
           /\ pass.b \in CommitSet /\ pass.b \in BoundSet /\ pass.b.wm \in Nat /\ pass.b.log \in 0..MaxChunk
           /\ pass.b.len \in 0..MaxChunk /\ up \in UpSet /\ up.fs \in FormsStates /\ pass \in PassSet
           /\ Len(states) \in 1..Len(states)
<1>1. pass \in PassSet /\ Len(states) \in Nat /\ up \in UpSet
    BY DEF BlockInv, BlockType
<1>2. pass.b \in CommitSet /\ up.fs \in FormsStates
    BY <1>1 DEF PassSet, UpSet
<1>3. pass.b.wm \in Nat /\ pass.b.log \in 0..MaxChunk /\ pass.b.len \in 0..MaxChunk
    BY <1>2, Numbers DEF CommitSet
<1>4. pass.g \in Nat
    BY <1>1 DEF PassSet
<1>5. pass.g <= Len(states) /\ (pass.pc # "idle" => pass.g >= 1) /\ Len(states) >= 1
    BY DEF BlockInv, BlockPoint
<1>6. pass.pc # "idle" => pass.g \in 1..Len(states)
    BY ONLY <1>1, <1>4, <1>5
<1> QED
    BY <1>1, <1>2, <1>3, <1>5, <1>6, CommitIsBound

LEMMA BlockPassBegin ==
    ASSUME BlockInv, PassBegin
    PROVE  BlockInv'
<1>1. PICK b \in up.posted : pass' = [pc |-> "look", g |-> Len(states), b |-> b, short |-> FALSE]
    BY DEF PassBegin
<1>2. up' = [up EXCEPT !.posted = {}] /\ states' = states /\ land' = land
    BY DEF PassBegin
<1>3. b \in CommitSet /\ Len(states) \in Nat
    BY <1>1 DEF BlockInv, BlockType, UpSet
<1>4. pass' \in PassSet /\ pass'.g = Len(states)
    BY <1>1, <1>3 DEF PassSet
<1>5. up' \in UpSet /\ up'.posted = {}
    BY <1>2 DEF BlockInv, BlockType, UpSet
<1> QED
    BY <1>2, <1>3, <1>4, <1>5 DEF BlockInv, BlockType, BlockPoint

\* What a look at the log does, with what it lost and what it dropped.
Looks(lost, n, drop) ==
    /\ drop \subseteq {k \in ReadOf(Rebased(up, pass.g, lost).fs, n) :
                           Rebased(up, pass.g, lost).fs.own[k] # NoForm}
    /\ n < LogEnd(pass.b) => ~Claimed
    /\ up' = Filed(Rebased(up, pass.g, lost), n, pass.b.wm, drop)
    /\ states' = [states EXCEPT ![pass.g] = Marks(states[pass.g], drop \cup Orphans(up, pass.g, lost))]
    /\ pass' = [pass EXCEPT !.pc = "snap", !.short = n < LogEnd(pass.b)]
LEMMA LookIs ==
    ASSUME PassLook
    PROVE  /\ pass.pc = "look" /\ UNCHANGED <<table, commits, land, hd>>
           /\ \E lost \in Losses(up, pass.g) :
              \E n \in up.fs.seen..Max({up.fs.seen, LogEnd(pass.b)}) :
              \E drop : Looks(lost, n, drop)
<1>1. PICK lost \in Losses(up, pass.g) :
      \E n \in up.fs.seen..Max({up.fs.seen, LogEnd(pass.b)}) :
      \E drop \in SUBSET {k \in ReadOf(Rebased(up, pass.g, lost).fs, n) :
                              Rebased(up, pass.g, lost).fs.own[k] # NoForm} :
           /\ n < LogEnd(pass.b) => ~Claimed
           /\ up' = Filed(Rebased(up, pass.g, lost), n, pass.b.wm, drop)
           /\ states' = [states EXCEPT ![pass.g] = Marks(states[pass.g], drop \cup Orphans(up, pass.g, lost))]
           /\ pass' = [pass EXCEPT !.pc = "snap", !.short = n < LogEnd(pass.b)]
    BY Zenon DEF PassLook
<1>2. \E n \in up.fs.seen..Max({up.fs.seen, LogEnd(pass.b)}) : \E drop : Looks(lost, n, drop)
    BY <1>1, Zenon DEF Looks
<1> QED
    BY <1>2, Zenon DEF PassLook

LEMMA BlockPassLook ==
    ASSUME TabInv, BlockInv, PassLook
    PROVE  BlockInv'
<1>1. PICK lost \in Losses(up, pass.g) :
      \E n \in up.fs.seen..Max({up.fs.seen, LogEnd(pass.b)}) : \E drop : Looks(lost, n, drop)
    BY LookIs
<1>2. PICK n \in up.fs.seen..Max({up.fs.seen, LogEnd(pass.b)}) : \E drop : Looks(lost, n, drop)
    BY <1>1, Zenon
<1>0. PICK drop : Looks(lost, n, drop)
    BY <1>2, Zenon
<1> DEFINE u == Rebased(up, pass.g, lost)
<1>3. pass.pc = "look" /\ land' = land
    BY LookIs
<1>4. pass.g \in 1..Len(states) /\ pass.b \in BoundSet /\ pass.b.wm \in Nat /\ up \in UpSet /\ pass \in PassSet
    BY <1>3, PassIn
<1>5. pass.g \in 1..MaxGen /\ states[pass.g] \in StateSet
    BY <1>4, StateIn
<1>6. n \in 0..MaxChunk /\ (n <= up.fs.seen \/ n <= Len(log))
    <2>1. /\ n \in 0..MaxChunk /\ n \in Nat
          /\ n <= up.fs.seen \/ (n <= LogEnd(pass.b) /\ LogEnd(pass.b) <= Len(log))
        BY <1>4, LookEnd
    <2>2. LogEnd(pass.b) \in 0..Len(log) /\ Len(log) \in Nat
        BY <1>4, Ends, Lengths DEF TabInv, TableType
    <2> QED
        BY <2>1, <2>2
<1>7. u \in UpSet /\ u.fs.seen = up.fs.seen /\ u.posted = up.posted
    BY <1>4, <1>5, LossesAre, RebasedIs
<1>71. /\ up' = Filed(u, n, pass.b.wm, drop)
       /\ states' = [states EXCEPT ![pass.g] = Marks(states[pass.g], drop \cup Orphans(up, pass.g, lost))]
       /\ pass' = [pass EXCEPT !.pc = "snap", !.short = n < LogEnd(pass.b)]
    BY <1>0, Zenon DEF Looks
<1> HIDE DEF u
<1>8. Filed(u, n, pass.b.wm, drop) \in UpSet /\ Filed(u, n, pass.b.wm, drop).posted = u.posted
    BY <1>4, <1>6, <1>7, FiledType DEF TabInv
<1>9. up' \in UpSet /\ up'.posted = up.posted
    BY <1>71, <1>7, <1>8, Zenon
<1>10. states' \in Seq(StateSet) /\ Len(states') = Len(states)
    BY <1>71, <1>4, <1>5, MarksType, StatesPut
<1>11. (n < LogEnd(pass.b)) \in BOOLEAN
    OBVIOUS
<1>12. pass' \in PassSet /\ pass'.g = pass.g
    BY <1>71, <1>4, <1>11 DEF PassSet
<1> QED
    BY <1>3, <1>4, <1>8, <1>9, <1>10, <1>12 DEF BlockInv, BlockType, BlockPoint

LEMMA IdleIn ==
    Idle \in PassSet /\ Idle.pc = "idle" /\ Idle.g = 0
<1>1. Bounds0 \in CommitSet
    BY Numbers DEF Bounds0, CommitSet
<1> QED
    BY <1>1 DEF Idle, PassSet

\* A pass that ends, or goes on where it is.
LEMMA PassGoes ==
    ASSUME BlockInv, pass.pc # "idle",
           NEW pc \in {"idle", "look", "snap", "fill", "publish", "at"},
           pass' = Idle \/ pass' = [pass EXCEPT !.pc = pc]
    PROVE  pass' \in PassSet /\ pass'.g <= Len(states) /\ (pass'.pc # "idle" => pass'.g >= 1)
<1>1. Len(states) \in Nat /\ Len(states) >= 1
    BY DEF BlockInv, BlockType, BlockPoint
<1>2. pass.g \in 1..Len(states) /\ pass \in PassSet
    BY PassIn
<1>3. CASE pass' = Idle
    BY <1>1, <1>3, IdleIn
<1>4. CASE pass' = [pass EXCEPT !.pc = pc]
    BY <1>1, <1>2, <1>4 DEF PassSet
<1> QED
    BY <1>3, <1>4

LEMMA BlockPassSnap ==
    ASSUME TabInv, BlockInv, PassSnap
    PROVE  BlockInv'
<1>1. /\ pass.pc = "snap" /\ land' = land
      /\ pass' = Idle \/ \E pc \in {"fill", "publish"} : pass' = [pass EXCEPT !.pc = pc]
    BY DEF PassSnap, PassEnds
<1>2. pass.g \in 1..Len(states) /\ pass.b \in BoundSet /\ up \in UpSet /\ up.fs \in FormsStates /\ pass \in PassSet
    BY <1>1, PassIn
<1>3. MemLen(pass.b) \in 0..MaxChunk
    BY <1>2, Ends, Lengths, Numbers DEF TabInv
<1>4. states[pass.g] \in StateSet /\ states[pass.g].snap \in NoSnap..MaxChunk
    BY <1>2, StateIn DEF StateSet
<1>5. pass' \in PassSet /\ pass'.g <= Len(states) /\ (pass'.pc # "idle" => pass'.g >= 1)
    BY <1>1, PassGoes
<1>6. CASE up' = up /\ states' = states
    BY <1>1, <1>2, <1>5, <1>6 DEF BlockInv, BlockType, BlockPoint
<1>7. CASE /\ up' = [up EXCEPT !.fs = Refreshed(up.fs, states[pass.g].snap, MemLen(pass.b))]
           /\ states' = [states EXCEPT ![pass.g].snap = Offered(up.fs, states[pass.g].snap, MemLen(pass.b))]
    <2>1. Refreshed(up.fs, states[pass.g].snap, MemLen(pass.b)) \in FormsStates
        BY <1>2, <1>3, RefreshedType
    <2>2. up' \in UpSet /\ up'.posted = up.posted
        BY <1>7, <1>2, <2>1 DEF UpSet
    <2>3. Offered(up.fs, states[pass.g].snap, MemLen(pass.b)) \in NoSnap..MaxChunk
        BY <1>3, <1>4, OfferedType
    <2> DEFINE s == [states[pass.g] EXCEPT !.snap = Offered(up.fs, states[pass.g].snap, MemLen(pass.b))]
    <2>4. s \in StateSet
        BY <1>4, <2>3 DEF StateSet
    <2>5. states' = [states EXCEPT ![pass.g] = s]
        BY <1>7
    <2> HIDE DEF s
    <2>6. states' \in Seq(StateSet) /\ Len(states') = Len(states)
        BY <1>2, <2>4, <2>5, StatesPut
    <2> QED
        BY <1>1, <1>2, <1>5, <2>2, <2>6 DEF BlockInv, BlockType, BlockPoint
<1> QED
    BY <1>6, <1>7 DEF PassSnap

\* A fill, with the blocks it built, and whether it went to its end.
FilledOwn(built) ==
    [k \in Keys |-> IF k \in built THEN Built(up.fs, k, pass.b.wm) ELSE up.fs.own[k]]
FilledFs(built) == [up.fs EXCEPT !.own = FilledOwn(built)]
Fills(built, whole) ==
    /\ built \subseteq Needed /\ (whole => built = Needed /\ ~pass.short)
    /\ up'.fs = FilledFs(built) /\ up'.dirty = up.dirty \cup built
    /\ up'.complete = (up.complete \/ whole)
    /\ up'.gone = (up.gone /\ built = {} /\ ~whole)
    /\ up'.posted = up.posted \/ (up'.posted = {pass.b} /\ up.posted = {} /\ pass' = Idle)
    /\ pass' = Idle \/ (pass' = [pass EXCEPT !.pc = "publish"] /\ ~pass.short)
LEMMA FillIs ==
    ASSUME TabInv, BlockInv, PassFill
    PROVE  /\ pass.pc = "fill" /\ UNCHANGED <<table, commits, states, land, hd>>
           /\ up' \in UpSet
           /\ \E built \in SUBSET Keys, whole \in BOOLEAN : Fills(built, whole)
<1>1. PICK built \in SUBSET Needed, whole \in BOOLEAN, cut \in BOOLEAN, none \in BOOLEAN :
         Fill(built, whole, cut, none)
    BY Zenon DEF PassFill
<1>2. /\ built \subseteq Needed /\ (whole => built = Needed /\ ~pass.short)
      /\ up' = [up EXCEPT
             !.fs.own = FilledOwn(built), !.dirty = up.dirty \cup built,
             !.complete = up.complete \/ whole,
             !.gone = up.gone /\ built = {} /\ ~whole,
             !.posted = IF (pass.short \/ cut) /\ up.posted = {} THEN {pass.b} ELSE up.posted]
      /\ pass' = IF pass.short \/ cut \/ none THEN Idle
                 ELSE [pass EXCEPT !.pc = "publish"]
    BY <1>1, Zenon DEF Fill, FilledOwn
<1>3. pass.pc = "fill" /\ UNCHANGED <<table, commits, states, land, hd>>
    BY Zenon DEF PassFill
<1>4. /\ pass.b \in CommitSet /\ pass.b.wm \in Nat /\ up \in UpSet /\ up.fs \in FormsStates
    BY PassIn
<1> DEFINE d == up.dirty \cup built
           c == up.complete \/ whole
           o == up.gone /\ built = {} /\ ~whole
           p == IF (pass.short \/ cut) /\ up.posted = {} THEN {pass.b} ELSE up.posted
<1>5. FilledOwn(built) \in [Keys -> Forms \cup {NoForm}]
    BY <1>4, BuiltType DEF FormsStates, TabInv, FilledOwn
<1>6. FilledFs(built) \in FormsStates
    BY <1>4, <1>5 DEF FormsStates, FilledFs
<1>7. d \in SUBSET Keys
    BY <1>4 DEF UpSet, Needed
<1>8. c \in BOOLEAN /\ o \in BOOLEAN
    BY Zenon
<1>9. p \in SUBSET CommitSet
    BY <1>4 DEF UpSet
<1>10. up' = [up EXCEPT !.fs = FilledFs(built), !.dirty = d, !.complete = c, !.gone = o, !.posted = p]
    BY <1>2 DEF FilledFs
<1>11. p = up.posted \/ (p = {pass.b} /\ up.posted = {} /\ pass' = Idle)
    BY <1>2
<1> HIDE DEF d, c, o, p
<1>12. /\ up' \in UpSet /\ up'.fs = FilledFs(built) /\ up'.dirty = d /\ up'.complete = c
       /\ up'.gone = o /\ up'.posted = p
    BY <1>4, <1>6, <1>7, <1>8, <1>9, <1>10 DEF UpSet
<1>13. pass' = Idle \/ (pass' = [pass EXCEPT !.pc = "publish"] /\ ~pass.short)
    BY <1>2
<1>14. Fills(built, whole) /\ built \in SUBSET Keys
    BY <1>1, <1>2, <1>11, <1>12, <1>13 DEF Fills, d, c, o, Needed
<1> QED
    BY <1>3, <1>12, <1>14

LEMMA BlockPassFill ==
    ASSUME TabInv, BlockInv, PassFill
    PROVE  BlockInv'
<1>1. PICK built \in SUBSET Keys, whole \in BOOLEAN : Fills(built, whole)
    BY FillIs
<1>2. pass.pc = "fill" /\ states' = states /\ land' = land /\ up' \in UpSet
    BY FillIs
<1>3. pass' = Idle \/ pass' = [pass EXCEPT !.pc = "publish"]
    BY <1>1 DEF Fills
<1>4. pass' \in PassSet /\ pass'.g <= Len(states) /\ (pass'.pc # "idle" => pass'.g >= 1)
    BY <1>2, <1>3, PassGoes
<1>5. \A a, b \in up'.posted : a = b
    BY <1>1 DEF Fills, BlockInv, BlockPoint
<1> QED
    BY <1>2, <1>4, <1>5 DEF BlockInv, BlockType, BlockPoint

LEMMA BlockPassPublish ==
    ASSUME TabInv, BlockInv, PassPublish
    PROVE  BlockInv'
<1> DEFINE k == Min(up.dirty)
           f == IF up.fs.own[k] = NoForm THEN Mark
                ELSE [at |-> pass.b.log, ver |-> up.fs.own[k].ver, vals |-> up.fs.own[k].vals]
           s == [states[pass.g] EXCEPT !.forms[k] = f]
<1>1. /\ pass.pc = "publish" /\ up.dirty # {} /\ land' = land /\ pass' = pass
      /\ states' = [states EXCEPT ![pass.g].forms[k] = f] /\ up' = [up EXCEPT !.dirty = up.dirty \ {k}]
    BY Zenon DEF PassPublish
<1>2. /\ pass.g \in 1..Len(states) /\ pass.b.log \in 0..MaxChunk /\ up \in UpSet /\ up.fs \in FormsStates
    BY <1>1, PassIn
<1>3. k \in Keys
    <2>1. up.dirty \subseteq Keys /\ Keys \subseteq Nat
        BY <1>2, Numbers DEF UpSet, Keys
    <2> QED
        BY <1>1, <2>1, MinIn
<1>4. up.dirty \ {k} \in SUBSET Keys
    BY <1>2 DEF UpSet
<1> HIDE DEF k
<1>5. f \in Published \cup {NoForm}
    <2>1. CASE up.fs.own[k] = NoForm
        BY <2>1, MarkType
    <2>2. CASE up.fs.own[k] # NoForm
        <3>1. up.fs.own[k] \in Forms
            BY <1>2, <1>3, <2>2 DEF FormsStates
        <3>2. up.fs.own[k].ver \in -1..MaxChunk /\ up.fs.own[k].vals \in Vals
            BY <3>1, Numbers DEF Forms, Vals
        <3> QED
            BY <1>2, <2>2, <3>2 DEF Published, Vals
    <2> QED
        BY <2>1, <2>2
<1>6. up' \in UpSet /\ up'.posted = up.posted
    BY <1>1, <1>2, <1>4 DEF UpSet
<1> HIDE DEF f
<1>7. states[pass.g] \in StateSet
    BY <1>2, StateIn
<1>8. s \in StateSet
    BY <1>3, <1>5, <1>7 DEF StateSet
<1>9. states' = [states EXCEPT ![pass.g] = s]
    BY <1>1
<1> HIDE DEF s
<1>10. states' \in Seq(StateSet) /\ Len(states') = Len(states)
    BY <1>2, <1>8, <1>9, StatesPut
<1> QED
    BY <1>1, <1>6, <1>10 DEF BlockInv, BlockType, BlockPoint

LEMMA BlockPassTell ==
    ASSUME BlockInv, PassComplete \/ PassAt
    PROVE  BlockInv'
<1>1. pass.pc # "idle" /\ up' = up /\ land' = land
    BY DEF PassComplete, PassAt
<1>2. pass.g \in 1..Len(states) /\ pass.b.log \in 0..MaxChunk /\ up \in UpSet /\ pass \in PassSet
    BY <1>1, PassIn
<1>3. states[pass.g] \in StateSet
    BY <1>2, StateIn
<1>4. pass.b.log \in 0..Unbounded /\ up.complete \in BOOLEAN
    BY <1>2, Numbers DEF UpSet
<1>5. [states[pass.g] EXCEPT !["complete"] = up.complete] \in StateSet
    BY <1>3, <1>4 DEF StateSet
<1>6. [states[pass.g] EXCEPT !["at"] = pass.b.log] \in StateSet
    BY <1>3, <1>4 DEF StateSet
<1>7. \E s \in StateSet : states' = [states EXCEPT ![pass.g] = s]
    <2>1. CASE PassComplete
        <3>1. states' = [states EXCEPT ![pass.g] = [states[pass.g] EXCEPT !["complete"] = up.complete]]
            BY <2>1 DEF PassComplete, PassOrder, Told
        <3> QED
            BY <3>1, <1>5, Zenon
    <2>2. CASE PassAt
        <3>1. states' = [states EXCEPT ![pass.g] = [states[pass.g] EXCEPT !["at"] = pass.b.log]]
            BY <2>2 DEF PassAt, PassOrder, Told
        <3> QED
            BY <3>1, <1>6, Zenon
    <2> QED
        BY <2>1, <2>2
<1>8. states' \in Seq(StateSet) /\ Len(states') = Len(states)
    BY <1>2, <1>7, StatesPut
<1>9. pass' = Idle \/ pass' = [pass EXCEPT !.pc = "at"]
    BY DEF PassComplete, PassAt, PassEnds
<1>10. pass' \in PassSet /\ pass'.g <= Len(states) /\ (pass'.pc # "idle" => pass'.g >= 1)
    BY <1>1, <1>9, PassGoes
<1> QED
    BY <1>1, <1>2, <1>8, <1>10 DEF BlockInv, BlockType, BlockPoint

LEMMA NoBounds ==
    [log |-> Unbounded, len |-> Unbounded, wm |-> SeeAll] \in BoundSet /\ SeeAll \in Nat
BY Numbers DEF BoundSet

\* A scan through the writer, with what it lost and what it walked.
NoBound == [log |-> Unbounded, len |-> Unbounded, wm |-> SeeAll]
WalkedUp(lost) == Filed(Rebased(up, Len(states), lost), Max({up.fs.seen, LogEnd(NoBound)}), SeeAll, {})
WalkedFs(lost, sw) ==
    IF sw THEN Refreshed(WalkedUp(lost).fs, states[Len(states)].snap, MemLen(NoBound))
    ELSE WalkedUp(lost).fs
WalkedNeed(lost, sw, walked) == {k \in walked : WalkedFs(lost, sw).own[k] = NoForm}
WalkedOwn(lost, sw, walked) ==
    [k \in Keys |-> IF k \in WalkedNeed(lost, sw, walked)
                    THEN Built(WalkedFs(lost, sw), k, SeeAll) ELSE WalkedFs(lost, sw).own[k]]
WalkedState(lost, sw) ==
    Marks(IF sw THEN [states[Len(states)] EXCEPT
                        !.snap = Offered(WalkedUp(lost).fs, states[Len(states)].snap, MemLen(NoBound))]
          ELSE states[Len(states)], Orphans(up, Len(states), lost))
Walks(lost, sw, walked) ==
    /\ walked \subseteq Keys
    /\ MayRefresh(WalkedUp(lost).fs, sw) \/ (walked = {} /\ ~sw)
    /\ up' = [fs |-> [WalkedFs(lost, sw) EXCEPT !.own = WalkedOwn(lost, sw, walked)],
              dirty |-> WalkedUp(lost).dirty \cup WalkedNeed(lost, sw, walked),
              complete |-> WalkedUp(lost).complete,
              gone |-> WalkedUp(lost).gone /\ walked = {}, posted |-> {}]
    /\ states' = [states EXCEPT ![Len(states)] = WalkedState(lost, sw)]
LEMMA WriterScanIs ==
    ASSUME WriterScan
    PROVE  /\ wr.pc = "idle" /\ pass.pc = "idle" /\ UNCHANGED <<table, commits, pass, land, hd>>
           /\ \E lost \in Losses(up, Len(states)), walked \in SUBSET Keys, sw \in BOOLEAN : Walks(lost, sw, walked)
<1>1. /\ wr.pc = "idle" /\ pass.pc = "idle" /\ UNCHANGED <<table, commits, pass, land, hd>>
    BY Zenon DEF WriterScan
<1>2. PICK lost \in Losses(up, Len(states)), walked \in SUBSET Keys, sw \in BOOLEAN :
       LET g == Len(states)
           b == [log |-> Unbounded, len |-> Unbounded, wm |-> SeeAll]
           u == Filed(Rebased(up, g, lost), Max({up.fs.seen, LogEnd(b)}), SeeAll, {})
           fs == IF sw THEN Refreshed(u.fs, states[g].snap, MemLen(b)) ELSE u.fs
           need == {k \in walked : fs.own[k] = NoForm}
       IN  /\ MayRefresh(u.fs, sw) \/ (walked = {} /\ ~sw)
           /\ up' = [fs |-> [fs EXCEPT !.own = [k \in Keys |->
                                IF k \in need THEN Built(fs, k, SeeAll) ELSE @[k]]],
                     dirty |-> u.dirty \cup need, complete |-> u.complete,
                     gone |-> u.gone /\ walked = {}, posted |-> {}]
           /\ states' = [states EXCEPT
                  ![g] = Marks(IF sw THEN [@ EXCEPT !.snap =
                                     Offered(u.fs, states[g].snap, MemLen(b))]
                               ELSE @, Orphans(up, g, lost))]
    BY Zenon DEF WriterScan
<1>3. Walks(lost, sw, walked)
    BY <1>2, Zenon DEF Walks, WalkedState, WalkedOwn, WalkedNeed, WalkedFs, WalkedUp, NoBound
<1> QED
    BY <1>1, <1>3, Zenon

LEMMA WalkedTypes ==
    ASSUME TabInv, BlockInv, NEW lost \in Losses(up, Len(states)), NEW sw \in BOOLEAN, NEW walked
    PROVE  /\ Max({up.fs.seen, LogEnd(NoBound)}) \in 0..MaxChunk
           /\ Max({up.fs.seen, LogEnd(NoBound)}) <= Len(log) \/ Max({up.fs.seen, LogEnd(NoBound)}) <= up.fs.seen
           /\ WalkedUp(lost) \in UpSet /\ WalkedUp(lost).fs \in FormsStates
           /\ WalkedUp(lost).dirty \in SUBSET Keys /\ WalkedUp(lost).complete \in BOOLEAN
           /\ WalkedUp(lost).gone \in BOOLEAN
           /\ WalkedFs(lost, sw) \in FormsStates
           /\ WalkedOwn(lost, sw, walked) \in [Keys -> Forms \cup {NoForm}]
<1> DEFINE g == Len(states)
           n == Max({up.fs.seen, LogEnd(NoBound)})
<1>1. up \in UpSet /\ g \in 1..Len(states) /\ NoBound \in BoundSet /\ SeeAll \in Nat
    BY PassIn, NoBounds DEF NoBound
<1>2. g \in 1..MaxGen /\ states[g] \in StateSet
    BY <1>1, StateIn
<1>3. Rebased(up, g, lost) \in UpSet /\ Rebased(up, g, lost).fs.seen = up.fs.seen
    BY <1>1, <1>2, LossesAre, RebasedIs
<1>4. n \in 0..MaxChunk /\ (n <= Len(log) \/ n <= up.fs.seen)
    <2>1. up.fs.seen \in 0..MaxChunk
        BY <1>1 DEF UpSet, FormsStates
    <2>2. LogEnd(NoBound) \in 0..Len(log) /\ Len(log) \in 0..MaxChunk
        BY <1>1, Ends, Lengths DEF TabInv
    <2>3. n = IF up.fs.seen >= LogEnd(NoBound) THEN up.fs.seen ELSE LogEnd(NoBound)
        BY <2>1, <2>2, Numbers, MaxTwo
    <2> HIDE DEF n
    <2> QED
        BY ONLY <2>1, <2>2, <2>3, Numbers
<1>5. WalkedUp(lost) \in UpSet
    <2> HIDE DEF n
    <2>1. Filed(Rebased(up, g, lost), n, SeeAll, {}) \in UpSet
        BY <1>1, <1>3, <1>4, FiledType DEF TabInv
    <2> QED
        BY <2>1 DEF WalkedUp, n
<1>6. MemLen(NoBound) \in 0..MaxChunk
    BY <1>1, Ends, Lengths, Numbers DEF TabInv
<1>7. /\ WalkedUp(lost).fs \in FormsStates /\ WalkedUp(lost).dirty \in SUBSET Keys
      /\ WalkedUp(lost).complete \in BOOLEAN /\ WalkedUp(lost).gone \in BOOLEAN
    BY <1>5 DEF UpSet
<1>8. WalkedFs(lost, sw) \in FormsStates
    BY <1>6, <1>7, RefreshedType DEF WalkedFs
<1>9. WalkedOwn(lost, sw, walked) \in [Keys -> Forms \cup {NoForm}]
    BY <1>1, <1>8, BuiltType DEF FormsStates, TabInv, WalkedOwn
<1> QED
    BY <1>4, <1>5, <1>7, <1>8, <1>9

LEMMA BlockWriterScan ==
    ASSUME TabInv, BlockInv, WriterScan
    PROVE  BlockInv'
<1>1. PICK lost \in Losses(up, Len(states)), walked \in SUBSET Keys, sw \in BOOLEAN : Walks(lost, sw, walked)
    BY WriterScanIs
<1>2. pass' = pass /\ land' = land
    BY WriterScanIs
<1> DEFINE g == Len(states)
           f == [WalkedFs(lost, sw) EXCEPT !.own = WalkedOwn(lost, sw, walked)]
           d == WalkedUp(lost).dirty \cup WalkedNeed(lost, sw, walked)
           c == WalkedUp(lost).complete
           o == WalkedUp(lost).gone /\ walked = {}
<1>3. g \in 1..Len(states) /\ NoBound \in BoundSet
    BY PassIn, NoBounds DEF NoBound
<1>4. states[g] \in StateSet
    BY <1>3, StateIn
<1>5. f \in FormsStates
    BY WalkedTypes DEF FormsStates
<1>6. d \in SUBSET Keys /\ c \in BOOLEAN /\ o \in BOOLEAN
    <2>1. WalkedUp(lost).dirty \in SUBSET Keys /\ c \in BOOLEAN
        BY WalkedTypes
    <2>2. walked \subseteq Keys
        BY <1>1 DEF Walks
    <2>3. o \in BOOLEAN
        BY Zenon
    <2> QED
        BY <2>1, <2>2, <2>3 DEF WalkedNeed
<1>7. up' = [fs |-> f, dirty |-> d, complete |-> c, gone |-> o, posted |-> {}]
    BY <1>1, Zenon DEF Walks
<1> HIDE DEF f, d, c, o
<1>8. up' \in UpSet /\ up'.posted = {}
    BY <1>5, <1>6, <1>7 DEF UpSet
<1>9. WalkedState(lost, sw) \in StateSet
    <2> DEFINE snap == Offered(WalkedUp(lost).fs, states[g].snap, MemLen(NoBound))
    <2>1. MemLen(NoBound) \in 0..MaxChunk
        BY <1>3, Ends, Lengths, Numbers DEF TabInv
    <2>2. snap \in NoSnap..MaxChunk
        BY <1>4, <2>1, OfferedType DEF StateSet
    <2>3. WalkedState(lost, sw) = Marks(IF sw THEN [states[g] EXCEPT !.snap = snap] ELSE states[g],
                                        Orphans(up, g, lost))
        BY DEF WalkedState
    <2> HIDE DEF snap
    <2>4. [states[g] EXCEPT !.snap = snap] \in StateSet
        BY <1>4, <2>2 DEF StateSet
    <2> QED
        BY <1>4, <2>3, <2>4, MarksType
<1>10. states' = [states EXCEPT ![g] = WalkedState(lost, sw)]
    BY <1>1 DEF Walks
<1>11. states' \in Seq(StateSet) /\ Len(states') = Len(states)
    BY <1>3, <1>9, <1>10, StatesPut
<1> QED
    BY <1>2, <1>8, <1>11 DEF BlockInv, BlockType, BlockPoint

LEMMA BlockClaim ==
    ASSUME CommInv, BlockInv, Claim
    PROVE  BlockInv'
<1> DEFINE c == hist[mark + 1]
           b == [log |-> c.log, len |-> c.len, wm |-> c.wm]
<1>1. /\ pass' = [pc |-> "look", g |-> Len(states), b |-> b, short |-> FALSE]
      /\ up' = [up EXCEPT !.posted = {}] /\ states' = states /\ land' = land
    BY DEF Claim
<1>2. mark + 1 \in DOMAIN hist
    BY DEF CommInv, CommitType, HistInv
<1>3. c \in HistSet /\ Len(states) \in Nat
    BY <1>2 DEF CommInv, CommitType, BlockInv, BlockType
<1> HIDE DEF c
<1>4. b \in CommitSet
    BY <1>3 DEF HistSet, CommitSet
<1> HIDE DEF b
<1>5. pass' \in PassSet /\ pass'.g = Len(states)
    BY <1>1, <1>3, <1>4 DEF PassSet
<1>6. up' \in UpSet /\ up'.posted = {}
    BY <1>1 DEF BlockInv, BlockType, UpSet
<1> QED
    BY <1>1, <1>3, <1>5, <1>6 DEF BlockInv, BlockType, BlockPoint

LEMMA BlockGiveUp ==
    ASSUME BlockInv, GiveUp
    PROVE  BlockInv'
<1> DEFINE g == IF pass.pc = "idle" THEN Len(states) ELSE pass.g
           bare == Without(up.fs, Keys)
           none == [bare EXCEPT !.snap = NoSnap, !.added = {}]
           p == IF pass.short /\ up.posted = {} THEN {pass.b} ELSE up.posted
<1>1. PICK fs \in {bare, none} \cup {Fresh(x) : x \in {g} \ {up.fs.gen}} :
         /\ up' = [fs |-> fs, dirty |-> {}, complete |-> FALSE, gone |-> TRUE, posted |-> p]
         /\ pass' = Idle \/ pass' = pass
    BY DEF GiveUp, PassEnds
<1>2. states' = states /\ land' = land
    BY DEF GiveUp
<1>3. up \in UpSet /\ up.fs \in FormsStates /\ pass.b \in CommitSet /\ pass \in PassSet
    BY PassIn
<1>4. bare \in FormsStates
    BY <1>3, WithoutIs
<1>5. none \in FormsStates
    <2>1. NoSnap \in NoSnap..MaxChunk
        BY Numbers
    <2> HIDE DEF bare
    <2> QED
        BY <1>4, <2>1 DEF FormsStates
<1>6. g \in 0..MaxGen
    <2>1. Len(states) \in Nat /\ Len(states) <= MaxGen /\ pass.g \in Nat /\ pass.g <= Len(states)
        BY <1>3 DEF BlockInv, BlockType, BlockPoint, PassSet
    <2> QED
        BY <2>1, Numbers
<1>7. fs \in FormsStates
    BY <1>1, <1>4, <1>5, <1>6, FreshType
<1>8. p \in SUBSET CommitSet /\ \A a, b \in p : a = b
    BY <1>3 DEF UpSet, BlockInv, BlockPoint
<1> HIDE DEF p, g, bare, none
<1>9. up' \in UpSet /\ up'.posted = p
    BY <1>1, <1>7, <1>8 DEF UpSet
<1>10. pass' \in PassSet /\ pass'.g <= Len(states) /\ (pass'.pc # "idle" => pass'.g >= 1)
    <2>1. Len(states) \in Nat /\ Len(states) >= 1 /\ pass.g <= Len(states) /\ (pass.pc # "idle" => pass.g >= 1)
        BY DEF BlockInv, BlockType, BlockPoint
    <2> QED
        BY <1>1, <1>3, <2>1, IdleIn
<1> QED
    BY <1>2, <1>8, <1>9, <1>10 DEF BlockInv, BlockType, BlockPoint

LEMMA BlockLand ==
    ASSUME BlockInv, LandCarry \/ LandPublish
    PROVE  BlockInv'
<1>0. /\ Len(states) \in Nat /\ Len(states) >= 1 /\ Len(land) \in Nat /\ pass.g \in Nat /\ pass.g <= Len(states)
      /\ states \in Seq(StateSet) /\ land \in Seq(Published \cup {NoForm})
    BY DEF BlockInv, BlockType, BlockPoint, PassSet
<1>1. CASE LandCarry
    <2>1. UNCHANGED <<states, up, pass>> /\ Len(land) < MaxKey
        BY <1>1, Zenon DEF LandCarry
    <2>2. Len(land) + 1 \in Keys /\ Len(states) \in 1..Len(states)
        BY <1>0, <2>1, Numbers DEF Keys
    <2>0. PICK f : land' = Append(land, f) /\ (f = Stands(Len(states), Len(land) + 1) \/ f = Mark)
        BY <1>1, Zenon DEF LandCarry
    <2>3. f \in Published \cup {NoForm}
        BY <2>0, <2>2, StateIn, MarkType DEF Stands, StateSet
    <2>4. land' \in Seq(Published \cup {NoForm}) /\ Len(land') = Len(land) + 1
        BY <2>0, <2>3, <1>0, AppendProperties
    <2>5. Len(land') <= MaxKey
        BY ONLY <2>1, <2>4, <1>0, Numbers
    <2> QED
        BY <2>1, <2>4, <2>5 DEF BlockInv, BlockType, BlockPoint
<1>2. CASE LandPublish
    <2> DEFINE s == [Blank EXCEPT !.forms = land]
    <2>1. UNCHANGED <<up, pass>> /\ Len(states) < MaxGen /\ Len(land) = MaxKey /\ land' = <<>> /\ states' = Append(states, s)
        BY <1>2, Zenon DEF LandPublish
    <2>2. land \in [Keys -> Published \cup {NoForm}]
        BY <1>0, <2>1, LenProperties DEF Keys
    <2>3. NoSnap \in NoSnap..MaxChunk /\ Unbounded \in 0..Unbounded
        BY Numbers
    <2>4. s \in StateSet
        BY <2>2, <2>3 DEF Blank, StateSet
    <2> HIDE DEF s
    <2>5. states' \in Seq(StateSet) /\ Len(states') = Len(states) + 1
        BY <1>0, <2>1, <2>4, AppendProperties
    <2>6. land' \in Seq(Published \cup {NoForm}) /\ Len(land') = 0
        BY <2>1, EmptySeq
    <2>7. Len(states') >= 1 /\ Len(states') <= MaxGen /\ pass.g <= Len(states') /\ Len(land') <= MaxKey
        BY ONLY <1>0, <2>1, <2>5, <2>6, Numbers
    <2> QED
        BY <2>1, <2>5, <2>6, <2>7 DEF BlockInv, BlockType, BlockPoint
<1> QED
    BY <1>1, <1>2

LEMMA BlockCommitMark ==
    ASSUME TabInv, BlockInv, CommitMark
    PROVE  BlockInv'
<1> DEFINE b == [log |-> Len(log), len |-> Len(slab), wm |-> tail]
<1>1. UNCHANGED <<states, pass, land>> /\ up' = [up EXCEPT !.posted = {b}]
    BY DEF CommitMark
<1>2. b \in CommitSet
    BY Lengths, Numbers DEF CommitSet, TabInv
<1> HIDE DEF b
<1>3. up' \in UpSet /\ up'.posted = {b}
    BY <1>1, <1>2 DEF BlockInv, BlockType, UpSet
<1> QED
    BY <1>1, <1>3 DEF BlockInv, BlockType, BlockPoint

HandInv == HandleType /\ HandlePoint

LEMMA HandleIn ==
    ASSUME BlockInv, HandInv, NEW h \in Handles
    PROVE  /\ hd[h] \in HandleSet /\ hd[h].b \in BoundSet /\ hd[h].fs \in FormsStates
           /\ hd[h].b.wm \in Nat /\ hd[h].b.log \in Nat /\ hd[h].b.len \in Nat
           /\ hd[h].pc # "out" => hd[h].g \in 1..Len(states) /\ hd[h].g \in 1..MaxGen
<1>1. hd[h] \in HandleSet
    BY DEF HandInv, HandleType
<1>2. hd[h].b \in BoundSet /\ hd[h].fs \in FormsStates /\ hd[h].g \in Nat
    BY <1>1 DEF HandleSet
<1>3. hd[h].b.wm \in Nat /\ hd[h].b.log \in Nat /\ hd[h].b.len \in Nat
    BY <1>2, Numbers DEF BoundSet
<1>4. hd[h].g <= Len(states) /\ (hd[h].pc # "out" => hd[h].g >= 1)
    BY DEF HandInv, HandlePoint
<1>5. Len(states) \in Nat /\ Len(states) <= MaxGen
    BY DEF BlockInv, BlockType, BlockPoint
<1>6. hd[h].pc # "out" => hd[h].g \in 1..Len(states) /\ hd[h].g \in 1..MaxGen
    BY ONLY <1>2, <1>4, <1>5, Numbers
<1> QED
    BY <1>1, <1>2, <1>3, <1>6

LEMMA BlockSnap ==
    ASSUME TabInv, BlockInv, HandInv, NEW h \in Handles, Snap(h)
    PROVE  BlockInv'
<1> DEFINE g == hd[h].g
           len == MemLen(hd[h].b)
           o == Offered(hd[h].fs, states[g].snap, len)
<1>1. hd[h].pc = "snap" /\ UNCHANGED <<up, pass, land>>
    BY DEF Snap, Handles1
<1>2. states' = states \/ states' = [states EXCEPT ![g].snap = o]
    BY Zenon DEF Snap
<1>3. g \in 1..Len(states) /\ hd[h].b \in BoundSet
    BY <1>1, HandleIn
<1>4. states[g] \in StateSet
    BY <1>3, StateIn
<1>5. len \in 0..MaxChunk
    BY <1>3, Ends, Lengths, Numbers DEF TabInv
<1>6. o \in NoSnap..MaxChunk
    BY <1>4, <1>5, OfferedType DEF StateSet
<1> HIDE DEF o
<1>7. CASE states' = states
    BY <1>1, <1>7 DEF BlockInv, BlockType, BlockPoint
<1>8. CASE states' = [states EXCEPT ![g].snap = o]
    <2> DEFINE s == [states[g] EXCEPT !.snap = o]
    <2>1. s \in StateSet
        BY <1>4, <1>6 DEF StateSet
    <2>2. states' = [states EXCEPT ![g] = s]
        BY <1>8
    <2> HIDE DEF s
    <2>3. states' \in Seq(StateSet) /\ Len(states') = Len(states)
        BY <1>3, <2>1, <2>2, StatesPut
    <2> QED
        BY <1>1, <2>3 DEF BlockInv, BlockType, BlockPoint
<1> QED
    BY <1>2, <1>7, <1>8

\* The blocks keep their types in every step, and no state goes.
LEMMA BlockNext ==
    ASSUME CommInv, BlockInv, HandInv, [Next]_vars
    PROVE  BlockInv'
<1>0. TabInv
    BY DEF CommInv
<1>1. CASE UNCHANGED <<states, up, pass, land>>
    BY <1>1 DEF BlockInv, BlockType, BlockPoint
<1>2. ASSUME NEW h \in Handles, Scan(h) PROVE BlockInv'
    <2>1. CASE Snap(h)
        BY <1>0, <2>1, BlockSnap
    <2>2. CASE ~Snap(h)
        BY <1>2, <2>2, <1>1 DEF Scan, Enter, LoadWord, CheckMark, Look, LoadAt, LoadComplete, Walk, Again, Leave, Handles1
    <2> QED
        BY <2>1, <2>2
<1>3. CASE Write \/ CommitStore
    BY <1>3, <1>1 DEF Write, CommitStore, Link, Create, PutHead, IndexInsert, LogWrite
<1>4. CASE UNCHANGED vars
    BY <1>4, <1>1 DEF vars
<1> QED
    BY <1>0, <1>2, <1>3, <1>4, BlockCommitMark, BlockPassBegin, BlockPassLook, BlockPassSnap, BlockPassFill,
       BlockPassPublish, BlockPassTell, BlockWriterScan, BlockClaim, BlockGiveUp, BlockLand DEF Next
-----------------------------------------------------------------------------
(* The handles.                                                               *)

LEMMA StatesGrow ==
    ASSUME BlockInv, BlockInv', [Next]_vars
    PROVE  Len(states') >= Len(states) /\ Len(states) \in Nat /\ Len(states') \in Nat
<1>0. /\ Len(states) \in Nat /\ Len(states') \in Nat /\ states \in Seq(StateSet)
      /\ DOMAIN states = 1..Len(states) /\ DOMAIN states' = 1..Len(states')
    BY LenProperties DEF BlockInv, BlockType
<1>1. CASE DOMAIN states' = DOMAIN states
    BY ONLY <1>0, <1>1
<1>2. CASE LandPublish
    <2>1. PICK s : states' = Append(states, s) /\ s = [Blank EXCEPT !.forms = land]
        BY <1>2 DEF LandPublish
    <2>2. Len(states') = Len(states) + 1
        BY <1>0, <2>1
    <2> QED
        BY ONLY <1>0, <2>2
<1>3. ASSUME NEW h \in Handles, Scan(h) PROVE DOMAIN states' = DOMAIN states
    BY <1>3 DEF Scan, Enter, LoadWord, CheckMark, Look, Snap, LoadAt, LoadComplete, Walk, Again, Leave
<1>4. CASE Write \/ CommitStore \/ CommitMark \/ UNCHANGED vars
    BY <1>4, <1>1 DEF Write, CommitStore, CommitMark, Link, Create, PutHead, IndexInsert, LogWrite, vars
<1>5. CASE PassBegin \/ PassFill \/ LandCarry \/ Claim \/ GiveUp
    BY <1>5, <1>1 DEF PassBegin, PassFill, LandCarry, Claim, GiveUp
<1>6. CASE PassLook
    <2>1. \E s : states' = [states EXCEPT ![pass.g] = s]
        BY <1>6, LookIs DEF Looks
    <2> QED
        BY <2>1, <1>1
<1>7. CASE PassSnap \/ PassPublish \/ PassComplete \/ PassAt
    BY <1>7, <1>1 DEF PassSnap, PassPublish, PassComplete, PassAt
<1>8. CASE WriterScan
    <2>1. \E s : states' = [states EXCEPT ![Len(states)] = s]
        BY <1>8, WriterScanIs DEF Walks
    <2> QED
        BY <2>1, <1>1
<1> QED
    BY <1>1, <1>2, <1>3, <1>4, <1>5, <1>6, <1>7, <1>8 DEF Next

LEMMA HandPut ==
    ASSUME HandInv, NEW h \in Handles, NEW r \in HandleSet, hd' = [hd EXCEPT ![h] = r],
           BlockInv, BlockInv', [Next]_vars,
           r.g <= Len(states), r.pc # "out" => r.g >= 1, r.pc # "walk" => r.out = <<>>
    PROVE  HandInv'
<1>1. hd' \in [Handles -> HandleSet]
    BY DEF HandInv, HandleType
<1>2. Len(states') >= Len(states) /\ Len(states) \in Nat /\ Len(states') \in Nat
    BY StatesGrow
<1>3. r.g \in Nat /\ \A x \in Handles : hd[x].g \in Nat
    BY DEF HandInv, HandleType, HandleSet
<1>4. r.g <= Len(states') /\ \A x \in Handles : hd[x].g <= Len(states')
    <2>1. \A x \in Handles : hd[x].g <= Len(states)
        BY DEF HandInv, HandlePoint
    <2> QED
        BY <1>2, <1>3, <2>1
<1>5. \A x \in Handles : hd'[x] = IF x = h THEN r ELSE hd[x]
    BY DEF HandInv, HandleType
<1>6. \A x \in Handles : (hd[x].pc # "out" => hd[x].g >= 1) /\ (hd[x].pc # "walk" => hd[x].out = <<>>)
    BY DEF HandInv, HandlePoint
<1>7. HandlePoint'
    BY <1>4, <1>5, <1>6 DEF HandlePoint
<1> QED
    BY <1>1, <1>7 DEF HandInv, HandleType

Past == {"look", "snap", "at", "complete", "walk"}

LEMMA LoadPut ==
    ASSUME HandInv, LoadInv, NEW h \in Handles, NEW r, hd' = [hd EXCEPT ![h] = r],
           mark' = mark, hist' = hist, r.n <= mark,
           r.n = mark => \A w \in Loaded(r.pc) : r.b[w] = hist[mark + 1][w],
           r.iso # "dirty" /\ r.pc \in Past => \A w \in Words : r.b[w] = hist[r.n + 1][w]
    PROVE  LoadInv'
<1>1. \A x \in Handles : hd'[x] = IF x = h THEN r ELSE hd[x]
    BY DEF HandInv, HandleType
<1> SUFFICES ASSUME NEW x \in Handles
             PROVE  /\ hd'[x].n <= mark
                    /\ hd'[x].n = mark => \A w \in Loaded(hd'[x].pc) : hd'[x].b[w] = hist[mark + 1][w]
                    /\ Bounded(x)' => \A w \in Words : hd'[x].b[w] = hist[hd'[x].n + 1][w]
    BY DEF LoadInv
<1>2. CASE x = h
    <2>1. hd'[x] = r
        BY <1>1, <1>2
    <2> QED
        BY <2>1 DEF Bounded, Past
<1>3. CASE x # h
    <2>1. hd'[x] = hd[x]
        BY <1>1, <1>3
    <2>2. Bounded(x)' = Bounded(x)
        BY <2>1 DEF Bounded
    <2> QED
        BY <2>1, <2>2 DEF LoadInv
<1> QED
    BY <1>2, <1>3

\* A handle past its loads goes on in its bounds.
LEMMA LoadKeeps ==
    ASSUME HandInv, LoadInv, NEW h \in Handles, NEW r, hd' = [hd EXCEPT ![h] = r],
           mark' = mark, hist' = hist, hd[h].pc \in Past, r.pc \in Past,
           r.n = hd[h].n, r.b = hd[h].b, r.iso = hd[h].iso
    PROVE  LoadInv'
<1>1. Loaded(r.pc) = {}
    BY DEF Loaded, Past
<1>2. r.iso # "dirty" => Bounded(h)
    BY DEF Bounded, Past
<1>3. r.n <= mark /\ (r.iso # "dirty" => \A w \in Words : r.b[w] = hist[r.n + 1][w])
    BY <1>2 DEF LoadInv
<1> QED
    BY <1>1, <1>3, LoadPut

WholeInv == CommInv /\ BlockInv /\ HandInv /\ LoadInv

LEMMA HandEnter ==
    ASSUME WholeInv, BlockInv', [Next]_vars, NEW h \in Handles, Enter(h)
    PROVE  HandInv' /\ LoadInv'
<1> DEFINE B == [log |-> Unbounded, len |-> Unbounded, wm |-> SeeAll]
           pc(i) == IF i = "dirty" THEN "look" ELSE "log"
           b(i) == IF i = "dirty" THEN B ELSE hd[h].b
           r(i) == [hd[h] EXCEPT !.iso = i, !.n = mark, !.g = Len(states), !.pc = pc(i), !.b = b(i)]
<1>1. PICK i \in Isolations : hd' = [hd EXCEPT ![h] = r(i)]
    BY Zenon DEF Enter
<1>2. hd[h].pc = "out" /\ mark' = mark /\ hist' = hist
    BY DEF Enter, Handles1, commits
<1>3. hd[h] \in HandleSet /\ hd[h].b \in BoundSet /\ Len(states) \in Nat /\ mark \in Nat
    BY HandleIn DEF WholeInv, BlockInv, BlockType, CommInv, CommitType
<1>4. b(i) \in BoundSet
    BY <1>3, NoBounds
<1>5. pc(i) \in {"look", "log"} /\ (pc(i) = "look" => i = "dirty") /\ i \in Isolations \cup {"latest"}
    OBVIOUS
<1> HIDE DEF b, pc
<1>6. r(i) \in HandleSet
    BY <1>3, <1>4, <1>5 DEF HandleSet
<1>7. r(i).g = Len(states) /\ r(i).pc = pc(i) /\ r(i).n = mark /\ r(i).iso = i /\ r(i).out = hd[h].out
    BY <1>3 DEF HandleSet
<1> HIDE DEF r
<1>8. HandInv'
    <2>1. hd[h].out = <<>> /\ Len(states) >= 1
        BY <1>2 DEF WholeInv, HandInv, HandlePoint, BlockInv, BlockPoint
    <2>2. r(i).g <= Len(states) /\ r(i).g >= 1
        BY ONLY <1>3, <1>7, <2>1
    <2> QED
        BY <1>1, <1>6, <1>7, <2>1, <2>2, HandPut DEF WholeInv
<1>9. LoadInv'
    <2>1. Loaded(r(i).pc) = {} /\ r(i).n <= mark
        BY <1>3, <1>5, <1>7 DEF Loaded
    <2>2. ~(r(i).iso # "dirty" /\ r(i).pc \in Past)
        BY <1>5, <1>7 DEF Past
    <2> QED
        BY <1>1, <1>2, <2>1, <2>2, LoadPut DEF WholeInv
<1> QED
    BY <1>8, <1>9

LEMMA HandLoadWord ==
    ASSUME WholeInv, BlockInv', [Next]_vars, NEW h \in Handles, LoadWord(h)
    PROVE  HandInv' /\ LoadInv'
<1> DEFINE w == hd[h].pc
           v == marks[Marked(hd[h].n)][w]
           pc == CASE w = "log" -> "len" [] w = "len" -> "wm" [] w = "wm" -> "check"
           b == [hd[h].b EXCEPT ![w] = v]
           r == [hd[h] EXCEPT !.b = b, !.pc = pc]
<1>1. w \in Words /\ mark' = mark /\ hist' = hist
    BY DEF LoadWord, Handles1, commits, Words
<1>2. hd' = [hd EXCEPT ![h].b[w] = v, ![h].pc = pc]
    BY DEF LoadWord
<1>3. hd[h] \in HandleSet /\ hd[h].b \in BoundSet /\ mark \in Nat /\ hd[h].n \in Nat
    BY HandleIn DEF WholeInv, CommInv, CommitType, HandleSet
<1>4. marks[Marked(hd[h].n)] \in BoundSet
    <2>1. Marked(hd[h].n) \in 0..1
        BY <1>3, Marking
    <2>2. marks[Marked(hd[h].n)] \in CommitSet
        BY <2>1 DEF WholeInv, CommInv, CommitType
    <2> QED
        BY <2>2, CommitIsBound
<1>5. b \in BoundSet /\ b[w] = v /\ \A x \in Words \ {w} : b[x] = hd[h].b[x]
    <2> DEFINE m == marks[Marked(hd[h].n)]
    <2>1. m \in BoundSet
        BY <1>4
    <2> HIDE DEF m
    <2>2. \A x \in Words : [hd[h].b EXCEPT ![x] = m[x]] \in BoundSet
        BY <1>3, <2>1 DEF BoundSet, Words
    <2>3. \A x \in Words : [hd[h].b EXCEPT ![x] = m[x]][x] = m[x]
        BY <1>3 DEF BoundSet, Words
    <2>4. \A x \in Words : \A y \in Words \ {x} : [hd[h].b EXCEPT ![x] = m[x]][y] = hd[h].b[y]
        BY <1>3 DEF BoundSet, Words
    <2> QED
        BY <1>1, <2>2, <2>3, <2>4 DEF m
<1>6. pc \in {"len", "wm", "check"} /\ Loaded(pc) \subseteq Loaded(w) \cup {w} /\ Loaded(pc) \subseteq Words
    BY <1>1 DEF Words, Loaded
<1>7. hd' = [hd EXCEPT ![h] = r]
    <2>1. hd \in [Handles -> HandleSet]
        BY DEF WholeInv, HandInv, HandleType
    <2> HIDE DEF w, v, pc
    <2> QED
        BY <1>2, <2>1 DEF HandleSet
<1>8. v = marks[Marked(hd[h].n)][w]
    OBVIOUS
<1> HIDE DEF b, pc, v
<1>9. r \in HandleSet /\ r.g = hd[h].g /\ r.pc = pc /\ r.n = hd[h].n /\ r.b = b /\ r.out = hd[h].out
    BY <1>3, <1>5, <1>6 DEF HandleSet
<1> HIDE DEF r
<1>10. HandInv'
    <2>1. hd[h].g <= Len(states) /\ hd[h].g >= 1 /\ hd[h].out = <<>>
        BY <1>1 DEF WholeInv, HandInv, HandlePoint, Words
    <2> QED
        BY <1>6, <1>7, <1>9, <2>1, HandPut DEF WholeInv
<1>11. LoadInv'
    <2>1. r.n <= mark /\ (hd[h].n = mark => \A x \in Loaded(w) : hd[h].b[x] = hist[mark + 1][x])
        BY <1>9 DEF WholeInv, LoadInv
    <2>2. hd[h].n = mark => v = hist[mark + 1][w]
        BY <1>1, <1>8 DEF WholeInv, CommInv, MarkInv
    <2> HIDE DEF w
    <2>3. r.n = mark => \A x \in Loaded(r.pc) : r.b[x] = hist[mark + 1][x]
        <3> SUFFICES ASSUME r.n = mark, NEW x \in Loaded(pc) PROVE b[x] = hist[mark + 1][x]
            BY <1>9
        <3>1. CASE x = w
            BY <3>1, <1>5, <1>9, <2>2
        <3>2. CASE x # w
            <4>1. x \in Loaded(w) /\ x \in Words
                BY <1>6, <3>2
            <4> QED
                BY <4>1, <3>2, <1>5, <1>9, <2>1
        <3> QED
            BY <3>1, <3>2
    <2>4. r.pc \notin Past
        BY <1>6, <1>9 DEF Past
    <2> QED
        BY <1>1, <1>7, <2>1, <2>3, <2>4, LoadPut DEF WholeInv
<1> QED
    BY <1>10, <1>11

LEMMA HandCheckMark ==
    ASSUME WholeInv, BlockInv', [Next]_vars, NEW h \in Handles, CheckMark(h)
    PROVE  HandInv' /\ LoadInv'
<1> DEFINE pc == IF Unmoved(h) THEN "look" ELSE "log"
           n == IF Unmoved(h) THEN hd[h].n ELSE mark
           r == [hd[h] EXCEPT !.pc = pc, !.n = n]
<1>1. hd[h].pc = "check" /\ mark' = mark /\ hist' = hist
    BY DEF CheckMark, Handles1, commits
<1>2. hd' = [hd EXCEPT ![h].pc = pc, ![h].n = n]
    BY DEF CheckMark
<1>3. hd[h] \in HandleSet /\ mark \in Nat /\ hd[h].n \in Nat
    BY HandleIn DEF WholeInv, CommInv, CommitType, HandleSet
<1>4. n = mark /\ pc \in {"look", "log"} /\ (pc = "look" => hd[h].n = mark)
    BY DEF Unmoved
<1>5. hd' = [hd EXCEPT ![h] = r]
    BY <1>2, <1>3 DEF HandleSet, WholeInv, HandInv, HandleType
<1> HIDE DEF pc, n
<1>6. r \in HandleSet /\ r.g = hd[h].g /\ r.pc = pc /\ r.n = n /\ r.b = hd[h].b /\ r.out = hd[h].out
    BY <1>3, <1>4 DEF HandleSet
<1> HIDE DEF r
<1>7. HandInv'
    <2>1. hd[h].g <= Len(states) /\ hd[h].g >= 1 /\ hd[h].out = <<>>
        BY <1>1 DEF WholeInv, HandInv, HandlePoint
    <2> QED
        BY <1>5, <1>6, <2>1, HandPut DEF WholeInv
<1>8. LoadInv'
    <2>1. Loaded(r.pc) = {} /\ r.n <= mark
        BY <1>3, <1>4, <1>6 DEF Loaded
    <2>2. hd[h].n = mark => \A w \in Words : hd[h].b[w] = hist[mark + 1][w]
        BY <1>1 DEF WholeInv, LoadInv, Loaded
    <2>3. r.pc \in Past => \A w \in Words : r.b[w] = hist[r.n + 1][w]
        BY <1>4, <1>6, <2>2 DEF Past
    <2> QED
        BY <1>1, <1>5, <2>1, <2>3, LoadPut DEF WholeInv
<1> QED
    BY <1>7, <1>8

LEMMA HandLook ==
    ASSUME WholeInv, BlockInv', [Next]_vars, NEW h \in Handles, Look(h)
    PROVE  HandInv' /\ LoadInv'
<1> DEFINE f == IF hd[h].fs.gen = hd[h].g THEN hd[h].fs ELSE Fresh(hd[h].g)
           s == Settled(f, LogEnd(hd[h].b), hd[h].b.wm)
           r == [hd[h] EXCEPT !.pc = "snap", !.fs = s]
<1>1. hd[h].pc = "look" /\ mark' = mark /\ hist' = hist
    BY DEF Look, Handles1, commits
<1>2. hd' = [hd EXCEPT ![h].pc = "snap", ![h].fs = s]
    BY Zenon DEF Look
<1>3. hd[h] \in HandleSet /\ hd[h].b \in BoundSet /\ hd[h].b.wm \in Nat /\ hd[h].fs \in FormsStates /\ hd[h].g \in 1..MaxGen
    BY <1>1, HandleIn DEF WholeInv
<1>4. f \in FormsStates
    <2>1. Fresh(hd[h].g) \in FormsStates
        <3>1. hd[h].g \in 0..MaxGen /\ 0 \in 0..MaxChunk /\ NoSnap \in NoSnap..MaxChunk
            BY <1>3, Numbers
        <3> QED
            BY <3>1 DEF Fresh, FormsStates
    <2> QED
        BY <1>3, <2>1
<1>5. LogEnd(hd[h].b) \in 0..Len(log) /\ Len(log) \in 0..MaxChunk /\ TableType /\ TableInv
    BY <1>3, Ends, Lengths DEF WholeInv, CommInv, TabInv
<1> HIDE DEF f
<1>6. s \in FormsStates
    <2>1. LogEnd(hd[h].b) \in 0..MaxChunk /\ LogEnd(hd[h].b) <= Len(log)
        BY ONLY <1>5, Numbers
    <2> QED
        BY <1>3, <1>4, <1>5, <2>1, SettledType
<1>7. hd \in [Handles -> HandleSet]
    BY DEF WholeInv, HandInv, HandleType
<1> HIDE DEF s
<1>8. hd' = [hd EXCEPT ![h] = r]
    BY <1>2, <1>7 DEF HandleSet
<1>9. r \in HandleSet /\ r.g = hd[h].g /\ r.pc = "snap" /\ r.n = hd[h].n /\ r.b = hd[h].b /\ r.out = hd[h].out /\ r.iso = hd[h].iso
    BY <1>3, <1>6 DEF HandleSet
<1> HIDE DEF r
<1>10. HandInv'
    <2>1. hd[h].g <= Len(states) /\ hd[h].g >= 1 /\ hd[h].out = <<>>
        BY <1>1 DEF WholeInv, HandInv, HandlePoint
    <2> QED
        BY <1>8, <1>9, <2>1, HandPut DEF WholeInv
<1>11. LoadInv'
    BY <1>1, <1>8, <1>9, LoadKeeps DEF WholeInv, Past
<1> QED
    BY <1>10, <1>11

LEMMA HandSnap ==
    ASSUME WholeInv, BlockInv', [Next]_vars, NEW h \in Handles, Snap(h)
    PROVE  HandInv' /\ LoadInv'
<1> DEFINE s(sw) == IF sw THEN Refreshed(hd[h].fs, states[hd[h].g].snap, MemLen(hd[h].b)) ELSE hd[h].fs
           r(sw) == [hd[h] EXCEPT !.pc = "at", !.fs = s(sw)]
<1>1. hd[h].pc = "snap" /\ mark' = mark /\ hist' = hist
    BY DEF Snap, Handles1, commits
<1>2. PICK sw \in BOOLEAN : hd' = [hd EXCEPT ![h].pc = "at", ![h].fs = s(sw)]
    BY Zenon DEF Snap
<1>3. hd[h] \in HandleSet /\ hd[h].b \in BoundSet /\ hd[h].fs \in FormsStates
    BY <1>1, HandleIn DEF WholeInv
<1>4. MemLen(hd[h].b) \in 0..MaxChunk
    BY <1>3, Ends, Lengths, Numbers DEF WholeInv, CommInv, TabInv
<1>5. s(sw) \in FormsStates
    BY <1>3, <1>4, RefreshedType
<1>6. hd \in [Handles -> HandleSet]
    BY DEF WholeInv, HandInv, HandleType
<1> HIDE DEF s
<1>7. hd' = [hd EXCEPT ![h] = r(sw)]
    BY <1>2, <1>6 DEF HandleSet
<1>8. /\ r(sw) \in HandleSet /\ r(sw).g = hd[h].g /\ r(sw).pc = "at" /\ r(sw).n = hd[h].n /\ r(sw).b = hd[h].b
      /\ r(sw).out = hd[h].out /\ r(sw).iso = hd[h].iso
    BY <1>3, <1>5 DEF HandleSet
<1> HIDE DEF r
<1>9. HandInv'
    <2>1. hd[h].g <= Len(states) /\ hd[h].g >= 1 /\ hd[h].out = <<>>
        BY <1>1 DEF WholeInv, HandInv, HandlePoint
    <2> QED
        BY <1>7, <1>8, <2>1, HandPut DEF WholeInv
<1>10. LoadInv'
    BY <1>1, <1>7, <1>8, LoadKeeps DEF WholeInv, Past
<1> QED
    BY <1>9, <1>10

LEMMA HandLoads ==
    ASSUME WholeInv, BlockInv', [Next]_vars, NEW h \in Handles, LoadAt(h) \/ LoadComplete(h)
    PROVE  HandInv' /\ LoadInv'
<1> DEFINE c == states[hd[h].g].at = hd[h].b.log
           d == hd[h].canon /\ states[hd[h].g].complete
<1>1. hd[h].pc \in {"at", "complete"} /\ mark' = mark /\ hist' = hist
    BY DEF LoadAt, LoadComplete, Handles1, commits
<1>2. \/ hd' = [hd EXCEPT ![h].pc = "complete", ![h].canon = c]
      \/ hd' = [hd EXCEPT ![h].pc = "walk", ![h].whole = d]
    BY Zenon DEF LoadAt, LoadComplete
<1>3. hd[h] \in HandleSet /\ hd \in [Handles -> HandleSet]
    BY HandleIn DEF WholeInv, HandInv, HandleType
<1>4. c \in BOOLEAN /\ d \in BOOLEAN
    BY Zenon
<1>5. hd[h].g <= Len(states) /\ hd[h].g >= 1 /\ hd[h].out = <<>>
    BY <1>1 DEF WholeInv, HandInv, HandlePoint
<1> HIDE DEF c, d
<1>6. PICK r : /\ hd' = [hd EXCEPT ![h] = r] /\ r \in HandleSet /\ r.pc \in {"complete", "walk"}
               /\ r.g = hd[h].g /\ r.n = hd[h].n /\ r.b = hd[h].b /\ r.out = hd[h].out /\ r.iso = hd[h].iso
    <2>1. CASE hd' = [hd EXCEPT ![h].pc = "complete", ![h].canon = c]
        <3> DEFINE r == [hd[h] EXCEPT !.pc = "complete", !.canon = c]
        <3>1. hd' = [hd EXCEPT ![h] = r]
            BY <2>1, <1>3 DEF HandleSet
        <3>2. r \in HandleSet /\ r.pc = "complete"
            BY <1>3, <1>4 DEF HandleSet
        <3>3. r.g = hd[h].g /\ r.n = hd[h].n /\ r.b = hd[h].b /\ r.out = hd[h].out /\ r.iso = hd[h].iso
            BY <1>3 DEF HandleSet
        <3> HIDE DEF r
        <3> QED
            BY <3>1, <3>2, <3>3
    <2>2. CASE hd' = [hd EXCEPT ![h].pc = "walk", ![h].whole = d]
        <3> DEFINE r == [hd[h] EXCEPT !.pc = "walk", !.whole = d]
        <3>1. hd' = [hd EXCEPT ![h] = r]
            BY <2>2, <1>3 DEF HandleSet
        <3>2. r \in HandleSet /\ r.pc = "walk"
            BY <1>3, <1>4 DEF HandleSet
        <3>3. r.g = hd[h].g /\ r.n = hd[h].n /\ r.b = hd[h].b /\ r.out = hd[h].out /\ r.iso = hd[h].iso
            BY <1>3 DEF HandleSet
        <3> HIDE DEF r
        <3> QED
            BY <3>1, <3>2, <3>3
    <2> QED
        BY <1>2, <2>1, <2>2
<1>7. HandInv'
    BY <1>5, <1>6, HandPut DEF WholeInv
<1>8. LoadInv'
    BY <1>1, <1>6, LoadKeeps DEF WholeInv, Past
<1> QED
    BY <1>7, <1>8

\* What a walk gives is a key's values, of a form of its own or a published one.
LEMMA CanonType ==
    ASSUME WholeInv, NEW h \in Handles, hd[h].pc # "out", NEW k \in Keys
    PROVE  Canonical(h, k) = NoForm \/ Canonical(h, k).vals \in Vals
<1>1. hd[h].g \in 1..Len(states)
    BY HandleIn DEF WholeInv
<1>2. Stands(hd[h].g, k) \in Published \cup {NoForm}
    BY <1>1, StateIn DEF WholeInv, Stands, StateSet
<1>3. Base(k) \in Vals
    <2>1. 0 \in 0..MaxChunk /\ 0 \in Nat /\ TableType /\ TableInv
        BY Numbers DEF WholeInv, CommInv, TabInv
    <2>2. [ver |-> 0, vals |-> Base(k)] \in Forms
        BY <2>1, FormType
    <2> QED
        BY <2>2 DEF Forms, Vals
<1>4. \A f \in Published : f.vals \in Vals
    BY DEF Published, Vals
<1> QED
    BY <1>2, <1>3, <1>4 DEF Canonical

LEMMA HandWalk ==
    ASSUME WholeInv, BlockInv', [Next]_vars, NEW h \in Handles, Walk(h)
    PROVE  HandInv' /\ LoadInv'
<1> DEFINE k == Len(hd[h].out) + 1
           own == IF hd[h].fs.own[k] = NoForm THEN Built(hd[h].fs, k, hd[h].b.wm) ELSE hd[h].fs.own[k]
           canon == Canonical(h, k)
<1>1. hd[h].pc = "walk" /\ Len(hd[h].out) < MaxKey /\ mark' = mark /\ hist' = hist
    BY DEF Walk, Handles1, commits
<1>2. \/ canon # NoForm /\ hd' = [hd EXCEPT ![h].out = Append(hd[h].out, canon.vals)]
      \/ hd' = [hd EXCEPT ![h].out = Append(hd[h].out, own.vals), ![h].fs.own[k] = own]
    BY Zenon DEF Walk
<1>3. hd[h] \in HandleSet /\ hd \in [Handles -> HandleSet] /\ hd[h].fs \in FormsStates /\ hd[h].b.wm \in Nat
    BY HandleIn DEF WholeInv, HandInv, HandleType
<1>4. hd[h].out \in Seq(Vals) /\ Len(hd[h].out) \in Nat
    BY <1>3 DEF HandleSet
<1>5. k \in Keys
    BY <1>1, <1>4, Numbers DEF Keys
<1>6. own \in Forms /\ own.vals \in Vals
    <2>1. Built(hd[h].fs, k, hd[h].b.wm) \in Forms
        BY <1>3, <1>5, BuiltType DEF WholeInv, CommInv, TabInv
    <2>2. own \in Forms
        BY <1>3, <1>5, <2>1 DEF FormsStates
    <2> QED
        BY <2>2 DEF Forms, Vals
<1>7. canon = NoForm \/ canon.vals \in Vals
    BY <1>1, <1>5, CanonType
<1>8. hd[h].g <= Len(states) /\ hd[h].g >= 1
    BY <1>1 DEF WholeInv, HandInv, HandlePoint
<1> HIDE DEF k, own, canon
<1>9. PICK r : /\ hd' = [hd EXCEPT ![h] = r] /\ r \in HandleSet /\ r.pc = "walk"
               /\ r.g = hd[h].g /\ r.n = hd[h].n /\ r.b = hd[h].b /\ r.iso = hd[h].iso
    <2>1. CASE canon # NoForm /\ hd' = [hd EXCEPT ![h].out = Append(hd[h].out, canon.vals)]
        <3> DEFINE o == Append(hd[h].out, canon.vals)
                   r == [hd[h] EXCEPT !.out = o]
        <3>1. o \in Seq(Vals)
            BY <1>4, <1>7, <2>1, AppendProperties
        <3>2. hd' = [hd EXCEPT ![h] = r]
            BY <2>1
        <3> HIDE DEF o
        <3>3. r \in HandleSet /\ r.pc = "walk"
            BY <1>1, <1>3, <3>1 DEF HandleSet
        <3>4. r.g = hd[h].g /\ r.n = hd[h].n /\ r.b = hd[h].b /\ r.iso = hd[h].iso
            BY <1>3 DEF HandleSet
        <3> HIDE DEF r
        <3> QED
            BY <3>2, <3>3, <3>4
    <2>2. CASE hd' = [hd EXCEPT ![h].out = Append(hd[h].out, own.vals), ![h].fs.own[k] = own]
        <3> DEFINE o == Append(hd[h].out, own.vals)
                   w == [hd[h].fs.own EXCEPT ![k] = own]
                   f == [hd[h].fs EXCEPT !.own = w]
                   r == [hd[h] EXCEPT !.out = o, !.fs = f]
        <3>1. o \in Seq(Vals)
            BY <1>4, <1>6, AppendProperties
        <3>2. hd' = [hd EXCEPT ![h] = r]
            <4> HIDE DEF o
            <4>1. hd' = [hd EXCEPT ![h].out = o, ![h].fs.own[k] = own]
                BY <2>2 DEF o
            <4> QED
                BY <1>3, <4>1 DEF HandleSet
        <3>3. w \in [Keys -> Forms \cup {NoForm}]
            BY <1>3, <1>5, <1>6 DEF FormsStates
        <3> HIDE DEF o, w
        <3>4. f \in FormsStates
            BY <1>3, <3>3 DEF FormsStates
        <3> HIDE DEF f
        <3>5. r \in HandleSet /\ r.pc = "walk"
            BY <1>1, <1>3, <3>1, <3>4 DEF HandleSet
        <3>6. r.g = hd[h].g /\ r.n = hd[h].n /\ r.b = hd[h].b /\ r.iso = hd[h].iso
            BY <1>3 DEF HandleSet
        <3> HIDE DEF r
        <3> QED
            BY <3>2, <3>5, <3>6
    <2> QED
        BY <1>2, <2>1, <2>2
<1>10. HandInv'
    BY <1>8, <1>9, HandPut DEF WholeInv
<1>11. LoadInv'
    BY <1>1, <1>9, LoadKeeps DEF WholeInv, Past
<1> QED
    BY <1>10, <1>11

LEMMA HandEnds ==
    ASSUME WholeInv, BlockInv', [Next]_vars, NEW h \in Handles, Again(h) \/ Leave(h)
    PROVE  HandInv' /\ LoadInv'
<1>1. hd[h].pc = "walk" /\ mark' = mark /\ hist' = hist
    BY DEF Again, Leave, Handles1, commits
<1>2. hd[h] \in HandleSet /\ hd \in [Handles -> HandleSet] /\ hd[h].fs \in FormsStates
    BY HandleIn DEF WholeInv, HandInv, HandleType
<1>3. hd[h].g <= Len(states) /\ hd[h].g >= 1
    BY <1>1 DEF WholeInv, HandInv, HandlePoint
<1>4. <<>> \in Seq(Vals)
    BY EmptySeq
<1>5. CASE Again(h)
    <2> DEFINE r == [hd[h] EXCEPT !.pc = "look", !.out = <<>>, !.canon = FALSE, !.whole = FALSE]
    <2>1. hd' = [hd EXCEPT ![h] = r]
        BY <1>2, <1>5 DEF Again, HandleSet
    <2>2. r \in HandleSet /\ r.pc = "look" /\ r.out = <<>>
        BY <1>2, <1>4 DEF HandleSet
    <2>3. r.g = hd[h].g /\ r.n = hd[h].n /\ r.b = hd[h].b /\ r.iso = hd[h].iso
        BY <1>2 DEF HandleSet
    <2> HIDE DEF r
    <2>4. HandInv'
        BY <1>3, <2>1, <2>2, <2>3, HandPut DEF WholeInv
    <2>5. LoadInv'
        BY <1>1, <2>1, <2>2, <2>3, LoadKeeps DEF WholeInv, Past
    <2> QED
        BY <2>4, <2>5
<1>6. CASE Leave(h)
    <2> DEFINE r == Out(hd[h].fs)
    <2>1. hd' = [hd EXCEPT ![h] = r]
        BY <1>6 DEF Leave
    <2>2. Bounds0 \in BoundSet
        BY Numbers DEF Bounds0, BoundSet
    <2>3. r \in HandleSet /\ r.pc = "out" /\ r.out = <<>> /\ r.n = 0 /\ r.g = 0
        BY <1>2, <1>4, <2>2 DEF HandleSet, Out
    <2> HIDE DEF r
    <2>4. Len(states) \in Nat /\ mark \in Nat
        BY DEF WholeInv, BlockInv, BlockType, CommInv, CommitType
    <2>5. HandInv'
        <3>1. r.g <= Len(states)
            BY <2>3, <2>4
        <3> QED
            BY <2>1, <2>3, <3>1, HandPut DEF WholeInv
    <2>6. LoadInv'
        <3>1. r.n <= mark /\ Loaded(r.pc) = {} /\ r.pc \notin Past
            BY <2>3, <2>4 DEF Loaded, Past
        <3> QED
            BY <1>1, <2>1, <3>1, LoadPut DEF WholeInv
    <2> QED
        BY <2>5, <2>6
<1> QED
    BY <1>5, <1>6

-----------------------------------------------------------------------------
(* The invariant, and what it gives.                                          *)

LEMMA HandNext ==
    ASSUME WholeInv, BlockInv', [Next]_vars
    PROVE  HandInv' /\ LoadInv'
<1>1. ASSUME NEW h \in Handles, Scan(h) PROVE HandInv' /\ LoadInv'
    BY <1>1, HandEnter, HandLoadWord, HandCheckMark, HandLook, HandSnap, HandLoads, HandWalk, HandEnds DEF Scan
<1>2. ASSUME hd' = hd PROVE HandInv'
    <2>1. Len(states') >= Len(states) /\ Len(states) \in Nat /\ Len(states') \in Nat
        BY StatesGrow DEF WholeInv
    <2>2. \A h \in Handles : hd[h].g \in Nat /\ hd[h].g <= Len(states)
        BY DEF WholeInv, HandInv, HandleType, HandleSet, HandlePoint
    <2>3. \A h \in Handles : hd[h].g <= Len(states')
        BY <2>1, <2>2
    <2> QED
        BY <1>2, <2>3 DEF WholeInv, HandInv, HandleType, HandlePoint
<1>3. CASE UNCHANGED <<mark, hist, hd>>
    BY <1>2, <1>3 DEF WholeInv, LoadInv, Bounded
<1>4. CASE CommitMark
    <2>1. hd' = hd /\ mark' = mark + 1
        BY <1>4 DEF CommitMark
    <2>2. mark \in Nat /\ hist \in Seq(HistSet) /\ Len(hist) = mark + 1
        BY DEF WholeInv, CommInv, CommitType, HistInv
    <2>3. PICK e : hist' = Append(hist, e)
        BY <1>4 DEF CommitMark
    <2>4. \A c \in 1..(mark + 1) : hist'[c] = hist[c]
        BY <2>2, <2>3
    <2>5. \A h \in Handles : hd[h].n \in Nat /\ hd[h].n <= mark
        BY DEF WholeInv, HandInv, HandleType, HandleSet, LoadInv
    <2>6. LoadInv'
        <3> SUFFICES ASSUME NEW h \in Handles
                     PROVE  /\ hd[h].n <= mark + 1 /\ hd[h].n # mark + 1
                            /\ Bounded(h) => \A w \in Words : hd[h].b[w] = hist'[hd[h].n + 1][w]
            BY <2>1 DEF LoadInv, Bounded
        <3>1. hd[h].n <= mark + 1 /\ hd[h].n # mark + 1 /\ hd[h].n + 1 \in 1..(mark + 1)
            BY ONLY <2>2, <2>5, h \in Handles
        <3> QED
            BY <2>4, <3>1 DEF WholeInv, LoadInv
    <2> QED
        BY <1>2, <2>1, <2>6
<1>5. CASE Write \/ CommitStore \/ UNCHANGED vars
    BY <1>3, <1>5 DEF Write, CommitStore, Link, Create, PutHead, IndexInsert, LogWrite, vars, commits
<1>6. CASE \/ PassBegin \/ PassLook \/ PassSnap \/ PassFill \/ PassPublish \/ PassComplete \/ PassAt
           \/ WriterScan \/ LandCarry \/ LandPublish \/ Claim \/ GiveUp
    BY <1>3, <1>6 DEF PassBegin, PassLook, PassSnap, PassFill, PassPublish, PassComplete, PassAt,
       WriterScan, LandCarry, LandPublish, Claim, GiveUp, commits
<1> QED
    BY <1>1, <1>4, <1>5, <1>6 DEF Next

LEMMA WholeInit ==
    ASSUME Init
    PROVE  WholeInv
<1>0. /\ 0 \in 0..MaxChunk /\ 1 \in 0..Unbounded /\ 0 \in 0..Unbounded /\ 1 \in 0..SeeAll /\ 0 \in 0..MaxGen
      /\ NoSnap \in NoSnap..MaxChunk /\ Unbounded \in 0..Unbounded /\ 1 \in 0..MaxGen
    BY Numbers
<1>1. TabInv
    <2>1. TableType
        BY EmptySeq DEF Init, Resting, TableType
    <2>2. TableInv
        BY Numbers DEF Init, Resting, TableInv, Under
    <2>3. EntryInv
        BY DEF Init, EntryInv
    <2> QED
        BY <2>1, <2>2, <2>3 DEF TabInv
<1>2. Bounds0 \in CommitSet /\ Bounds0 \in BoundSet
    BY <1>0 DEF Bounds0, CommitSet, BoundSet
<1>3. \A k \in Keys : Base(k) \in Vals
    <2>1. <<>> \in Vals /\ <<0>> \in Vals
        BY <1>0, EmptySeq DEF Vals
    <2> QED
        BY <2>1 DEF Base
<1> DEFINE e == Commit(Bounds0, [k \in Keys |-> Base(k)])
<1>4. e \in HistSet /\ e.log = 0 /\ e.len = 0 /\ e.wm = 1 /\ \A k \in Keys : e.vals[k] = Base(k)
    BY <1>0, <1>3 DEF Commit, Bounds0, HistSet
<1>5. hist = <<e>> /\ mark = 0 /\ marks = [i \in 0..1 |-> Bounds0]
    BY DEF Init
<1> HIDE DEF e
<1>6. CommitType
    BY <1>2, <1>4, <1>5 DEF CommitType
<1>7. DOMAIN hist = {1} /\ hist[1] = e /\ Len(hist) = 1
    BY <1>5
<1>8. /\ slab = <<>> /\ log = <<>> /\ tail = 1 /\ wr.pc = "idle" /\ Indexed = 0 /\ Len(log) = 0
      /\ \A k \in Keys : chain[k] = <<>>
    BY DEF Init, Resting, Indexed
<1>9. HistInv
    <2>1. 1..0 = {} /\ mark <= MaxCommit
        BY <1>5, Numbers
    <2> QED
        BY <1>4, <1>5, <1>7, <1>8, <2>1 DEF HistInv
<1>10. ValuesInv
    <2>1. \A k \in Keys, wm \in Nat : Values(k, wm) = Base(k)
        BY <1>8, ValuesNone
    <2> QED
        BY <1>4, <1>7, <1>8, <2>1 DEF ValuesInv
<1>11. MarkInv
    <2>1. Marked(0) \in 0..1
        BY Marking
    <2>2. \A w \in Words : e[w] = Bounds0[w]
        BY DEF e, Commit, Bounds0, Words
    <2> QED
        BY <1>5, <1>7, <1>8, <2>1, <2>2 DEF MarkInv
<1>12. BlockInv
    <2>1. Blank \in StateSet
        BY <1>0 DEF Blank, StateSet
    <2>2. \A g \in 0..MaxGen : Fresh(g) \in FormsStates
        BY <1>0 DEF Fresh, FormsStates
    <2>3. up \in UpSet /\ up.posted = {}
        BY <1>0, <2>2 DEF Init, UpSet
    <2>4. states \in Seq(StateSet) /\ Len(states) = 1 /\ land = <<>>
        BY <2>1 DEF Init
    <2>5. land \in Seq(Published \cup {NoForm}) /\ Len(land) = 0
        BY <2>4, EmptySeq
    <2>6. pass = Idle
        BY DEF Init
    <2> QED
        BY <2>3, <2>4, <2>5, <2>6, IdleIn, Numbers DEF BlockInv, BlockType, BlockPoint
<1>13. HandInv /\ LoadInv
    <2> DEFINE o == Out(Fresh(0))
    <2>1. Fresh(0) \in FormsStates
        BY <1>0 DEF Fresh, FormsStates
    <2>2. o \in HandleSet /\ o.pc = "out" /\ o.g = 0 /\ o.n = 0 /\ o.out = <<>>
        BY <1>2, <2>1, EmptySeq DEF Out, HandleSet
    <2>3. hd = [h \in Handles |-> o] /\ Len(states) = 1
        BY DEF Init
    <2> HIDE DEF o
    <2>4. HandInv
        BY <2>2, <2>3 DEF HandInv, HandleType, HandlePoint
    <2>5. LoadInv
        BY <1>5, <2>2, <2>3 DEF LoadInv, Loaded, Bounded
    <2> QED
        BY <2>4, <2>5
<1> QED
    BY <1>1, <1>6, <1>9, <1>10, <1>11, <1>12, <1>13 DEF WholeInv, CommInv

LEMMA WholeNext ==
    ASSUME WholeInv, [Next]_vars
    PROVE  WholeInv'
<1>1. CommInv'
    BY CommNext DEF WholeInv
<1>2. BlockInv'
    BY BlockNext DEF WholeInv
<1>3. HandInv' /\ LoadInv'
    BY <1>2, HandNext
<1> QED
    BY <1>1, <1>2, <1>3 DEF WholeInv

LEMMA WholeAlways == Spec => []WholeInv
BY WholeInit, WholeNext, PTL DEF Spec

\* The invariant holds in every state of Scans.
THEOREM CommitAlways == Spec => []CommitInv
<1>1. WholeInv => CommitInv
    BY DEF WholeInv, CommitInv, CommInv, TabInv, BlockInv, HandInv, TypeInv
<1> QED
    BY <1>1, WholeAlways, PTL

LEMMA SeqWithin ==
    ASSUME NEW S, NEW T, NEW s \in Seq(S), \A i \in 1..Len(s) : s[i] \in T
    PROVE  s \in Seq(T)
<1>1. Len(s) \in Nat /\ s \in [1..Len(s) -> T]
    BY LenProperties
<1> QED
    BY <1>1, SeqDef

\* The entries, the log and the chunks name each other and stay within the arena,
\* the blocks of the writer, of every handle and of every state published hold
\* forms of values, at most one commit is posted, and a scan not yet walking has
\* given nothing (MemTable, FormsState, State, scan).
THEOREM TypesHold == Spec => []TypeOK
<1>1. CommitInv => TypeOK
    <2> SUFFICES ASSUME CommitInv PROVE TypeOK
        OBVIOUS
    <2>0. TypeInv /\ BlockPoint /\ HandlePoint /\ TableInv /\ HistInv /\ LoadInv /\ TableType
        BY DEF CommitInv, TypeInv
    <2>1. /\ Len(log) \in 0..MaxChunk /\ Len(slab) \in 0..MaxChunk /\ tail \in 1..Unbounded
          /\ DOMAIN log = 1..Len(log) /\ DOMAIN slab = 1..Len(slab)
        BY <2>0, Lengths
    <2>2. slab \in Seq(Keys) /\ log \in Seq(DOMAIN slab)
        <3>1. slab \in Seq(Keys) /\ log \in Seq(1..MaxChunk)
            BY <2>0 DEF TableType
        <3>2. \A i \in 1..Len(log) : log[i] \in 1..MaxChunk
            BY <3>1, ElementOfSeq, Zenon
        <3>3. \A i \in 1..Len(log) : log[i] <= Len(slab)
            BY <2>0, <2>1 DEF TableInv
        <3>4. \A i \in 1..Len(log) : log[i] \in DOMAIN slab
            BY ONLY <2>1, <3>2, <3>3, Numbers
        <3> QED
            BY <3>1, <3>4, SeqWithin
    <2>3. chain \in [Keys -> Seq(-MaxChunk..MaxChunk)]
        <3>1. chain \in [Keys -> Seq(Int)]
            BY <2>0 DEF TableType
        <3> SUFFICES ASSUME NEW k \in Keys PROVE chain[k] \in Seq(-MaxChunk..MaxChunk)
            BY <3>1
        <3>2. chain[k] \in Seq(Int) /\ Len(chain[k]) \in Nat /\ DOMAIN chain[k] = 1..Len(chain[k])
            BY <3>1
        <3>3. \A i \in 1..Len(chain[k]) : chain[k][i] \in -MaxChunk..MaxChunk
            <4> TAKE i \in 1..Len(chain[k])
            <4>1. chain[k][i] \in Int
                BY <3>2, ElementOfSeq
            <4>2. Offset(chain[k][i]) < tail
                BY <2>0, <3>2 DEF TableInv
            <4> QED
                BY ONLY <4>1, <4>2, <2>1, Numbers DEF Offset
        <3> QED
            BY <3>2, <3>3, SeqWithin
    <2>4. tail \in 1..(MaxChunk + 1)
        BY <2>1, Numbers
    <2>5. wr.pc \in {"idle", "head", "index", "log", "len", "wm", "mark", "claim"} /\ wr.id \in 0..Len(slab)
        <3>1. wr.pc \in {"idle", "head", "index", "log", "len", "wm", "mark", "claim"}
            BY <2>0 DEF TableType
        <3>2. wr.id = 0 \/ wr.id \in DOMAIN slab
            BY <2>0 DEF TableInv
        <3> QED
            BY <2>1, <3>1, <3>2
    <2>6. mark \in 0..MaxCommit /\ Len(hist) = mark + 1
        BY <2>0, Numbers DEF TypeInv, CommitType, HistInv
    <2>7. Len(states) \in 1..MaxGen /\ Len(land) \in 0..MaxKey
        BY <2>0, Numbers DEF TypeInv, BlockType, BlockPoint
    <2>8. \A g \in DOMAIN states :
              /\ states[g].forms \in [Keys -> Published \cup {NoForm}]
              /\ states[g].at \in 0..Unbounded /\ states[g].complete \in BOOLEAN
              /\ states[g].snap \in NoSnap..MaxChunk
        <3>1. \A g \in DOMAIN states : states[g] \in StateSet
            BY <2>0, ElementOfSeq DEF TypeInv, BlockType
        <3> QED
            BY <3>1 DEF StateSet
    <2>9. up.fs \in FormsStates /\ up.dirty \subseteq Keys /\ up.complete \in BOOLEAN /\ up.gone \in BOOLEAN
        BY <2>0 DEF TypeInv, BlockType, UpSet
    <2>10. Cardinality(up.posted) <= 1
        <3>1. \A a, b \in up.posted : a = b
            BY <2>0 DEF BlockPoint
        <3>2. CASE up.posted = {}
            BY <3>2, FS_EmptySet
        <3>3. CASE up.posted # {}
            <4>1. PICK a : up.posted = {a}
                BY <3>1, <3>3
            <4> QED
                BY <4>1, FS_Singleton
        <3> QED
            BY <3>2, <3>3
    <2>11. pass.pc \in {"idle", "look", "snap", "fill", "publish", "at"}
        BY <2>0 DEF TypeInv, BlockType, PassSet
    <2>12. \A h \in DOMAIN hd :
              /\ hd[h].fs \in FormsStates /\ hd[h].iso \in Isolations \cup {"latest"}
              /\ hd[h].g \in 0..Len(states) /\ hd[h].n \in 0..mark
              /\ hd[h].pc # "walk" => hd[h].out = <<>>
        <3>0. DOMAIN hd = Handles
            BY <2>0 DEF TypeInv, HandleType
        <3> SUFFICES ASSUME NEW h \in Handles
                     PROVE  /\ hd[h].fs \in FormsStates /\ hd[h].iso \in Isolations \cup {"latest"}
                            /\ hd[h].g \in 0..Len(states) /\ hd[h].n \in 0..mark
                            /\ hd[h].pc # "walk" => hd[h].out = <<>>
            BY <3>0
        <3>1. hd[h] \in HandleSet
            BY <2>0 DEF TypeInv, HandleType
        <3>2. hd[h].fs \in FormsStates /\ hd[h].iso \in Isolations \cup {"latest"} /\ hd[h].g \in Nat /\ hd[h].n \in Nat
            BY <3>1 DEF HandleSet
        <3>3. hd[h].g <= Len(states) /\ hd[h].n <= mark /\ (hd[h].pc # "walk" => hd[h].out = <<>>)
            BY <2>0 DEF HandlePoint, LoadInv
        <3>4. hd[h].g \in 0..Len(states) /\ hd[h].n \in 0..mark
            BY ONLY <2>6, <2>7, <3>2, <3>3, Numbers
        <3> QED
            BY <3>2, <3>3, <3>4
    <2> QED
        BY <2>2, <2>3, <2>4, <2>5, <2>6, <2>7, <2>8, <2>9, <2>10, <2>11, <2>12 DEF TypeOK
<1> QED
    BY <1>1, CommitAlways, PTL

\* A handle ends its loads with the three words of one commit, though the writer
\* stores them and the handle loads them one at a time, and any number of commits
\* may pass in between (MemTable::commit, committed_at).
THEOREM BoundsOfOneCommit == Spec => []OneCommit
<1>1. CommitInv => OneCommit
    BY DEF CommitInv, OneCommit, LoadInv, View, Words, TypeInv, HandleType
<1> QED
    BY <1>1, CommitAlways, PTL

\* A point read under such bounds gives the key's values of that very commit,
\* whatever the writer has stored since: chunks past the watermark, a later
\* entry, an entry not yet in the index (probe, live_offs_into).
THEOREM PointReadsRight == Spec => []PointRight
<1>1. CommitInv => PointRight
    <2> SUFFICES ASSUME CommitInv, NEW h \in Handles, Bounded(h), NEW k \in Keys
                 PROVE  ReadAll(k, hd[h].b) = View(h).vals[k]
        BY DEF PointRight, CommitInv, TypeInv, HandleType
    <2> DEFINE c == hd[h].n + 1
    <2>0. CommInv
        BY DEF CommitInv, CommInv, TabInv, TypeInv
    <2>1. hd[h].n \in Nat /\ hd[h].n <= mark /\ mark \in Nat /\ DOMAIN hist = 1..(mark + 1)
        BY DEF CommitInv, TypeInv, HandleType, HandleSet, LoadInv, CommitType, HistInv
    <2>2. c \in DOMAIN hist /\ c \in Nat
        BY <2>1
    <2> HIDE DEF c
    <2>3. hd[h].b.len = hist[c].len /\ hd[h].b.wm = hist[c].wm
        BY DEF CommitInv, LoadInv, Words, c
    <2>4. hist[c].len \in Nat /\ hist[c].len <= Indexed
        BY <2>0, <2>2, HistFacts DEF CommInv, HistInv
    <2>5. Indexed \in Int
        BY DEF Indexed, CommitInv, TypeInv, TableType
    <2>6. Min({Indexed, hd[h].b.len}) = hist[c].len
        <3>1. Min({Indexed, hist[c].len}) = IF Indexed <= hist[c].len THEN Indexed ELSE hist[c].len
            BY <2>4, <2>5, MinTwo
        <3> QED
            BY <2>3, <2>4, <2>5, <3>1
    <2>7. /\ hist[c].vals[k] = Values(k, hist[c].wm)
          /\ (\A e \in 1..hist[c].len : slab[e] # k) => hist[c].vals[k] = Base(k)
        BY <2>2, Zenon DEF CommitInv, ValuesInv
    <2>8. View(h) = hist[c]
        BY DEF View, c
    <2> QED
        BY <2>3, <2>6, <2>7, <2>8 DEF ReadAll
<1> QED
    BY <1>1, CommitAlways, PTL
=============================================================================
