-------------------------------- MODULE Shape --------------------------------
(* What the store's tables and segments hold, how the segments tile the key   *)
(* space, what a merge takes and leaves, and what a read answers: the data    *)
(* half of seals, merges and promotions, as definitions without state.        *)
(* src/src/db.rs throughout.                                                  *)
EXTENDS Integers, FiniteSets, Sequences, FiniteSetsExt, SequencesExt

CONSTANT MaxKey      \* bound: keys are 1..MaxKey, in byte order

ASSUME MaxKeyAssumption == MaxKey \in Nat \ {0}

Key == 1..MaxKey

\* The upper fence of a range open above (None); the lower one open is 0.
Top == MaxKey + 1
Fence == {f \in [lo : 0..MaxKey, hi : 1..Top] : f.lo < f.hi}
Whole == [lo |-> 0, hi |-> Top]

\* A write: its place in the history, its key, and whether it is a tombstone.
\* A put is a tombstone and then a value.
Write == [n : Nat \ {0}, k : Key, del : BOOLEAN]

\* The elements of s at the places I, in order.
Subsequence(s, I) ==
    [j \in 1..Cardinality(I) |->
        s[CHOOSE i \in I : Cardinality({h \in I : h < i}) = j - 1]]

\* What a table or a segment holds of a key: writes, oldest first.
Chains(log) == [k \in Key |-> Subsequence(log, {i \in DOMAIN log : log[i].k = k})]
Keys(c) == {k \in Key : c[k] # <<>>}

\* A chain from its newest tombstone on: what a record keeps of it.
Cut(s) ==
    LET D == {i \in DOMAIN s : s[i].del}
    IN IF D = {} THEN s ELSE SubSeq(s, Max(D), Len(s))

\* A chain's live values: those after its newest tombstone.
Live(s) ==
    LET D == {i \in DOMAIN s : s[i].del}
    IN IF D = {} THEN s ELSE SubSeq(s, Max(D) + 1, Len(s))

-----------------------------------------------------------------------------
(* Segments and their order.                                                  *)

\* fences_overlap.
Overlap(a, b) == a.lo < b.hi /\ b.lo < a.hi

\* Seg::may_hold, without the filter of its keys.
MayHold(s, k) == s.lo <= k /\ k < s.hi

\* The places seg_order compares, first to last; a name is its kind ("pcs-"
\* before "seg-") and then its id.
Rank(s) == << 1 - s.level, s.lo, s.seq, IF s.kind = "seg" THEN 1 ELSE 0, s.id >>

SegOrder(a, b) ==
    LET x == Rank(a)
        y == Rank(b)
    IN \E i \in 1..5 : x[i] < y[i] /\ \A j \in 1..(i - 1) : x[j] = y[j]

InOrder(S) ==
    [i \in 1..Cardinality(S) |->
        CHOOSE s \in S : Cardinality({t \in S : SegOrder(t, s)}) = i - 1]

Parts(S) == {s \in S : s.level = 1}
Pieces(S) == S \ Parts(S)
FenceOf(s) == [lo |-> s.lo, hi |-> s.hi]
Fences(S) == {FenceOf(s) : s \in S}

\* Maint::partitions_tile.
PartitionsTile(S) ==
    LET P == InOrder(Parts(S)) IN
    P # <<>> =>
        /\ P[1].lo = 0 /\ P[Len(P)].hi = Top
        /\ \A i \in DOMAIN P : P[i].lo < P[i].hi
        /\ \A i \in 1..(Len(P) - 1) : P[i].hi = P[i + 1].lo

\* Db::l0_aligned_of.
Aligned(S) == Parts(S) # {} /\ Fences(Pieces(S)) \subseteq Fences(Parts(S))

\* State::pieces_over: the pieces a read of a key of partition p consults.
PiecesOver(S, P) ==
    IF Aligned(S) /\ P # {}
    THEN {s \in Pieces(S) : \E p \in P : s.lo = p.lo}
    ELSE Pieces(S)

\* Reader::read_all's first half: the partition a key routes to, the pieces,
\* and what they hold of the key, oldest source first.
Routed(S, k) ==
    LET P == {p \in Parts(S) : k < p.hi}
    IN {p \in P : \A q \in P : p.lo <= q.lo}

SegsHold(S, k) ==
    LET from == InOrder(Routed(S, k) \cup PiecesOver(S, Routed(S, k)))
        held == [i \in DOMAIN from |->
                    IF MayHold(from[i], k) THEN from[i].c[k] ELSE <<>>]
    IN FlattenSeq(held)

\* A read: the values after the newest tombstone of any source.
Read(S, tables, k) ==
    Live(SegsHold(S, k)
         \o FlattenSeq([i \in DOMAIN tables |-> Cut(Chains(tables[i])[k])]))

-----------------------------------------------------------------------------
(* What a seal writes.                                                        *)

\* A segment of the chains c inside a range, under a level-0 name.
Piece(f, kind, seq, id, c) ==
    [level |-> 0, lo |-> f.lo, hi |-> f.hi, kind |-> kind, seq |-> seq,
     id |-> id,
     c |-> [k \in Key |-> IF f.lo <= k /\ k < f.hi THEN Cut(c[k]) ELSE <<>>]]

\* The file of a run as it stands: its fence is its name's and cuts nothing.
RunPiece(fs, seq, id, recs) ==
    LET f == IF fs = {} THEN Whole ELSE CHOOSE g \in fs : g.hi = Top
    IN [level |-> 0, lo |-> f.lo, hi |-> f.hi, seq |-> seq, id |-> id,
        kind |-> IF fs = {} THEN "seg" ELSE "pcs", c |-> Chains(recs)]

HasTomb(s) == \E k \in Key : \E i \in DOMAIN s.c[k] : s.c[k][i].del

\* A table cut at the fences it was handed with, one piece per range that has
\* a key; the whole range before the first partitioning.
CutAt(fs, seq, id, c) ==
    LET ranges == IF fs = {} THEN {Whole} ELSE fs
        kind == IF fs = {} THEN "seg" ELSE "pcs"
        at(f) == Cardinality({g \in ranges : g.lo < f.lo})
    IN {p \in {Piece(f, kind, seq, id + at(f), c) : f \in ranges} :
            Keys(p.c) # {}}

\* The same file as a partition over f.
Promoted(s, f) == [s EXCEPT !.level = 1, !.kind = "par", !.lo = f.lo, !.hi = f.hi]

-----------------------------------------------------------------------------
(* What a merge takes.                                                        *)

\* A mutant of ResolveFences: no growth over the pieces.
ResolveGiven(parts, pieces, given) ==
    {p \in parts : \E g \in given : Overlap(g, p)}

\* resolve_fences: the partitions a given range overlaps, and every partition
\* a piece over one of those also overlaps, until none reaches outside.
ResolveFences(parts, pieces, given) ==
    LET start == {p \in parts : \E g \in given : Overlap(g, p)}
        closed(F) == \A g \in pieces : (\E f \in F : Overlap(g, f)) =>
                        {p \in parts : Overlap(g, p)} \subseteq F
    IN {p \in parts : \A F \in SUBSET parts :
                        start \subseteq F /\ closed(F) => p \in F}

\* Reader::merge_due in a partitioned store: every range under the first piece
\* cut at other fences, or the ranges with as many pieces as the trigger.
MergeDue(S, trigger) ==
    LET parts == Fences(Parts(S))
        wide == {s \in Pieces(S) : FenceOf(s) \notin parts}
        first == InOrder(wide)[1]
    IN IF wide # {} THEN {f \in parts : Overlap(f, first)}
       ELSE {f \in parts :
               Cardinality({s \in Pieces(S) : FenceOf(s) = f}) >= trigger}

\* start_compact: everything the merge's fences cover.
Covered(S, fs) == {s \in S : \E f \in fs : Overlap(s, f)}

\* merges_meet.
MergesMeet(m, inputs, fs) ==
    m.fences = {} \/ fs = {} \/ m.inputs \cap inputs # {}
    \/ \E f \in m.fences, g \in fs : Overlap(f, g)

\* What the inputs of a merge hold of a key, oldest input first.
Merged(S, k) == LET s == InOrder(S) IN FlattenSeq([i \in DOMAIN s |-> s[i].c[k]])

\* The keys of a range that a merge's inputs hold.
Held(S, f) ==
    {k \in Key : f.lo <= k /\ k < f.hi /\ \E s \in S : s.c[k] # <<>>}

\* Slicer and cut_by_bounds: a merge's ranges (the whole space without fences),
\* each cut at some of the keys it holds but its first.
CutKeys(S, fs) ==
    UNION {{k \in Held(S, f) : \E j \in Held(S, f) : j < k} : f \in fs}
Slices(f, cuts) ==
    LET at == {f.lo, f.hi} \cup {k \in cuts : f.lo < k /\ k < f.hi}
    IN {g \in [lo : at, hi : at] : /\ g.lo < g.hi
                                  /\ \A x \in at : x <= g.lo \/ g.hi <= x}

\* compact_run: the bottom level, so no tombstone is kept and a dead key goes.
Bottom(S, f, seq) ==
    [level |-> 1, lo |-> f.lo, hi |-> f.hi, kind |-> "par", seq |-> seq, id |-> 0,
     c |-> [k \in Key |-> IF k \in Held(S, f) THEN Live(Merged(S, k)) ELSE <<>>]]

\* tier_run: one piece, the tombstones carried.
Tiered(S, f, id) ==
    Piece(f, "pcs", Max({s.seq : s \in S}), id,
          [k \in Key |-> IF k \in Held(S, f) THEN Merged(S, k) ELSE <<>>])

-----------------------------------------------------------------------------
(* Promotion: pieces that lie one above the other become partitions.          *)

FirstKey(s) == Min(Keys(s.c))
LastKey(s) == Max(Keys(s.c))

\* A mutant of Chain: a piece may start at the range's own lower fence.
ChainFromFence(f, floor, ps) ==
    /\ ps # {} /\ \A s \in ps : Keys(s.c) # {}
    /\ \A s \in ps : FirstKey(s) > floor /\ FirstKey(s) < f.hi
    /\ \A s, t \in ps : s # t => LastKey(s) < FirstKey(t) \/ LastKey(t) < FirstKey(s)

\* promotion_chain: each piece starts above what came before it (floor, the
\* partition's last key, or 0) and strictly inside the range.
Chain(f, floor, ps) ==
    /\ ps # {} /\ \A s \in ps : Keys(s.c) # {}
    /\ \A s \in ps : FirstKey(s) > floor /\ FirstKey(s) > f.lo /\ FirstKey(s) < f.hi
    /\ \A s, t \in ps : s # t => LastKey(s) < FirstKey(t) \/ LastKey(t) < FirstKey(s)

\* The ranges of the chain: each piece's from its first key to the next one's.
Above(f, ps, s) ==
    LET up == {FirstKey(t) : t \in ps \ {s}} \cap {k \in Key : k > FirstKey(s)}
    IN IF up = {} THEN f.hi ELSE Min(up)
Renamed(f, ps) ==
    {Promoted(s, [lo |-> FirstKey(s), hi |-> Above(f, ps, s)]) : s \in ps}

\* promote_ranges: the pieces of a range that may be promoted, whether they may,
\* and the segments after it.
Candidates(S, f) ==
    {s \in Pieces(S) : FenceOf(s) = f \/ (f.hi = Top /\ s.hi = Top /\ s.lo <= f.lo)}

\* The partition over a range.
Holder(S, f) == CHOOSE p \in Parts(S) : FenceOf(p) = f

\* A mutant of Promotable: the pieces cut at other fences not looked at.
PromotableOver(S, f, busy) ==
    LET ps == Candidates(S, f)
        part == Holder(S, f)
    IN /\ busy \cap (ps \cup {part}) = {}
       /\ Chain(f, IF Keys(part.c) = {} THEN 0 ELSE LastKey(part), ps)

Promotable(S, f, busy) ==
    LET ps == Candidates(S, f)
        part == Holder(S, f)
    IN /\ busy \cap (ps \cup {part}) = {}
       /\ \A s \in Pieces(S) \ ps : ~Overlap(s, f)
       /\ Chain(f, IF Keys(part.c) = {} THEN 0 ELSE LastKey(part), ps)

\* Promoted: what the pieces of a range and its partition become.
Became(S, f) ==
    LET ps == Candidates(S, f)
        low == Min({FirstKey(s) : s \in ps})
    IN Renamed(f, ps) \cup {Promoted(Holder(S, f), [lo |-> f.lo, hi |-> low])}

\* Ranges in key order.
KeyOrder(fs) ==
    [i \in 1..Cardinality(fs) |->
        CHOOSE f \in fs : Cardinality({g \in fs : g.lo < f.lo}) = i - 1]

\* promote_ranges over the due ranges: the segments after it, and the ranges
\* that still have a piece over them to merge, in key order.  A range is
\* promoted by what the ones before it left, which is all that overlaps it: the
\* pieces they took were cut at their own fences.
PromoteDue(S, due, busy) ==
    LET now == {f \in due : Promotable(S, f, busy)}
        all == (S \ UNION {Candidates(S, f) \cup {Holder(S, f)} : f \in now})
               \cup UNION {Became(S, f) : f \in now}
    IN [segs |-> all,
        rest |-> KeyOrder({f \in due \ now : \E s \in Pieces(all) : Overlap(s, f)})]

\* promote_unpartitioned: full-range pieces that do not overlap become the first
\* partitions; a lone one only without a tombstone and if it fits.
PromotableAll(S, busy, fits) ==
    /\ Parts(S) = {} /\ S # {} /\ busy \cap S = {}
    /\ Cardinality(S) = 1 => fits /\ \A s \in S : ~HasTomb(s)
    /\ Chain(Whole, 0, S)

PromoteAll(S) ==
    LET low == Min({FirstKey(s) : s \in S})
        lowest(s) == IF FirstKey(s) = low THEN 0 ELSE FirstKey(s)
    IN {Promoted(s, [lo |-> lowest(s), hi |-> Above(Whole, S, s)]) : s \in S}
=============================================================================
