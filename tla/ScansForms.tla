------------------------------ MODULE ScansForms ------------------------------
(* The forms the upkeep publishes are of the commit whose position they are   *)
(* under, and a scan that walks them, or blocks of its own, gives the values  *)
(* of its handle's commit: for any number of keys, handles, chunks, commits   *)
(* and states.                                                                *)
EXTENDS ScansProofs

-----------------------------------------------------------------------------
(* The invariant's parts.                                                     *)

Proper(f) == f # NoForm /\ f # Mark
IsCommit(b, c) == b.log = hist[c].log /\ b.len = hist[c].len /\ b.wm = hist[c].wm
Passing == pass.pc # "idle"
Looked == pass.pc \notin {"idle", "look"}

\* Blocks have read no more of the log than there is; what they have filed is
\* every entry that part of it names and their snapshot has not.
Filing(fs) ==
    /\ fs.seen <= Len(log) /\ fs.snap <= Len(slab)
    /\ fs.snap # NoSnap => fs.added = {log[l] : l \in 1..fs.seen} \ (1..fs.snap)
    /\ \A k \in Keys : fs.own[k] # NoForm => fs.own[k].ver <= fs.seen

\* A posted commit is the last one; a pass is at a commit, the last unless one is
\* posted past it; and the writer's blocks are not past either.  A handle's claim is a
\* pass over the whole of a commit that fills nothing.
PassInv ==
    /\ up.fs.gen \in 1..Len(states) /\ Filing(up.fs) /\ ~up.gone
    /\ \A b \in up.posted :
          /\ IsCommit(b, mark + 1) /\ up.fs.seen <= b.log /\ up.fs.snap <= b.len
          /\ Passing => pass.b.log < b.log
    /\ Passing =>
          /\ \E c \in DOMAIN hist : IsCommit(pass.b, c)
          /\ up.posted = {} => IsCommit(pass.b, mark + 1)
          /\ up.fs.seen <= pass.b.log /\ up.fs.snap <= pass.b.len
    /\ Looked => pass.g = up.fs.gen /\ (~pass.short => up.fs.seen = pass.b.log)
    /\ pass.pc \in {"fill", "publish", "at"} => up.fs.snap # NoSnap
    /\ pass.pc \in {"publish", "at"} => ~pass.short
    /\ Claimed => Passing /\ pass.pc # "fill" /\ up.posted = {} /\ ~pass.short

\* The writer's forms are of the table as it stands, of the commit posted and of
\* that of the pass, wherever the log past what was read does not say otherwise;
\* and in a complete table what was read has a form.
RightAt(fs, c) ==
    \A k \in Keys : fs.own[k] # NoForm /\ ~Between(fs.seen, hist[c].log, k) =>
        fs.own[k].vals = hist[c].vals[k]
NowRight(fs) ==
    \A k \in Keys : fs.own[k] # NoForm /\ ~Between(fs.seen, Len(log), k) /\ ~Writing(k) =>
        fs.own[k].vals = Values(k, tail)
ReadFormed(fs) == \A k \in Keys : fs.own[k] = NoForm => ~Between(0, fs.seen, k)
OwnInv ==
    /\ NowRight(up.fs)
    /\ up.posted # {} => RightAt(up.fs, mark + 1)
    /\ Passing => \A c \in DOMAIN hist : hist[c].log = pass.b.log => RightAt(up.fs, c)
    /\ up.complete => ReadFormed(up.fs)

\* A block that is not dirty stands in the writer's state as the writer has it.
Clean(fs, f, k) ==
    IF fs.own[k] = NoForm THEN f \in {NoForm, Mark}
    ELSE Proper(f) /\ f.ver = fs.own[k].ver /\ f.vals = fs.own[k].vals
DirtyInv == \A k \in Keys \ up.dirty : Clean(up.fs, Stands(up.fs.gen, k), k)

\* No state's position has reached the commit posted or that of the pass, unless it is
\* a claim's, and what a complete one has no form of is the partition's at every
\* commit up to it.
Reached(g) == states[g].at # Unbounded
AtInv ==
    /\ \A g \in DOMAIN states : Reached(g) =>
          /\ states[g].at <= hist[mark + 1].log
          /\ \A b \in up.posted : states[g].at < b.log
          /\ Passing => IF Claimed THEN states[g].at <= pass.b.log ELSE states[g].at < pass.b.log
    /\ \A g \in DOMAIN states : Reached(g) /\ states[g].complete =>
          \A k \in Keys : Stands(g, k) = NoForm =>
              \A c \in DOMAIN hist : hist[c].log <= states[g].at => hist[c].vals[k] = Base(k)
    /\ pass.pc = "at" => up.dirty = {} /\ states[pass.g].complete = up.complete

UpInv == PassInv /\ OwnInv /\ DirtyInv /\ AtInv /\ FormsRight


-----------------------------------------------------------------------------
(* What the log says between two positions, and the commits along it.         *)

LEMMA BetweenSplit ==
    ASSUME NEW a \in Nat, NEW b \in Nat, NEW c \in Nat, a <= b, b <= c, NEW k
    PROVE  Between(a, c, k) <=> Between(a, b, k) \/ Between(b, c, k)
<1>1. (a + 1)..c = ((a + 1)..b) \cup ((b + 1)..c)
    OBVIOUS
<1> QED
    BY <1>1, Zenon DEF Between

LEMMA BetweenNone ==
    ASSUME NEW a \in Nat, NEW b \in Nat, b <= a, NEW k
    PROVE  ~Between(a, b, k)
BY DEF Between

LEMMA BetweenWithin ==
    ASSUME NEW a \in Nat, NEW b \in Nat, NEW c \in Nat, NEW d \in Nat, a <= b, c <= d, NEW k, ~Between(a, d, k)
    PROVE  ~Between(b, c, k)
<1>1. (b + 1)..c \subseteq (a + 1)..d
    OBVIOUS
<1> QED
    BY <1>1 DEF Between

LEMMA CommitLine ==
    ASSUME CommInv, NEW c \in DOMAIN hist, NEW d \in DOMAIN hist
    PROVE  /\ c <= d => hist[c].log <= hist[d].log /\ hist[c].len <= hist[d].len
           /\ hist[c].log <= hist[d].log => c <= d
           /\ hist[c].log = hist[d].log => c = d
           /\ c <= mark + 1 /\ mark + 1 \in DOMAIN hist /\ c \in Nat /\ d \in Nat
<1>1. c \in Nat /\ d \in Nat /\ c <= mark + 1 /\ mark + 1 \in DOMAIN hist
    BY HistFacts
<1>2. hist[c].log \in Nat /\ hist[d].log \in Nat /\ hist[c].len \in Nat /\ hist[d].len \in Nat
    BY HistFacts
<1>3. /\ c < d => hist[c].log < hist[d].log /\ hist[c].len <= hist[d].len
      /\ d < c => hist[d].log < hist[c].log
    BY DEF CommInv, HistInv
<1>4. c = d \/ c < d \/ d < c
    BY <1>1
<1>5. c = d => hist[c].log <= hist[d].log /\ hist[c].len <= hist[d].len
    BY <1>2
<1>6. /\ c <= d => hist[c].log <= hist[d].log /\ hist[c].len <= hist[d].len
      /\ hist[c].log <= hist[d].log => c <= d
      /\ hist[c].log = hist[d].log => c = d
    <2> DEFINE lc == hist[c].log
               ld == hist[d].log
               nc == hist[c].len
               nd == hist[d].len
    <2>1. /\ lc \in Nat /\ ld \in Nat /\ nc \in Nat /\ nd \in Nat /\ (c < d => lc < ld /\ nc <= nd)
          /\ (d < c => ld < lc) /\ (c = d => lc <= ld /\ nc <= nd)
        BY <1>2, <1>3, <1>5
    <2> HIDE DEF lc, ld, nc, nd
    <2>2. (c <= d => lc <= ld /\ nc <= nd) /\ (lc <= ld => c <= d) /\ (lc = ld => c = d)
        BY ONLY <2>1, <1>1
    <2> QED
        BY <2>2 DEF lc, ld, nc, nd
<1> QED
    BY <1>1, <1>6

\* A key the log does not name from before a commit has what it had there.
LEMMA CommitVals ==
    ASSUME CommInv, NEW c \in DOMAIN hist, NEW d \in DOMAIN hist, c <= d, NEW k \in Keys,
           NEW n \in Nat, n <= hist[c].log, ~Between(n, hist[d].log, k)
    PROVE  hist[c].vals[k] = hist[d].vals[k]
<1>1. hist[c].log \in Nat /\ hist[d].log \in Nat
    BY HistFacts
<1>2. hist[d].log <= hist[d].log
    BY <1>1
<1>3. ~Between(hist[c].log, hist[d].log, k)
    BY <1>1, <1>2, BetweenWithin
<1> QED
    BY <1>3 DEF CommInv, ValuesInv

LEMMA CommitTail ==
    ASSUME CommInv, NEW c \in DOMAIN hist, NEW k \in Keys,
           NEW n \in Nat, n <= hist[c].log, ~Between(n, Len(log), k), ~Writing(k)
    PROVE  hist[c].vals[k] = Values(k, tail)
<1>1. hist[c].log \in Nat /\ Len(log) \in Nat
    BY HistFacts DEF CommInv, TabInv, TableType
<1>2. Len(log) <= Len(log)
    BY <1>1
<1>3. ~Between(hist[c].log, Len(log), k)
    BY <1>1, <1>2, BetweenWithin
<1> QED
    BY <1>3 DEF CommInv, ValuesInv

LEMMA CommitBase ==
    ASSUME CommInv, NEW c \in DOMAIN hist, NEW k \in Keys, NEW n \in Nat, hist[c].log <= n, ~Between(0, n, k)
    PROVE  hist[c].vals[k] = Base(k)
<1>1. hist[c].log \in Nat /\ c \in 1..(mark + 1) /\ mark \in Nat /\ DOMAIN hist = 1..(mark + 1)
    BY HistFacts
<1>2. 1 \in DOMAIN hist /\ 1 <= c
    BY <1>1
<1>3. ~Between(0, hist[c].log, k)
    BY <1>1, BetweenWithin
<1>4. hist[1].log = 0 /\ hist[1].vals[k] = Base(k)
    BY DEF CommInv, HistInv
<1> QED
    BY <1>2, <1>3, <1>4 DEF CommInv, ValuesInv

LEMMA CommitWm ==
    ASSUME CommInv, NEW c \in DOMAIN hist, NEW k \in Keys
    PROVE  Values(k, hist[c].wm) = hist[c].vals[k]
BY DEF CommInv, ValuesInv

\* The log up to a commit names its entries and no other.
LEMMA CommitEntries ==
    ASSUME CommInv, NEW c \in DOMAIN hist
    PROVE  /\ {log[l] : l \in 1..hist[c].log} = 1..hist[c].len
           /\ hist[c].len <= Len(slab) /\ hist[c].log <= Len(log)
<1>1. /\ hist[c].log \in Nat /\ hist[c].len \in Nat /\ hist[c].len <= Len(slab) /\ hist[c].log <= Len(log)
      /\ Len(log) \in Nat /\ log \in Seq(1..MaxChunk)
    BY HistFacts DEF CommInv, TabInv, TableType
<1>2. /\ \A e \in 1..hist[c].len : \E l \in 1..hist[c].log : log[l] = e
      /\ \A l \in 1..hist[c].log : log[l] <= hist[c].len
    BY DEF CommInv, HistInv
<1>3. \A l \in 1..hist[c].log : log[l] \in 1..hist[c].len
    <2> TAKE l \in 1..hist[c].log
    <2>1. l \in 1..Len(log)
        BY <1>1
    <2>2. log[l] \in 1..MaxChunk
        BY <1>1, <2>1, ElementOfSeq, Zenon
    <2>3. log[l] <= hist[c].len
        BY <1>2
    <2> QED
        BY <1>1, <2>2, <2>3, Numbers
<1> QED
    BY <1>1, <1>2, <1>3

\* A table at rest has every entry in the log.
LEMMA RestEntries ==
    ASSUME TabInv, ~Under
    PROVE  {log[l] : l \in 1..Len(log)} = 1..Len(slab)
<1>1. log \in Seq(1..MaxChunk) /\ Len(log) \in Nat /\ DOMAIN log = 1..Len(log) /\ DOMAIN slab = 1..Len(slab) /\ Len(slab) \in Nat
    BY DEF TabInv, TableType
<1>2. \A e \in 1..Len(slab) : \E l \in 1..Len(log) : log[l] = e
    BY <1>1 DEF TabInv, EntryInv
<1>3. \A l \in 1..Len(log) : log[l] \in 1..Len(slab)
    <2> TAKE l \in 1..Len(log)
    <2>1. log[l] \in 1..MaxChunk
        BY <1>1, ElementOfSeq, Zenon
    <2>2. log[l] <= Len(slab)
        BY <1>1 DEF TabInv, TableInv
    <2> QED
        BY <1>1, <2>1, <2>2, Numbers
<1> QED
    BY <1>2, <1>3

-----------------------------------------------------------------------------
(* Blocks: what a look, a snapshot and a build do to them.                    *)

\* A key read of the log is one it names between the two positions.
LEMMA ReadIs ==
    ASSUME NEW fs, NEW n, NEW k
    PROVE  k \in ReadOf(fs, n) <=> Between(fs.seen, n, k)
BY DEF ReadOf, Between

LEMMA FsTypes ==
    ASSUME NEW fs \in FormsStates
    PROVE  /\ fs.seen \in 0..MaxChunk /\ fs.seen \in Nat /\ fs.snap \in Int /\ fs.snap >= NoSnap
           /\ fs.own \in [Keys -> Forms \cup {NoForm}] /\ fs.added \subseteq 1..MaxChunk /\ fs.gen \in Nat
           /\ \A k \in Keys : fs.own[k] # NoForm => fs.own[k].ver \in 0..MaxChunk /\ fs.own[k].ver \in Nat
<1>1. /\ fs.seen \in 0..MaxChunk /\ fs.snap \in NoSnap..MaxChunk /\ fs.gen \in 0..MaxGen
      /\ fs.own \in [Keys -> Forms \cup {NoForm}] /\ fs.added \subseteq 1..MaxChunk
    BY DEF FormsStates
<1>2. \A k \in Keys : fs.own[k] # NoForm => fs.own[k].ver \in 0..MaxChunk
    BY <1>1 DEF Forms
<1> QED
    BY <1>1, <1>2, Numbers

LEMMA SettledIs ==
    ASSUME NEW fs \in FormsStates, NEW n \in 0..MaxChunk, n >= fs.seen, NEW wm
    PROVE  LET r == Settled(fs, n, wm)
           IN  /\ r.seen = n /\ r.snap = fs.snap /\ r.gen = fs.gen
               /\ \A k \in Keys : r.own[k] = IF Between(fs.seen, n, k) /\ fs.own[k] # NoForm
                                             THEN [ver |-> n, vals |-> Values(k, wm)] ELSE fs.own[k]
               /\ fs.snap # NoSnap => r.added = fs.added \cup Created(fs, n)
<1>0. fs.seen \in Nat /\ n \in Nat
    BY FsTypes, Numbers
<1>1. CASE n = fs.seen
    <2>1. Settled(fs, n, wm) = fs
        BY <1>0, <1>1 DEF Settled
    <2>2. \A k \in Keys : ~Between(fs.seen, n, k)
        BY <1>0, <1>1, BetweenNone
    <2>3. Created(fs, n) = {}
        BY <1>0, <1>1 DEF Created
    <2> QED
        BY <1>1, <2>1, <2>2, <2>3
<1>2. CASE n # fs.seen
    <2> DEFINE added == IF fs.snap = NoSnap THEN {} ELSE fs.added \cup Created(fs, n)
               own == [k \in Keys |-> IF k \in ReadOf(fs, n) /\ fs.own[k] # NoForm
                          THEN [ver |-> n, vals |-> Values(k, wm)] ELSE fs.own[k]]
    <2>1. ~(n <= fs.seen)
        BY <1>0, <1>2
    <2>2. Settled(fs, n, wm) = [fs EXCEPT !.seen = n, !.added = added, !.own = own]
        BY <2>1, Zenon DEF Settled
    <2>3. \A k \in Keys : own[k] = IF Between(fs.seen, n, k) /\ fs.own[k] # NoForm
                                   THEN [ver |-> n, vals |-> Values(k, wm)] ELSE fs.own[k]
        BY ReadIs
    <2>4. fs.snap # NoSnap => added = fs.added \cup Created(fs, n)
        OBVIOUS
    <2> HIDE DEF added, own
    <2>5. LET r == Settled(fs, n, wm)
          IN  r.seen = n /\ r.snap = fs.snap /\ r.gen = fs.gen /\ r.own = own /\ r.added = added
        BY <2>2 DEF FormsStates
    <2> QED
        BY <2>3, <2>4, <2>5
<1> QED
    BY <1>1, <1>2

\* The entries filed are those the log names first past where it was read.
LEMMA FilingSettled ==
    ASSUME TabInv, NEW fs \in FormsStates, Filing(fs), NEW n \in 0..MaxChunk, n >= fs.seen, n <= Len(log), NEW wm
    PROVE  Filing(Settled(fs, n, wm))
<1> DEFINE r == Settled(fs, n, wm)
<1>0. /\ fs.seen \in Nat /\ n \in Nat /\ Len(log) \in Nat /\ log \in Seq(1..MaxChunk) /\ fs.snap \in Int
      /\ fs.snap >= -1 /\ \A k \in Keys : fs.own[k] # NoForm => fs.own[k].ver \in Nat
    BY FsTypes, Numbers DEF TabInv, TableType
<1>1. /\ r.seen = n /\ r.snap = fs.snap
      /\ \A k \in Keys : r.own[k] = IF Between(fs.seen, n, k) /\ fs.own[k] # NoForm
                                    THEN [ver |-> n, vals |-> Values(k, wm)] ELSE fs.own[k]
      /\ fs.snap # NoSnap => r.added = fs.added \cup Created(fs, n)
    BY SettledIs
<1> HIDE DEF r
<1>2. r.seen <= Len(log) /\ r.snap <= Len(slab)
    BY <1>1 DEF Filing
<1>3. \A k \in Keys : r.own[k] # NoForm => r.own[k].ver <= r.seen
    <2> SUFFICES ASSUME NEW k \in Keys, r.own[k] # NoForm PROVE r.own[k].ver <= n
        BY <1>1
    <2>1. CASE Between(fs.seen, n, k) /\ fs.own[k] # NoForm
        <3>1. r.own[k] = [ver |-> n, vals |-> Values(k, wm)]
            BY <1>1, <2>1
        <3>2. r.own[k].ver = n
            BY <3>1
        <3> QED
            BY <1>0, <3>2
    <2>2. CASE ~(Between(fs.seen, n, k) /\ fs.own[k] # NoForm)
        <3>1. r.own[k] = fs.own[k]
            BY <1>1, <2>2
        <3>2. fs.own[k].ver <= fs.seen /\ fs.own[k].ver \in Nat
            BY <3>1, <1>0 DEF Filing
        <3> QED
            BY ONLY <3>1, <3>2, <1>0, n >= fs.seen
    <2> QED
        BY <2>1, <2>2
<1>4. ASSUME fs.snap # NoSnap PROVE r.added = {log[l] : l \in 1..n} \ (1..fs.snap)
    <2>0. fs.added = {log[l] : l \in 1..fs.seen} \ (1..fs.snap) /\ r.added = fs.added \cup Created(fs, n)
        BY <1>1, <1>4 DEF Filing
    <2>1. \A l \in 1..n : log[l] \in 1..MaxChunk /\ log[l] \in Nat /\ log[l] >= 1
        <3> TAKE l \in 1..n
        <3>1. l \in 1..Len(log)
            BY <1>0
        <3>2. log[l] \in 1..MaxChunk
            BY <1>0, <3>1, ElementOfSeq, Zenon
        <3> QED
            BY <3>2, Numbers
    <2>2. \A j \in (fs.seen + 1)..n : j \in 1..n
        BY <1>0
    <2>3. Created(fs, n) \subseteq {log[l] : l \in 1..n} \ (1..fs.snap)
        <3> SUFFICES ASSUME NEW j \in (fs.seen + 1)..n, log[j] > fs.snap
                     PROVE  log[j] \in {log[l] : l \in 1..n} /\ log[j] \notin 1..fs.snap
            BY DEF Created
        <3>1. j \in 1..n /\ log[j] \in Nat
            BY <2>1, <2>2
        <3> QED
            BY <3>1, <1>0
    <2>4. fs.added \subseteq {log[l] : l \in 1..n} \ (1..fs.snap)
        <3>1. 1..fs.seen \subseteq 1..n
            BY <1>0
        <3> QED
            BY <2>0, <3>1
    <2>5. ASSUME NEW l \in 1..n, log[l] \notin 1..fs.snap PROVE log[l] \in r.added
        <3>1. CASE \E m \in 1..fs.seen : log[m] = log[l]
            BY <3>1, <2>0, <2>5
        <3>2. CASE ~\E m \in 1..fs.seen : log[m] = log[l]
            <4> DEFINE J == {m \in 1..n : log[m] = log[l]}
            <4>1. J \in SUBSET Nat /\ J # {}
                BY <2>5
            <4>2. PICK j \in J : \A m \in J : j <= m
                BY <4>1, LeastOf
            <4>3. j \in 1..n /\ log[j] = log[l] /\ j \notin 1..fs.seen
                BY <3>2, <4>2
            <4>4. j \in (fs.seen + 1)..n
                BY <4>3, <1>0
            <4>5. \A m \in 1..(j - 1) : log[m] # log[j]
                <5> TAKE m \in 1..(j - 1)
                <5>1. m \in 1..n /\ ~(j <= m)
                    BY <4>3, <1>0
                <5> QED
                    BY <5>1, <4>2, <4>3
            <4>6. log[j] > fs.snap
                <5>1. log[l] \in Nat /\ log[l] >= 1
                    BY <2>1, <2>5
                <5> QED
                    BY <5>1, <4>3, <2>5, <1>0
            <4>7. log[j] \in Created(fs, n)
                BY <4>4, <4>5, <4>6 DEF Created
            <4> QED
                BY <4>3, <4>7, <2>0
        <3> QED
            BY <3>1, <3>2
    <2> QED
        BY <2>0, <2>3, <2>4, <2>5
<1>5. Filing(r)
    BY <1>1, <1>2, <1>3, <1>4 DEF Filing
<1> QED
    BY <1>5 DEF r

LEMMA RefreshedIs ==
    ASSUME NEW fs \in FormsStates, NEW p, NEW len
    PROVE  LET r == Refreshed(fs, p, len)
           IN  r.seen = fs.seen /\ r.gen = fs.gen /\ r.own = fs.own /\ r.snap = len /\ r.added = {}
BY DEF Refreshed, Taken, FormsStates

LEMMA FilingRefreshed ==
    ASSUME NEW fs \in FormsStates, Filing(fs), NEW len, len <= Len(slab), NEW p,
           \A l \in 1..fs.seen : log[l] \in 1..len
    PROVE  Filing(Refreshed(fs, p, len))
<1>1. LET r == Refreshed(fs, p, len)
      IN  r.seen = fs.seen /\ r.own = fs.own /\ r.snap = len /\ r.added = {}
    BY RefreshedIs
<1>2. {log[l] : l \in 1..fs.seen} \ (1..len) = {}
    OBVIOUS
<1> QED
    BY <1>1, <1>2 DEF Filing

\* The writer goes on.
LEMMA FilingStays ==
    ASSUME TabInv, [Next]_vars, NEW fs \in FormsStates, Filing(fs)
    PROVE  Filing(fs)'
<1>1. /\ Len(log) <= Len(log') /\ Len(slab) <= Len(slab') /\ \A i \in 1..Len(log) : log'[i] = log[i]
      /\ Len(log) \in Nat /\ Len(slab) \in Nat /\ Len(log') \in Nat /\ Len(slab') \in Nat
    <2>1. Later /\ TabInv'
        BY TableLater, TableNext
    <2>2. Len(log) \in Nat /\ Len(slab) \in Nat
        BY DEF TabInv, TableType
    <2>3. Len(log') \in Nat /\ Len(slab') \in Nat
        BY <2>1 DEF TabInv, TableType
    <2> QED
        BY <2>1, <2>2, <2>3, Zenon DEF Later
<1>2. fs.seen <= Len(log) /\ fs.snap <= Len(slab) /\ fs.seen \in Nat /\ fs.snap \in Int
    BY FsTypes DEF Filing
<1>3. fs.seen <= Len(log') /\ fs.snap <= Len(slab')
    BY ONLY <1>1, <1>2
<1>4. 1..fs.seen \subseteq 1..Len(log)
    BY <1>1, <1>2
<1>5. \A l \in 1..fs.seen : log'[l] = log[l]
    BY <1>1, <1>4
<1>6. {log'[l] : l \in 1..fs.seen} = {log[l] : l \in 1..fs.seen}
    BY <1>5
<1> QED
    BY <1>3, <1>6 DEF Filing

\* A key the log named is overlaid.
LEMMA OverlaidRead ==
    ASSUME TabInv, NEW fs \in FormsStates, Filing(fs), fs.snap # NoSnap, NEW k \in Keys,
           NEW e \in DOMAIN slab, slab[e] = k, \E l \in 1..fs.seen : log[l] = e
    PROVE  Overlaid(fs, k)
<1>1. e \in Nat /\ e >= 1 /\ fs.snap \in Int
    BY FsTypes DEF TabInv, TableType
<1>2. e \in 1..fs.snap \/ e \in fs.added
    BY DEF Filing
<1> QED
    BY <1>1, <1>2 DEF Overlaid

LEMMA OverlaidBetween ==
    ASSUME TabInv, NEW fs \in FormsStates, Filing(fs), fs.snap # NoSnap, NEW k \in Keys, ~Overlaid(fs, k)
    PROVE  ~Between(0, fs.seen, k)
<1> SUFFICES ASSUME NEW l \in 1..fs.seen, slab[log[l]] = k PROVE FALSE
    BY DEF Between
<1>1. fs.seen \in Nat /\ fs.seen <= Len(log) /\ Len(log) \in Nat /\ DOMAIN log = 1..Len(log) /\ log \in Seq(1..MaxChunk)
    BY FsTypes DEF Filing, TabInv, TableType
<1>2. l \in 1..Len(log)
    BY <1>1
<1>3. log[l] \in 1..MaxChunk /\ log[l] <= Len(slab) /\ Len(slab) \in Nat /\ DOMAIN slab = 1..Len(slab)
    <2>1. log[l] \in 1..MaxChunk
        BY <1>1, <1>2, ElementOfSeq, Zenon
    <2>2. log[l] <= Len(slab)
        BY <1>1, <1>2 DEF TabInv, TableInv
    <2>3. Len(slab) \in Nat /\ DOMAIN slab = 1..Len(slab)
        BY DEF TabInv, TableType
    <2> QED
        BY <2>1, <2>2, <2>3
<1>4. log[l] \in DOMAIN slab
    BY <1>3, Numbers
<1> QED
    BY <1>4, OverlaidRead

LEMMA FiledOwn ==
    ASSUME TabInv, NEW u \in UpSet, NEW n \in 0..MaxChunk, n >= u.fs.seen, n <= Len(log), NEW wm \in Nat, NEW drop
    PROVE  LET r == Filed(u, n, wm, drop)
           IN  /\ r \in UpSet /\ r.posted = u.posted /\ r.gone = u.gone
               /\ r.fs.seen = n /\ r.fs.snap = u.fs.snap /\ r.fs.gen = u.fs.gen
               /\ \A k \in Keys : r.fs.own[k] =
                     IF k \in drop THEN NoForm
                     ELSE IF Between(u.fs.seen, n, k) /\ u.fs.own[k] # NoForm
                     THEN [ver |-> n, vals |-> Values(k, wm)] ELSE u.fs.own[k]
               /\ u.dirty \subseteq r.dirty
               /\ \A k \in Keys : Between(u.fs.seen, n, k) /\ k \notin drop /\ u.fs.own[k] # NoForm => k \in r.dirty
               /\ r.complete => /\ u.complete
                                /\ \A k \in Keys : Between(u.fs.seen, n, k) => k \notin drop /\ u.fs.own[k] # NoForm
               /\ Filing(u.fs) => Filing(r.fs)
<1> DEFINE r == Filed(u, n, wm, drop)
           v == Kept(u, drop)
<1>1. /\ r \in UpSet /\ r.posted = u.posted /\ r.gone = u.gone /\ r.fs = Settled(v, n, wm)
      /\ r.dirty = Dirtied(u, drop, n) /\ r.complete = Whole(u, drop, n)
    BY FiledType DEF TabInv
<1>2. v \in FormsStates /\ v.seen = u.fs.seen
    BY FiledIs
<1>3. /\ v.snap = u.fs.snap /\ v.gen = u.fs.gen /\ v.added = u.fs.added
      /\ \A k \in Keys : v.own[k] = IF k \in drop THEN NoForm ELSE u.fs.own[k]
    BY DEF Kept, UpSet, FormsStates
<1> HIDE DEF r
<1>4. \A k \in Keys : Formed(u, drop) = {x \in Keys : x \notin drop /\ u.fs.own[x] # NoForm}
    BY <1>3 DEF Formed
<1>5. u.dirty \subseteq r.dirty
    BY <1>1 DEF Dirtied
<1>6. \A k \in Keys : Between(u.fs.seen, n, k) /\ k \notin drop /\ u.fs.own[k] # NoForm => k \in r.dirty
    BY <1>1, <1>4, ReadIs DEF Dirtied
<1>7. r.complete => /\ u.complete
                    /\ \A k \in Keys : Between(u.fs.seen, n, k) => k \notin drop /\ u.fs.own[k] # NoForm
    <2>1. r.complete = (u.complete /\ ReadOf(u.fs, n) \subseteq Formed(u, drop))
        BY <1>1, Zenon DEF Whole
    <2> QED
        BY <2>1, <1>4, ReadIs, Zenon
<1> HIDE DEF v
<1>8. /\ r.fs.seen = n /\ r.fs.snap = v.snap /\ r.fs.gen = v.gen
      /\ \A k \in Keys : r.fs.own[k] = IF Between(v.seen, n, k) /\ v.own[k] # NoForm
                                       THEN [ver |-> n, vals |-> Values(k, wm)] ELSE v.own[k]
    BY <1>1, <1>2, SettledIs
<1>9. \A k \in Keys : r.fs.own[k] =
                     IF k \in drop THEN NoForm
                     ELSE IF Between(u.fs.seen, n, k) /\ u.fs.own[k] # NoForm
                     THEN [ver |-> n, vals |-> Values(k, wm)] ELSE u.fs.own[k]
    BY <1>2, <1>3, <1>8
<1>10. ASSUME Filing(u.fs) PROVE Filing(r.fs)
    <2>1. Filing(v)
        BY <1>2, <1>3, <1>10 DEF Filing
    <2> QED
        BY <1>1, <1>2, <2>1, FilingSettled
<1>11. r.fs.snap = u.fs.snap /\ r.fs.gen = u.fs.gen
    BY <1>3, <1>8
<1> QED
    BY <1>1, <1>5, <1>6, <1>7, <1>8, <1>9, <1>10, <1>11 DEF r

LEMMA FiledSeen ==
    ASSUME TabInv, NEW u \in UpSet, NEW n \in 0..MaxChunk, n >= u.fs.seen, n <= Len(log), NEW wm \in Nat, NEW drop
    PROVE  Filed(u, n, wm, drop).fs.seen = n
<1>1. Filed(u, n, wm, drop).fs = Settled(Kept(u, drop), n, wm)
    BY FiledType DEF TabInv
<1>2. Kept(u, drop) \in FormsStates /\ Kept(u, drop).seen = u.fs.seen
    BY FiledIs, Zenon
<1> QED
    BY <1>1, <1>2, SettledIs

-----------------------------------------------------------------------------
(* Steps that leave the forms alone.                                          *)

LEMMA RightStays ==
    ASSUME CommInv, [Next]_vars, NEW fs \in FormsStates, NEW c \in DOMAIN hist, hist'[c] = hist[c], RightAt(fs, c)
    PROVE  RightAt(fs, c)'
<1>1. hist[c].log \in Nat /\ hist[c].log <= Len(log) /\ fs.seen \in Nat
    BY HistFacts, FsTypes
<1>2. \A k : Between(fs.seen, hist[c].log, k)' <=> Between(fs.seen, hist[c].log, k)
    <2>1. TabInv /\ Later
        BY TableLater DEF CommInv
    <2>2. PICK m \in Nat : m = hist[c].log
        BY <1>1
    <2>3. \A k : Between(fs.seen, m, k)' <=> Between(fs.seen, m, k)
        BY <1>1, <2>1, <2>2, BetweenStays
    <2> QED
        BY <2>2, <2>3, hist'[c] = hist[c]
<1> QED
    BY <1>2 DEF RightAt

LEMMA NowStays ==
    ASSUME TabInv, [Next]_vars, NEW fs \in FormsStates, Filing(fs), NowRight(fs)
    PROVE  NowRight(fs)'
<1> SUFFICES ASSUME NEW k \in Keys, fs.own[k] # NoForm, ~Between(fs.seen, Len(log), k)', ~Writing(k)'
             PROVE  fs.own[k].vals = Values(k, tail)'
    BY DEF NowRight
<1>1. fs.seen \in Nat /\ fs.seen <= Len(log)
    BY FsTypes DEF Filing
<1>2. ~Between(fs.seen, Len(log), k) /\ ~Writing(k) /\ chain'[k] = chain[k]
    BY <1>1, Untouched
<1>3. Values(k, tail)' = Values(k, tail)
    BY <1>2, ValuesUntouched
<1> QED
    BY <1>2, <1>3 DEF NowRight

LEMMA ReadStays ==
    ASSUME TabInv, [Next]_vars, NEW fs \in FormsStates, Filing(fs), ReadFormed(fs)
    PROVE  ReadFormed(fs)'
<1>1. fs.seen \in Nat /\ fs.seen <= Len(log) /\ 0 \in Nat
    BY FsTypes DEF Filing
<1>2. \A k : Between(0, fs.seen, k)' <=> Between(0, fs.seen, k)
    BY <1>1, TableLater, BetweenStays
<1> QED
    BY <1>2 DEF ReadFormed

LEMMA UpFs ==
    ASSUME BlockInv
    PROVE  /\ up \in UpSet /\ up.fs \in FormsStates /\ pass \in PassSet /\ states \in Seq(StateSet)
           /\ DOMAIN states = 1..Len(states) /\ Len(states) \in Nat
           /\ pass.b.log \in 0..MaxChunk /\ pass.b.log \in Nat /\ pass.b.len \in Nat /\ pass.b.wm \in Nat
           /\ pass.g \in Nat
           /\ \A b \in up.posted : b.log \in Nat /\ b.len \in Nat /\ b \in CommitSet
           /\ \A a, b \in up.posted : a = b
           /\ \A g \in DOMAIN states : states[g] \in StateSet /\ states[g].at \in Nat
<1>1. up \in UpSet /\ pass \in PassSet /\ states \in Seq(StateSet) /\ DOMAIN states = 1..Len(states) /\ Len(states) \in Nat
    BY DEF BlockInv, BlockType
<1>2. up.fs \in FormsStates /\ up.posted \subseteq CommitSet
    BY <1>1 DEF UpSet
<1>3. pass.b \in CommitSet /\ pass.g \in Nat
    BY <1>1 DEF PassSet
<1>4. \A b \in CommitSet : b.log \in 0..MaxChunk /\ b.log \in Nat /\ b.len \in Nat /\ b.wm \in Nat
    BY Numbers DEF CommitSet
<1>5. \A g \in DOMAIN states : states[g] \in StateSet
    BY <1>1, ElementOfSeq
<1>6. \A s \in StateSet : s.at \in Nat
    BY Numbers DEF StateSet
<1>7. \A a, b \in up.posted : a = b
    BY DEF BlockInv, BlockPoint
<1> QED
    BY <1>1, <1>2, <1>3, <1>4, <1>5, <1>6, <1>7

SameForms ==
    /\ Len(states') = Len(states) /\ DOMAIN states' = DOMAIN states
    /\ \A g \in DOMAIN states : /\ states'[g].forms = states[g].forms /\ states'[g].at = states[g].at
                                /\ states'[g].complete = states[g].complete

LEMMA UpStands ==
    ASSUME CommInv, BlockInv, UpInv, [Next]_vars, SameForms, UNCHANGED <<up, pass, land, mark, hist>>,
           Claimed' <=> Claimed
    PROVE  UpInv'
<1>0. up.fs \in FormsStates /\ TabInv /\ Len(states) \in Nat /\ DOMAIN states = 1..Len(states)
    BY UpFs DEF CommInv
<1>1. PICK fs \in FormsStates : fs = up.fs
    BY <1>0
<1>2. up' = up /\ pass' = pass /\ land' = land /\ mark' = mark /\ hist' = hist /\ up'.fs = fs
    BY <1>1
<1>3. Filing(up.fs)'
    <2>1. Filing(fs)'
        BY <1>0, <1>1, FilingStays DEF UpInv, PassInv
    <2> QED
        BY <1>2, <2>1 DEF Filing
<1>4. PassInv'
    <2>1. PassInv
        BY DEF UpInv
    <2> QED
        BY <1>2, <1>3, <2>1 DEF PassInv, SameForms, Passing, Looked, IsCommit
<1>5. OwnInv'
    <2>0. OwnInv /\ Filing(fs)
        BY <1>1 DEF UpInv, PassInv
    <2>1. NowRight(up.fs)'
        <3>1. NowRight(fs)'
            BY <1>0, <1>1, <2>0, NowStays DEF OwnInv
        <3> QED
            BY <1>2, <3>1 DEF NowRight
    <2>2. \A c \in DOMAIN hist : RightAt(up.fs, c) => RightAt(up.fs, c)'
        <3> SUFFICES ASSUME NEW c \in DOMAIN hist, RightAt(fs, c) PROVE RightAt(fs, c)'
            BY <1>1, <1>2 DEF RightAt
        <3> QED
            BY <1>2, RightStays
    <2>3. up.complete => ReadFormed(up.fs)'
        <3>1. up.complete => ReadFormed(fs)'
            BY <1>0, <1>1, <2>0, ReadStays DEF OwnInv
        <3> QED
            BY <1>2, <3>1 DEF ReadFormed
    <2>4. up.posted # {} => RightAt(up.fs, mark + 1)'
        <3>1. mark + 1 \in DOMAIN hist
            BY DEF CommInv, CommitType, HistInv
        <3>2. PICK c \in DOMAIN hist : c = mark + 1
            BY <3>1
        <3>3. up.posted # {} => RightAt(up.fs, c)'
            BY <2>0, <2>2, <3>2 DEF OwnInv
        <3> QED
            BY <1>2, <3>2, <3>3 DEF RightAt
    <2>5. Passing => \A c \in DOMAIN hist : hist[c].log = pass.b.log => RightAt(up.fs, c)'
        BY <2>0, <2>2 DEF OwnInv
    <2> QED
        BY <1>2, <2>1, <2>3, <2>4, <2>5 DEF OwnInv, Passing
<1>6. \A g \in DOMAIN states : \A k \in Keys : Stands(g, k)' = Stands(g, k)
    BY DEF Stands, SameForms
<1>8. DirtyInv'
    <2>1. DirtyInv /\ up.fs.gen \in DOMAIN states
        BY <1>0 DEF UpInv, PassInv
    <2>2. \A k \in Keys : Stands(up.fs.gen, k)' = Stands(up.fs.gen, k)
        BY <1>2, <2>1 DEF Stands, SameForms
    <2> QED
        BY <1>2, <2>1, <2>2 DEF DirtyInv, Clean
<1>9. AtInv'
    <2>1. AtInv /\ (pass.pc = "at" => pass.g \in DOMAIN states)
        BY <1>0, PassIn DEF UpInv
    <2> QED
        BY <1>2, <1>6, <2>1 DEF AtInv, Reached, Passing, SameForms, Base
<1>10. FormsRight'
    <2>1. FormsRight
        BY DEF UpInv
    <2> QED
        BY <1>2, <1>6, <2>1 DEF FormsRight, SameForms, Base
<1> QED
    BY <1>4, <1>5, <1>8, <1>9, <1>10 DEF UpInv

-----------------------------------------------------------------------------
(* A commit, a pass's beginning and its snapshot, and landings.               *)

LEMMA CommitAdds ==
    ASSUME CommInv, CommitMark
    PROVE  /\ mark' = mark + 1 /\ Len(hist) = mark + 1 /\ Len(hist') = mark + 2 /\ mark \in Nat
           /\ DOMAIN hist = 1..(mark + 1) /\ DOMAIN hist' = 1..(mark + 2)
           /\ \A c \in DOMAIN hist : hist'[c] = hist[c]
           /\ hist'[mark + 2].log = Len(log) /\ hist'[mark + 2].len = Len(slab) /\ hist'[mark + 2].wm = tail
           /\ \A k \in Keys : hist'[mark + 2].vals[k] = Values(k, tail)
           /\ \A c \in DOMAIN hist : hist[c].log < Len(log)
           /\ UNCHANGED <<slab, chain, tail, log>> /\ ~Under /\ ~Under'
<1> DEFINE e == Commit([log |-> Len(log), len |-> Len(slab), wm |-> tail], [k \in Keys |-> Values(k, tail)])
<1>1. mark' = mark + 1 /\ hist' = Append(hist, e) /\ wr.pc = "mark"
    BY DEF CommitMark
<1>2. mark \in Nat /\ hist \in Seq(HistSet) /\ Len(hist) = mark + 1 /\ Len(log) \in Nat
    BY DEF CommInv, CommitType, HistInv, TabInv, TableType
<1>3. e.log = Len(log) /\ e.len = Len(slab) /\ e.wm = tail /\ \A k \in Keys : e.vals[k] = Values(k, tail)
    BY DEF Commit
<1> HIDE DEF e
<1>4. /\ Len(hist') = mark + 2 /\ DOMAIN hist = 1..(mark + 1) /\ DOMAIN hist' = 1..(mark + 2)
      /\ (\A c \in 1..(mark + 1) : hist'[c] = hist[c]) /\ hist'[mark + 2] = e
    BY <1>1, <1>2
<1>5. \A c \in DOMAIN hist : hist[c].log < Len(log)
    <2> TAKE c \in DOMAIN hist
    <2>1. mark + 1 \in DOMAIN hist /\ c <= mark + 1
        BY <1>2, <1>4
    <2>2. hist[c].log <= hist[mark + 1].log /\ hist[c].log \in Nat /\ hist[mark + 1].log \in Nat
        BY <2>1, CommitLine, HistFacts
    <2>3. Len(log) > hist[mark + 1].log
        BY <1>1 DEF CommInv, MarkInv
    <2> QED
        BY ONLY <2>2, <2>3, <1>2
<1>6. UNCHANGED <<slab, chain, tail, log>> /\ ~Under /\ ~Under'
    BY TableCommits DEF CommInv
<1> QED
    BY <1>1, <1>2, <1>3, <1>4, <1>5, <1>6

LEMMA UpCommitMark ==
    ASSUME CommInv, BlockInv, UpInv, [Next]_vars, CommitMark
    PROVE  UpInv'
<1> DEFINE b == [log |-> Len(log), len |-> Len(slab), wm |-> tail]
<1>0. /\ mark' = mark + 1 /\ mark \in Nat /\ Len(log) \in Nat /\ Len(slab) \in Nat
      /\ DOMAIN hist = 1..(mark + 1) /\ DOMAIN hist' = 1..(mark + 2)
      /\ \A c \in DOMAIN hist : hist'[c] = hist[c]
      /\ hist'[mark + 2].log = Len(log) /\ hist'[mark + 2].len = Len(slab) /\ hist'[mark + 2].wm = tail
      /\ \A k \in Keys : hist'[mark + 2].vals[k] = Values(k, tail)
      /\ \A c \in DOMAIN hist : hist[c].log < Len(log) /\ hist[c].log \in Nat
      /\ UNCHANGED <<slab, chain, tail, log>> /\ ~Under /\ ~Under'
    BY CommitAdds, HistFacts DEF CommInv, TabInv, TableType
<1>1. UNCHANGED <<states, pass, land>> /\ up' = [up EXCEPT !.posted = {b}] /\ ~Claimed /\ ~Claimed'
    BY DEF CommitMark, Claimed, Resting
<1>2. b.log = Len(log) /\ b.len = Len(slab) /\ b.wm = tail
    OBVIOUS
<1> HIDE DEF b
<1>3. /\ up'.fs = up.fs /\ up'.posted = {b} /\ up'.dirty = up.dirty /\ up'.complete = up.complete
      /\ up'.gone = up.gone /\ up.fs \in FormsStates /\ up.fs.seen \in Nat
    BY <1>1, UpFs, FsTypes DEF UpSet
<1>4. mark' + 1 = mark + 2 /\ mark + 2 \in DOMAIN hist' /\ mark + 1 \in DOMAIN hist /\ DOMAIN hist' = DOMAIN hist \cup {mark + 2}
      /\ mark + 2 \notin DOMAIN hist
    BY <1>0
<1>5. PassInv'
    <2>0. PassInv /\ Filing(up.fs)
        BY DEF UpInv, PassInv
    <2>1. Filing(up.fs)'
        BY <1>0, <1>3, <2>0 DEF Filing
    <2>2. Passing => \E c \in DOMAIN hist : IsCommit(pass.b, c)
        BY <2>0 DEF PassInv
    <2>3. Passing => pass.b.log < Len(log)
        BY <1>0, <2>2 DEF IsCommit
    <2>5. Passing => \E c \in DOMAIN hist' : IsCommit(pass.b, c)'
        BY <1>0, <1>1, <1>4, <2>2 DEF IsCommit
    <2>6. \A x \in up'.posted : x = b
        BY <1>3
    <2>7. up.fs.seen <= b.log /\ up.fs.snap <= b.len
        BY <1>2, <2>0 DEF Filing
    <2>8. \A x \in up'.posted : IsCommit(x, mark + 1)' /\ up'.fs.seen <= x.log /\ up'.fs.snap <= x.len /\ (Passing' => pass'.b.log < x.log)
        <3> SUFFICES ASSUME NEW x \in up'.posted
                     PROVE  IsCommit(x, mark + 1)' /\ up'.fs.seen <= x.log /\ up'.fs.snap <= x.len /\ (Passing' => pass'.b.log < x.log)
            OBVIOUS
        <3>1. x = b
            BY <2>6
        <3>2. IsCommit(x, mark + 1)'
            BY <1>0, <1>2, <1>4, <3>1 DEF IsCommit
        <3> QED
            BY <1>1, <1>2, <1>3, <2>3, <2>7, <3>1, <3>2 DEF Passing
    <2> QED
        BY <1>1, <1>3, <2>0, <2>1, <2>5, <2>8 DEF PassInv, Passing, Looked
<1>6. OwnInv'
    <2>0. OwnInv
        BY DEF UpInv
    <2>1. NowRight(up.fs)'
        <3>1. \A k \in Keys : Values(k, tail)' = Values(k, tail)
            BY <1>0 DEF Values, Live, Base
        <3>2. \A k \in Keys : ~Writing(k)
            BY <1>0 DEF Writing
        <3>3. \A k \in Keys : Between(up.fs.seen, Len(log), k)' <=> Between(up.fs.seen, Len(log), k)
            BY <1>0, <1>3 DEF Between
        <3> QED
            BY <1>3, <2>0, <3>1, <3>2, <3>3 DEF OwnInv, NowRight
    <2>2. RightAt(up.fs, mark + 1)'
        <3> SUFFICES ASSUME NEW k \in Keys, up.fs.own[k] # NoForm, ~Between(up.fs.seen, Len(log), k)
                     PROVE  up.fs.own[k].vals = Values(k, tail)
            BY <1>0, <1>3, <1>4 DEF RightAt, Between
        <3> QED
            BY <1>0, <2>0 DEF OwnInv, NowRight, Writing
    <2>3. Passing' => \A c \in DOMAIN hist' : hist'[c].log = pass'.b.log => RightAt(up.fs, c)'
        <3> SUFFICES ASSUME Passing, NEW c \in DOMAIN hist', hist'[c].log = pass.b.log PROVE RightAt(up.fs, c)'
            BY <1>1 DEF Passing
        <3>1. PICK d \in DOMAIN hist : pass.b.log = hist[d].log
            BY DEF UpInv, PassInv, IsCommit
        <3>2. c \in DOMAIN hist
            BY <1>0, <1>4, <3>1
        <3>3. RightAt(up.fs, c)
            BY <1>0, <2>0, <3>2 DEF OwnInv
        <3> QED
            BY <1>0, <1>3, <3>2, <3>3 DEF RightAt, Between
    <2>4. up'.complete => ReadFormed(up.fs)'
        BY <1>0, <1>3, <2>0 DEF OwnInv, ReadFormed, Between
    <2> QED
        BY <2>1, <2>2, <2>3, <2>4 DEF OwnInv
<1>7. \A g, k : Stands(g, k)' = Stands(g, k)
    BY <1>1 DEF Stands
<1>8. DirtyInv'
    BY <1>1, <1>3, <1>7 DEF UpInv, DirtyInv, Clean
<1>9. AtInv'
    <2>0. AtInv
        BY DEF UpInv
    <2>1. \A g \in DOMAIN states : Reached(g) => states[g].at <= hist[mark + 1].log /\ states[g].at \in Nat
        BY <2>0, UpFs DEF AtInv
    <2>2. \A g \in DOMAIN states : Reached(g) => states[g].at < Len(log) /\ states[g].at <= Len(log) /\ states[g].at # Len(log)
        BY <1>0, <1>4, <2>1
    <2>3. \A g \in DOMAIN states' : Reached(g)' =>
          /\ states'[g].at <= hist'[mark' + 1].log
          /\ \A x \in up'.posted : states'[g].at < x.log
          /\ Passing' => IF Claimed' THEN states'[g].at <= pass'.b.log ELSE states'[g].at < pass'.b.log
        BY <1>0, <1>1, <1>2, <1>3, <1>4, <2>0, <2>2 DEF AtInv, Reached, Passing
    <2>4. \A g \in DOMAIN states : Reached(g) /\ states[g].complete =>
          \A k \in Keys : Stands(g, k) = NoForm =>
              \A c \in DOMAIN hist' : hist'[c].log <= states[g].at => hist'[c].vals[k] = Base(k)
        <3> SUFFICES ASSUME NEW g \in DOMAIN states, Reached(g), states[g].complete, NEW k \in Keys, Stands(g, k) = NoForm,
                            NEW c \in DOMAIN hist', hist'[c].log <= states[g].at
                     PROVE  hist'[c].vals[k] = Base(k)
            OBVIOUS
        <3>1. c # mark + 2
            BY <1>0, <2>1, <2>2
        <3>2. c \in DOMAIN hist
            BY <1>4, <3>1
        <3> QED
            BY <1>0, <3>2, <2>0 DEF AtInv
    <2>5. \A k : Base(k)' = Base(k)
        BY DEF Base
    <2>6. \A g \in DOMAIN states' : Reached(g)' /\ states'[g].complete =>
          \A k \in Keys : Stands(g, k)' = NoForm =>
              \A c \in DOMAIN hist' : hist'[c].log <= states'[g].at => hist'[c].vals[k] = Base(k)'
        BY <1>1, <1>7, <2>4, <2>5 DEF Reached
    <2>7. pass'.pc = "at" => up'.dirty = {} /\ states'[pass'.g].complete = up'.complete
        BY <1>1, <1>3, <2>0 DEF AtInv
    <2> QED
        BY <2>3, <2>6, <2>7 DEF AtInv
<1>10. FormsRight'
    <2>0. FormsRight /\ AtInv
        BY DEF UpInv
    <2>1. \A g \in DOMAIN states : states[g].at # Len(log)
        <3> TAKE g \in DOMAIN states
        <3>1. CASE Reached(g)
            <4>1. states[g].at <= hist[mark + 1].log /\ states[g].at \in Nat
                BY <2>0, <3>1, UpFs DEF AtInv
            <4> QED
                BY <4>1, <1>0, <1>4
        <3>2. CASE ~Reached(g)
            BY <3>2, <1>0, Lengths, Numbers DEF Reached, CommInv, TabInv
        <3> QED
            BY <3>1, <3>2
    <2>2. \A k : Base(k)' = Base(k)
        BY DEF Base
    <2>3. \A g \in DOMAIN states : \A c \in DOMAIN hist' : states[g].at = hist'[c].log => c \in DOMAIN hist /\ hist'[c] = hist[c]
        BY <1>0, <1>4, <2>1
    <2> QED
        BY <1>1, <1>7, <2>0, <2>2, <2>3 DEF FormsRight
<1> QED
    BY <1>5, <1>6, <1>8, <1>9, <1>10 DEF UpInv

LEMMA UpPassBegin ==
    ASSUME CommInv, BlockInv, UpInv, [Next]_vars, PassBegin
    PROVE  UpInv'
<1>1. PICK b \in up.posted : pass' = [pc |-> "look", g |-> Len(states), b |-> b, short |-> FALSE]
    BY DEF PassBegin
<1>2. /\ UNCHANGED <<slab, chain, tail, log, wr, mark, hist, states, land>> /\ up' = [up EXCEPT !.posted = {}]
      /\ pass.pc = "idle"
    BY DEF PassBegin, table, commits
<1>3. up'.fs = up.fs /\ up'.posted = {} /\ up'.dirty = up.dirty /\ up'.complete = up.complete /\ up'.gone = up.gone
    BY <1>2, UpFs DEF UpSet
<1>4. pass'.b = b /\ pass'.pc = "look" /\ mark + 1 \in DOMAIN hist
    BY <1>1 DEF CommInv, CommitType, HistInv
<1>5. IsCommit(b, mark + 1) /\ up.fs.seen <= b.log /\ up.fs.snap <= b.len
    BY DEF UpInv, PassInv
<1>11. ~Claimed /\ ~Claimed'
    BY <1>2 DEF UpInv, PassInv, Passing, Claimed
<1>6. PassInv'
    <2>1. PassInv
        BY DEF UpInv
    <2>2. Filing(up.fs)'
        BY <1>2, <1>3, <2>1 DEF PassInv, Filing
    <2> QED
        BY <1>2, <1>3, <1>4, <1>5, <1>11, <2>1, <2>2 DEF PassInv, Passing, Looked, IsCommit
<1>7. OwnInv'
    <2>0. OwnInv /\ up.posted # {}
        BY DEF UpInv
    <2>1. \A c \in DOMAIN hist : hist[c].log = b.log => c = mark + 1
        BY <1>4, <1>5, CommitLine DEF IsCommit
    <2>2. \A c \in DOMAIN hist : hist[c].log = b.log => RightAt(up.fs, c)
        BY <2>0, <2>1 DEF OwnInv
    <2>3. \A c : RightAt(up.fs, c)' <=> RightAt(up.fs, c)
        BY <1>2, <1>3 DEF RightAt, Between
    <2>4. NowRight(up.fs)' /\ (up'.complete => ReadFormed(up.fs)')
        BY <1>2, <1>3, <2>0 DEF OwnInv, NowRight, ReadFormed, Between, Writing, Under, Values, Live, Base
    <2> QED
        BY <1>2, <1>3, <1>4, <2>2, <2>3, <2>4 DEF OwnInv
<1>8. \A g, k : Stands(g, k)' = Stands(g, k)
    BY <1>2 DEF Stands
<1>9. DirtyInv'
    BY <1>2, <1>3, <1>8 DEF UpInv, DirtyInv, Clean
<1>10. AtInv' /\ FormsRight'
    <2>1. \A k : Base(k)' = Base(k)
        BY DEF Base
    <2> QED
        BY <1>2, <1>3, <1>4, <1>8, <1>11, <2>1 DEF UpInv, AtInv, FormsRight, Reached, Passing
<1> QED
    BY <1>6, <1>7, <1>9, <1>10 DEF UpInv

LEMMA CommitMemLen ==
    ASSUME CommInv, NEW b \in BoundSet, NEW c \in DOMAIN hist, IsCommit(b, c)
    PROVE  MemLen(b) = b.len /\ LogEnd(b) = b.log
<1>1. hist[c].len <= Len(slab) /\ hist[c].log <= Len(log)
    BY CommitEntries
<1> QED
    BY <1>1, Ends DEF IsCommit, CommInv, TabInv

LEMMA UpPassSnap ==
    ASSUME CommInv, BlockInv, UpInv, [Next]_vars, PassSnap
    PROVE  UpInv'
<1>1. pass.pc = "snap" /\ UNCHANGED <<slab, chain, tail, log, mark, hist, land>>
    BY DEF PassSnap, commits
<1>15. PICK pc \in {"fill", "publish"} : pc = IF Claimed THEN "publish" ELSE "fill"
    OBVIOUS
<1>16. \/ Claimed /\ pass' = Idle /\ wr' = Resting
       \/ pass' = [pass EXCEPT !.pc = pc] /\ wr' = wr
    BY <1>15 DEF PassSnap, PassEnds
<1>2. /\ pass.g \in 1..Len(states) /\ pass.b \in BoundSet /\ up \in UpSet /\ up.fs \in FormsStates /\ pass \in PassSet
      /\ states \in Seq(StateSet) /\ DOMAIN states = 1..Len(states) /\ pass.b.len \in Nat
    BY <1>1, PassIn, UpFs
<1>3. \/ Claimed /\ ~Claimed' /\ pass'.pc = "idle"
      \/ /\ pass'.b = pass.b /\ pass'.g = pass.g /\ pass'.short = pass.short /\ pass'.pc = pc
         /\ Claimed' <=> Claimed
    <2>1. CASE Claimed /\ pass' = Idle /\ wr' = Resting
        BY <2>1, IdleIn DEF Resting, Claimed
    <2>2. CASE pass' = [pass EXCEPT !.pc = pc] /\ wr' = wr
        BY <1>2, <2>2 DEF PassSet, Claimed
    <2> QED
        BY <1>16, <2>1, <2>2
<1>17. \A k : Writing(k)' <=> Writing(k)
    BY <1>1, <1>16 DEF Writing, Under, Claimed, Resting
<1>4. PICK c \in DOMAIN hist : IsCommit(pass.b, c)
    BY <1>1 DEF UpInv, PassInv, Passing
<1>5. MemLen(pass.b) = pass.b.len /\ pass.b.len <= Len(slab)
    BY <1>2, <1>4, CommitMemLen, CommitEntries DEF IsCommit
<1>6. up.fs.seen <= pass.b.log /\ up.fs.snap <= pass.b.len /\ Filing(up.fs)
    BY <1>1 DEF UpInv, PassInv, Passing
<1>7. /\ up'.fs.seen = up.fs.seen /\ up'.fs.own = up.fs.own /\ up'.fs.gen = up.fs.gen
      /\ up'.posted = up.posted /\ up'.dirty = up.dirty /\ up'.complete = up.complete /\ up'.gone = up.gone
      /\ Filing(up'.fs) /\ up'.fs.snap # NoSnap /\ up'.fs.snap <= pass.b.len
      /\ SameForms
    <2>1. PICK sw \in BOOLEAN :
             /\ MayRefresh(up.fs, sw)
             /\ up' = IF sw THEN [up EXCEPT !.fs = Refreshed(up.fs, states[pass.g].snap, MemLen(pass.b))] ELSE up
             /\ states' = IF sw THEN [states EXCEPT ![pass.g].snap = Offered(up.fs, states[pass.g].snap, MemLen(pass.b))]
                          ELSE states
        BY Zenon DEF PassSnap
    <2>2. CASE sw = FALSE
        <3>1. up' = up /\ states' = states
            BY <2>1, <2>2
        <3>2. up.fs.snap # NoSnap
            BY <2>1, <2>2 DEF MayRefresh
        <3> QED
            BY <3>1, <3>2, <1>6 DEF SameForms
    <2>3. CASE sw = TRUE
        <3> DEFINE r == Refreshed(up.fs, states[pass.g].snap, MemLen(pass.b))
                   o == Offered(up.fs, states[pass.g].snap, MemLen(pass.b))
        <3>1. up' = [up EXCEPT !.fs = r] /\ states' = [states EXCEPT ![pass.g].snap = o]
            BY <2>1, <2>3
        <3>2. r.seen = up.fs.seen /\ r.gen = up.fs.gen /\ r.own = up.fs.own /\ r.snap = pass.b.len
            BY <1>2, <1>5, RefreshedIs
        <3>3. Filing(r)
            <4>1. \A l \in 1..up.fs.seen : log[l] \in 1..pass.b.len
                <5>1. 1..up.fs.seen \subseteq 1..hist[c].log
                    BY <1>4, <1>6, <1>2, FsTypes, HistFacts DEF IsCommit
                <5> QED
                    BY <5>1, <1>4, CommitEntries DEF IsCommit
            <4> QED
                BY <1>2, <1>5, <1>6, <4>1, FilingRefreshed
        <3> HIDE DEF r, o
        <3>4. up'.fs = r /\ up'.posted = up.posted /\ up'.dirty = up.dirty /\ up'.complete = up.complete /\ up'.gone = up.gone
            BY <1>2, <3>1 DEF UpSet
        <3>5. SameForms
            <4>1. DOMAIN states' = DOMAIN states
                BY <3>1
            <4>2. \A g \in DOMAIN states : /\ states'[g].forms = states[g].forms /\ states'[g].at = states[g].at
                                           /\ states'[g].complete = states[g].complete
                <5>1. \A g \in DOMAIN states : states[g] \in StateSet
                    BY UpFs
                <5> QED
                    BY <3>1, <5>1 DEF StateSet
            <4>3. Len(states') = Len(states)
                <5>1. BlockInv'
                    BY BlockPassSnap DEF CommInv
                <5>2. DOMAIN states' = 1..Len(states') /\ Len(states') \in Nat /\ Len(states) \in Nat
                    BY <5>1 DEF BlockInv, BlockType
                <5> QED
                    BY <1>2, <4>1, <5>2
            <4> QED
                BY <4>1, <4>2, <4>3 DEF SameForms
        <3>6. up'.fs.snap = pass.b.len /\ pass.b.len # NoSnap /\ pass.b.len <= pass.b.len
            BY <3>2, <3>4, <1>2, Numbers
        <3>7. Filing(up'.fs)
            BY <3>3, <3>4
        <3> QED
            BY <3>2, <3>4, <3>5, <3>6, <3>7
    <2> QED
        BY <2>2, <2>3
<1>8. Filing(up.fs)'
    BY <1>1, <1>7 DEF Filing
<1>9. PassInv'
    <2>0. PassInv
        BY DEF UpInv
    <2>1. \A b \in up.posted : up'.fs.snap <= b.len
        <3> TAKE b \in up.posted
        <3>1. IsCommit(b, mark + 1) /\ b.len \in Nat /\ mark + 1 \in DOMAIN hist
            BY <2>0, UpFs DEF PassInv, CommInv, CommitType, HistInv
        <3>2. pass.b.len <= b.len
            <4>1. c <= mark + 1
                BY CommitLine
            <4>2. hist[c].len <= hist[mark + 1].len
                BY <3>1, <4>1, CommitLine
            <4> QED
                BY <1>4, <3>1, <4>2 DEF IsCommit
        <3>3. up'.fs.snap <= pass.b.len /\ up'.fs \in FormsStates
            <4>1. BlockInv'
                BY BlockPassSnap DEF CommInv
            <4>2. up'.fs \in FormsStates
                BY <4>1 DEF BlockInv, BlockType, UpSet
            <4> QED
                BY <1>7, <4>2
        <3>4. up'.fs.snap \in Int
            BY <3>3, FsTypes
        <3> QED
            BY ONLY <3>1, <3>2, <3>3, <3>4, <1>2
    <2> QED
        <3>1. CASE pass'.pc = "idle" /\ ~Claimed'
            BY <1>1, <1>7, <1>8, <2>0, <2>1, <3>1 DEF PassInv, Passing, Looked, IsCommit, SameForms
        <3>2. CASE /\ pass'.b = pass.b /\ pass'.g = pass.g /\ pass'.short = pass.short /\ pass'.pc = pc
                   /\ Claimed' <=> Claimed
            BY <1>1, <1>7, <1>8, <1>15, <2>0, <2>1, <3>2 DEF PassInv, Passing, Looked, IsCommit, SameForms
        <3> QED
            BY <1>3, <3>1, <3>2
<1>10. OwnInv'
    <2>0. OwnInv
        BY DEF UpInv
    <2>1. \A d : RightAt(up.fs, d)' <=> RightAt(up.fs, d)
        BY <1>1, <1>7 DEF RightAt, Between
    <2>2. NowRight(up.fs)'
        <3>1. \A k \in Keys : Values(k, tail)' = Values(k, tail)
            BY <1>1 DEF Values, Live, Base
        <3>2. \A k \in Keys : Writing(k)' <=> Writing(k)
            BY <1>17
        <3>3. \A k \in Keys : Between(up.fs.seen, Len(log), k)' <=> Between(up.fs.seen, Len(log), k)
            BY <1>1, <1>7 DEF Between
        <3> QED
            BY <1>7, <2>0, <3>1, <3>2, <3>3 DEF OwnInv, NowRight
    <2>3. up'.complete => ReadFormed(up.fs)'
        BY <1>1, <1>7, <2>0 DEF OwnInv, ReadFormed, Between
    <2>4. Passing' => \A d \in DOMAIN hist' : hist'[d].log = pass'.b.log => RightAt(up.fs, d)'
        BY <1>1, <1>3, <2>0, <2>1 DEF OwnInv, Passing
    <2>5. up'.posted # {} => RightAt(up.fs, mark + 1)'
        <3>1. PICK d : d = mark + 1
            OBVIOUS
        <3>2. up'.posted # {} => RightAt(up.fs, d)'
            BY <1>7, <2>0, <2>1, <3>1 DEF OwnInv
        <3> QED
            BY <1>1, <3>1, <3>2 DEF RightAt
    <2> QED
        BY <2>2, <2>3, <2>4, <2>5 DEF OwnInv
<1>11. \A g \in DOMAIN states : \A k \in Keys : Stands(g, k)' = Stands(g, k)
    BY <1>7 DEF Stands, SameForms
<1>13. DirtyInv'
    <2>1. DirtyInv /\ up.fs.gen \in DOMAIN states
        BY <1>2 DEF UpInv, PassInv
    <2>2. \A k \in Keys : Stands(up.fs.gen, k)' = Stands(up.fs.gen, k)
        BY <1>7, <2>1 DEF Stands, SameForms
    <2> QED
        BY <1>7, <2>1, <2>2 DEF DirtyInv, Clean
<1>14. AtInv' /\ FormsRight'
    <2>1. \A k : Base(k)' = Base(k)
        BY DEF Base
    <2>2. AtInv /\ FormsRight
        BY DEF UpInv
    <2>3. AtInv'
        <3>1. /\ \A g \in DOMAIN states' : Reached(g)' =>
                    /\ states'[g].at <= hist'[mark' + 1].log
                    /\ \A b \in up'.posted : states'[g].at < b.log
                    /\ Passing' => IF Claimed' THEN states'[g].at <= pass'.b.log ELSE states'[g].at < pass'.b.log
            BY <1>1, <1>3, <1>7, <2>2 DEF AtInv, Reached, Passing, SameForms
        <3>2. \A g \in DOMAIN states' : Reached(g)' /\ states'[g].complete =>
                  \A k \in Keys : Stands(g, k)' = NoForm =>
                      \A e \in DOMAIN hist' : hist'[e].log <= states'[g].at => hist'[e].vals[k] = Base(k)'
            BY <1>1, <1>7, <1>11, <2>1, <2>2 DEF AtInv, Reached, SameForms
        <3>3. pass'.pc # "at"
            BY <1>3, <1>15
        <3> QED
            BY <3>1, <3>2, <3>3 DEF AtInv
    <2>4. FormsRight'
        BY <1>1, <1>7, <1>11, <2>1, <2>2 DEF FormsRight, SameForms
    <2> QED
        BY <2>3, <2>4
<1> QED
    BY <1>9, <1>10, <1>13, <1>14 DEF UpInv

LEMMA OwnSame ==
    ASSUME OwnInv, UNCHANGED <<slab, chain, tail, log, wr, mark, hist, up, pass>>
    PROVE  OwnInv'
<1>1. \A n, m, k : Between(n, m, k)' <=> Between(n, m, k)
    BY DEF Between
<1>2. \A k, wm : Values(k, wm)' = Values(k, wm)
    BY DEF Values, Live, Base
<1>3. \A k : Writing(k)' <=> Writing(k)
    BY DEF Writing, Under
<1>4. NowRight(up.fs)' <=> NowRight(up.fs)
    BY <1>1, <1>2, <1>3 DEF NowRight
<1>5. \A c : RightAt(up.fs, c)' <=> RightAt(up.fs, c)
    BY <1>1 DEF RightAt
<1>6. RightAt(up.fs, mark + 1)' <=> RightAt(up.fs, mark + 1)
    BY <1>1 DEF RightAt
<1>7. ReadFormed(up.fs)' <=> ReadFormed(up.fs)
    BY <1>1 DEF ReadFormed
<1> QED
    BY <1>4, <1>5, <1>6, <1>7 DEF OwnInv, Passing

LEMMA UpLandCarry ==
    ASSUME CommInv, BlockInv, UpInv, [Next]_vars, LandCarry
    PROVE  UpInv'
<1>1. UNCHANGED <<slab, chain, tail, log, wr, mark, hist, states, up, pass>>
    BY DEF LandCarry, table, commits
<1>2. PassInv' /\ DirtyInv' /\ AtInv' /\ FormsRight'
    BY <1>1 DEF UpInv, PassInv, Filing, Passing, Looked, IsCommit, Claimed, DirtyInv, Clean, Stands, AtInv, Reached,
                FormsRight, Base
<1>3. OwnInv'
    BY <1>1, OwnSame DEF UpInv
<1> QED
    BY <1>2, <1>3 DEF UpInv

LEMMA UpLandPublish ==
    ASSUME CommInv, BlockInv, UpInv, [Next]_vars, LandPublish
    PROVE  UpInv'
<1> DEFINE s == [Blank EXCEPT !.forms = land]
           G == Len(states) + 1
<1>1. /\ UNCHANGED <<slab, chain, tail, log, wr, mark, hist, up, pass>>
      /\ Len(land) = MaxKey /\ land' = <<>> /\ states' = Append(states, s)
    BY Zenon DEF LandPublish, table, commits
<1>2. /\ states \in Seq(StateSet) /\ Len(states) \in Nat /\ DOMAIN states = 1..Len(states) /\ DOMAIN land = Keys
      /\ (pass.pc = "at" => pass.g \in DOMAIN states)
    BY <1>1, PassIn, UpFs DEF BlockInv, BlockType, Keys
<1>3. s.forms = land /\ s.at = Unbounded
    BY DEF Blank
<1> HIDE DEF s
<1>4. /\ Len(states') = G /\ DOMAIN states' = DOMAIN states \cup {G} /\ G \notin DOMAIN states /\ states'[G] = s
      /\ \A g \in DOMAIN states : states'[g] = states[g]
      /\ 1..Len(states) \subseteq 1..Len(states')
    BY <1>1, <1>2
<1> HIDE DEF G
<1>5. \A g \in DOMAIN states : \A k : Stands(g, k)' = Stands(g, k)
    BY <1>4 DEF Stands
<1>7. PassInv' /\ OwnInv'
    <2>1. PassInv'
        BY <1>1, <1>4 DEF UpInv, PassInv, Filing, Passing, Looked, IsCommit, Claimed
    <2>2. OwnInv'
        BY <1>1, OwnSame DEF UpInv
    <2> QED
        BY <2>1, <2>2
<1>9. DirtyInv'
    <2>1. up.fs.gen \in DOMAIN states
        BY <1>2 DEF UpInv, PassInv
    <2>2. \A k : Stands(up.fs.gen, k)' = Stands(up.fs.gen, k)
        BY <1>1, <1>4, <2>1 DEF Stands
    <2> QED
        BY <1>1, <2>2 DEF UpInv, DirtyInv, Clean
<1>10. AtInv'
    <2>0. AtInv
        BY DEF UpInv
    <2>1. \A g \in DOMAIN states' : states'[g].at # Unbounded => g \in DOMAIN states /\ states'[g] = states[g]
        BY <1>3, <1>4
    <2>2. \A k : Base(k)' = Base(k)
        BY DEF Base
    <2>3. pass'.pc = "at" => up'.dirty = {} /\ states'[pass'.g].complete = up'.complete
        BY <1>1, <1>2, <1>4, <2>0 DEF AtInv
    <2>4. \A g \in DOMAIN states' : Reached(g)' =>
          /\ g \in DOMAIN states /\ Reached(g) /\ states'[g] = states[g] /\ \A k : Stands(g, k)' = Stands(g, k)
        BY <1>5, <2>1 DEF Reached
    <2>5. \A g \in DOMAIN states' : Reached(g)' =>
          /\ states'[g].at <= hist'[mark' + 1].log
          /\ \A b \in up'.posted : states'[g].at < b.log
          /\ Passing' => IF Claimed' THEN states'[g].at <= pass'.b.log ELSE states'[g].at < pass'.b.log
        BY <1>1, <2>0, <2>4 DEF AtInv, Passing, Claimed
    <2>6. \A g \in DOMAIN states' : Reached(g)' /\ states'[g].complete =>
          \A k \in Keys : Stands(g, k)' = NoForm =>
              \A c \in DOMAIN hist' : hist'[c].log <= states'[g].at => hist'[c].vals[k] = Base(k)'
        BY <1>1, <2>0, <2>2, <2>4 DEF AtInv
    <2> QED
        BY <2>3, <2>5, <2>6 DEF AtInv
<1>11. FormsRight'
    <2>0. FormsRight
        BY DEF UpInv
    <2>1. \A c \in DOMAIN hist : hist[c].log # Unbounded
        <3> TAKE c \in DOMAIN hist
        <3>1. hist[c].log \in 0..MaxChunk
            BY HistFacts
        <3> QED
            BY <3>1, Numbers
    <2>2. \A g \in DOMAIN states' : states'[g].at # Unbounded => g \in DOMAIN states /\ states'[g] = states[g]
        BY <1>3, <1>4
    <2>3. \A k : Base(k)' = Base(k)
        BY DEF Base
    <2> QED
        BY <1>1, <1>5, <2>0, <2>1, <2>2, <2>3 DEF FormsRight
<1> QED
    BY <1>7, <1>9, <1>10, <1>11 DEF UpInv

-----------------------------------------------------------------------------
(* A look of the writer's blocks at the log.                                  *)

\* Marks leave a state what it claims.
OnlyMarks ==
    /\ Len(states') = Len(states) /\ DOMAIN states' = DOMAIN states
    /\ \A g \in DOMAIN states : /\ states'[g].at = states[g].at /\ states'[g].complete = states[g].complete
                                /\ \A k \in Keys : states'[g].forms[k] \in {states[g].forms[k], Mark}

LEMMA MarkNotForm ==
    Mark # NoForm /\ Mark.ver = -1 /\ ~Proper(Mark)
<1>1. Mark.ver = -1 /\ DOMAIN Mark = {"at", "ver", "vals"} /\ DOMAIN NoForm = {}
    BY DEF Mark, NoForm
<1>2. Mark # NoForm
    BY <1>1
<1> QED
    BY <1>1, <1>2 DEF Proper

LEMMA MarksStand ==
    ASSUME AtInv, FormsRight, OnlyMarks, UNCHANGED <<hist, mark>>
    PROVE  /\ \A g \in DOMAIN states' : Reached(g)' /\ states'[g].complete =>
                 \A k \in Keys : Stands(g, k)' = NoForm =>
                    \A c \in DOMAIN hist' : hist'[c].log <= states'[g].at => hist'[c].vals[k] = Base(k)'
           /\ FormsRight'
<1>1. \A k : Base(k)' = Base(k)
    BY DEF Base
<1>2. \A g \in DOMAIN states' : \A k \in Keys : Stands(g, k)' = Stands(g, k) \/ Stands(g, k)' = Mark
    BY DEF OnlyMarks, Stands
<1>3. \A g \in DOMAIN states' : \A k \in Keys : Stands(g, k)' = NoForm => Stands(g, k) = NoForm
    BY <1>2, MarkNotForm
<1>4. DOMAIN states' = DOMAIN states /\ \A g \in DOMAIN states : states'[g].at = states[g].at /\ states'[g].complete = states[g].complete
    BY DEF OnlyMarks
<1>5. \A g \in DOMAIN states' : Reached(g)' => Reached(g)
    BY <1>4 DEF Reached
<1>6. \A g \in DOMAIN states' : Reached(g)' /\ states'[g].complete =>
                 \A k \in Keys : Stands(g, k)' = NoForm =>
                    \A c \in DOMAIN hist' : hist'[c].log <= states'[g].at => hist'[c].vals[k] = Base(k)'
    BY <1>1, <1>3, <1>4, <1>5 DEF AtInv
<1>7. FormsRight'
    <2> SUFFICES ASSUME NEW g \in DOMAIN states, NEW c \in DOMAIN hist, NEW k \in Keys, states[g].at = hist[c].log
                 PROVE  IF Stands(g, k)' = NoForm THEN states[g].complete => hist[c].vals[k] = Base(k)
                        ELSE (Stands(g, k)' # Mark /\ Stands(g, k)'.at <= hist[c].log => Stands(g, k)'.vals = hist[c].vals[k])
        BY <1>1, <1>4 DEF FormsRight
    <2>1. IF Stands(g, k) = NoForm THEN states[g].complete => hist[c].vals[k] = Base(k)
          ELSE (Stands(g, k) # Mark /\ Stands(g, k).at <= hist[c].log => Stands(g, k).vals = hist[c].vals[k])
        BY DEF FormsRight
    <2>2. Stands(g, k)' = Stands(g, k) \/ Stands(g, k)' = Mark
        BY <1>2, <1>4
    <2> QED
        BY <2>1, <2>2, MarkNotForm
<1> QED
    BY <1>6, <1>7

\* What a rebase makes dirty.
LEMMA RebasedDirty ==
    ASSUME NEW u \in UpSet, NEW g \in 1..MaxGen, NEW lost, lost # {} => u.fs.gen # g, NEW k \in Keys, u.fs.gen # g,
           k \notin lost, u.fs.own[k] # NoForm, k \notin Rebased(u, g, lost).dirty
    PROVE  /\ Proper(Stands(g, k)) /\ Stands(g, k).ver = u.fs.own[k].ver
           /\ Stands(g, k).vals = u.fs.own[k].vals
<1>1. k \notin Unlike(u, g)
    BY RebasedIs
<1>2. /\ Stands(g, k) # NoForm /\ Stands(g, k).ver = u.fs.own[k].ver
      /\ Stands(g, k).vals = u.fs.own[k].vals
    BY <1>1 DEF Unlike, Differs
<1>3. u.fs.own[k].ver \in Nat
    BY FsTypes DEF UpSet
<1> QED
    BY <1>2, <1>3, MarkNotForm DEF Proper

\* The forms given up in a look are of keys it read.
Droppable(fs, n, drop) == \A k \in drop : Between(fs.seen, n, k)

LEMMA LookClean ==
    ASSUME TabInv, BlockInv, DirtyInv, ~up.gone, NEW g \in DOMAIN states, NEW lost \in Losses(up, g),
           NEW n \in 0..MaxChunk, n >= up.fs.seen, n <= Len(log),
           NEW wm \in Nat, NEW drop, NEW k \in Keys, k \notin Filed(Rebased(up, g, lost), n, wm, drop).dirty
    PROVE  Clean(Filed(Rebased(up, g, lost), n, wm, drop).fs,
                 IF k \in drop \cup Orphans(up, g, lost) THEN Mark ELSE Stands(g, k), k)
<1> DEFINE u == Rebased(up, g, lost)
           r == Filed(u, n, wm, drop)
           f == IF k \in drop \cup Orphans(up, g, lost) THEN Mark ELSE Stands(g, k)
           own == up.fs.own[k]
<1>0. up \in UpSet /\ up.fs \in FormsStates /\ g \in 1..MaxGen /\ (lost # {} => up.fs.gen # g)
    BY UpFs, StateIn, LossesAre
<1>1. /\ u \in UpSet /\ u.fs.seen = up.fs.seen /\ u.fs.own[k] = IF k \in lost THEN NoForm ELSE own
      /\ up.fs.gen = g => u = up
    BY <1>0, RebasedIs
<1>2. up.fs.gen # g /\ k \notin lost /\ own # NoForm /\ k \notin u.dirty =>
         /\ Proper(Stands(g, k)) /\ Stands(g, k).ver = own.ver /\ Stands(g, k).vals = own.vals
    BY <1>0, RebasedDirty
<1> HIDE DEF u
<1>4. /\ r.fs.own[k] = IF k \in drop THEN NoForm
                       ELSE IF Between(u.fs.seen, n, k) /\ u.fs.own[k] # NoForm
                       THEN [ver |-> n, vals |-> Values(k, wm)] ELSE u.fs.own[k]
      /\ u.dirty \subseteq r.dirty
      /\ Between(u.fs.seen, n, k) /\ k \notin drop /\ u.fs.own[k] # NoForm => k \in r.dirty
    BY <1>1, FiledOwn
<1>5. k \notin r.dirty
    BY DEF u
<1> HIDE DEF r
<1>6. k \notin u.dirty /\ (k \notin drop => r.fs.own[k] = u.fs.own[k])
    BY <1>4, <1>5
<1>7. CASE k \in drop
    <2>1. r.fs.own[k] = NoForm /\ f = Mark
        BY <1>4, <1>7
    <2> QED
        BY <2>1 DEF Clean, r, u
<1>8. CASE k \notin drop /\ up.fs.gen = g
    <2>1. k \notin Orphans(up, g, lost)
        BY <1>8 DEF Orphans
    <2>2. f = Stands(g, k) /\ r.fs.own[k] = own
        BY <1>1, <1>6, <1>8, <2>1
    <2>3. Clean(up.fs, Stands(g, k), k)
        BY <1>1, <1>6, <1>8 DEF DirtyInv
    <2>4. Clean(r.fs, f, k)
        BY <2>2, <2>3 DEF Clean
    <2> QED
        BY <2>4 DEF r, u
<1>9. CASE k \notin drop /\ up.fs.gen # g /\ (k \in lost \/ own = NoForm)
    <2>1. f \in {NoForm, Mark}
        BY <1>9 DEF Orphans
    <2>2. Clean(r.fs, f, k)
        BY <1>1, <1>6, <1>9, <2>1 DEF Clean
    <2> QED
        BY <2>2 DEF r, u
<1>10. CASE k \notin drop /\ up.fs.gen # g /\ k \notin lost /\ own # NoForm
    <2>1. f = Stands(g, k)
        BY <1>10 DEF Orphans
    <2>2. Proper(f) /\ f.ver = own.ver /\ f.vals = own.vals
        BY <1>2, <1>6, <1>10, <2>1
    <2>6. Clean(r.fs, f, k)
        BY <1>1, <1>6, <1>10, <2>2 DEF Clean
    <2> QED
        BY <2>6 DEF r, u
<1> QED
    BY <1>7, <1>8, <1>9, <1>10

\* The writer's forms after a step that writes nothing to the table.
LEMMA OwnFrom ==
    ASSUME UNCHANGED <<slab, chain, tail, log, mark, hist>>, wr' = wr \/ (~Under /\ ~Under'), NEW fs, up'.fs = fs, NowRight(fs),
           up'.posted # {} => RightAt(fs, mark + 1),
           pass'.pc # "idle" => \A c \in DOMAIN hist : hist[c].log = pass'.b.log => RightAt(fs, c),
           up'.complete => ReadFormed(fs)
    PROVE  OwnInv'
<1>1. \A n, m, k : Between(n, m, k)' <=> Between(n, m, k)
    BY DEF Between
<1>2. \A k, wm : Values(k, wm)' = Values(k, wm)
    BY DEF Values, Live, Base
<1>3. \A k : Writing(k)' <=> Writing(k)
    BY Zenon DEF Writing, Under
<1>4. NowRight(up.fs)'
    BY <1>1, <1>2, <1>3 DEF NowRight
<1>5. \A c : RightAt(up.fs, c)' <=> RightAt(fs, c)
    BY <1>1 DEF RightAt
<1>6. RightAt(up.fs, mark + 1)' <=> RightAt(fs, mark + 1)
    BY <1>1 DEF RightAt
<1>7. ReadFormed(up.fs)' <=> ReadFormed(fs)
    BY <1>1 DEF ReadFormed
<1> QED
    BY <1>4, <1>5, <1>6, <1>7 DEF OwnInv, Passing

\* What a look gives a key has its values wherever the log says no more.
LEMMA LookOwn ==
    ASSUME TabInv, NEW u \in UpSet, NEW n \in 0..MaxChunk, n >= u.fs.seen, n <= Len(log), NEW wm \in Nat, NEW drop,
           NEW m \in Nat, n <= m, NEW k \in Keys, ~Between(n, m, k), Filed(u, n, wm, drop).fs.own[k] # NoForm
    PROVE  \/ Filed(u, n, wm, drop).fs.own[k].vals = Values(k, wm)
           \/ /\ u.fs.own[k] # NoForm /\ ~Between(u.fs.seen, m, k)
              /\ Filed(u, n, wm, drop).fs.own[k].vals = u.fs.own[k].vals
<1> DEFINE R == Filed(u, n, wm, drop)
           own == u.fs.own[k]
<1>0. \A x \in Keys : R.fs.own[x] =
            IF x \in drop THEN NoForm
            ELSE IF Between(u.fs.seen, n, x) /\ u.fs.own[x] # NoForm
            THEN [ver |-> n, vals |-> Values(x, wm)] ELSE u.fs.own[x]
    BY FiledOwn, SMTT(30)
<1> HIDE DEF R
<1>1. R.fs.own[k] = IF Between(u.fs.seen, n, k) /\ own # NoForm
                    THEN [ver |-> n, vals |-> Values(k, wm)] ELSE own
    BY <1>0 DEF R
<1>2. u.fs.seen \in Nat /\ n \in Nat
    BY FsTypes, Numbers DEF UpSet
<1>3. CASE Between(u.fs.seen, n, k) /\ own # NoForm
    <2>1. R.fs.own[k] = [ver |-> n, vals |-> Values(k, wm)]
        BY <1>1, <1>3
    <2>2. R.fs.own[k].vals = Values(k, wm)
        BY <1>3, <2>1
    <2> QED
        BY <2>2 DEF R
<1>4. CASE ~(Between(u.fs.seen, n, k) /\ own # NoForm)
    <2>1. R.fs.own[k] = own
        BY <1>1, <1>4
    <2>2. own # NoForm
        BY <2>1 DEF R
    <2>3. ~Between(u.fs.seen, m, k)
        BY <1>2, <1>4, <2>2, BetweenSplit
    <2> QED
        BY <2>1, <2>2, <2>3 DEF R
<1> QED
    BY <1>3, <1>4

\* And what it has read has a form, if the table is still said to be complete.
LEMMA LookFormed ==
    ASSUME TabInv, NEW u \in UpSet, NEW n \in 0..MaxChunk, n >= u.fs.seen, n <= Len(log), NEW wm \in Nat, NEW drop,
           u.complete => ReadFormed(u.fs), Droppable(u.fs, n, drop)
    PROVE  Filed(u, n, wm, drop).complete => ReadFormed(Filed(u, n, wm, drop).fs)
<1> DEFINE R == Filed(u, n, wm, drop)
<1>1. R.fs.seen = n
    BY FiledSeen
<1>2. \A x \in Keys : R.fs.own[x] =
            IF x \in drop THEN NoForm
            ELSE IF Between(u.fs.seen, n, x) /\ u.fs.own[x] # NoForm
            THEN [ver |-> n, vals |-> Values(x, wm)] ELSE u.fs.own[x]
    BY FiledOwn, SMTT(30)
<1>3. R.complete => /\ u.complete
                    /\ \A k \in Keys : Between(u.fs.seen, n, k) => k \notin drop /\ u.fs.own[k] # NoForm
    BY FiledOwn, SMTT(30)
<1> HIDE DEF R
<1>4. u.fs.seen \in Nat /\ n \in Nat /\ 0 \in Nat /\ 0 <= u.fs.seen
    BY FsTypes, Numbers DEF UpSet
<1>5. ASSUME R.complete, NEW k \in Keys, R.fs.own[k] = NoForm PROVE ~Between(0, n, k)
    <2>1. k \notin drop
        BY <1>3, <1>5 DEF Droppable
    <2>2. R.fs.own[k] = IF Between(u.fs.seen, n, k) /\ u.fs.own[k] # NoForm
                        THEN [ver |-> n, vals |-> Values(k, wm)] ELSE u.fs.own[k]
        BY <1>2, <2>1
    <2>3. [ver |-> n, vals |-> Values(k, wm)] # NoForm
        <3>1. DOMAIN [ver |-> n, vals |-> Values(k, wm)] # {} /\ DOMAIN NoForm = {}
            BY DEF NoForm
        <3> QED
            BY <3>1
    <2>4. u.fs.own[k] = NoForm
        BY <1>5, <2>2, <2>3
    <2>5. ~Between(u.fs.seen, n, k) /\ ~Between(0, u.fs.seen, k)
        BY <1>3, <1>5, <2>4 DEF ReadFormed
    <2> QED
        BY <1>4, <2>5, BetweenSplit
<1>6. R.complete => ReadFormed(R.fs)
    BY <1>1, <1>5 DEF ReadFormed
<1> QED
    BY <1>6 DEF R

\* A state with some of its forms marked.
LEMMA MarkedState ==
    ASSUME BlockInv, NEW g \in DOMAIN states, NEW st \in StateSet, NEW ks,
           st.forms = states[g].forms, st.at = states[g].at, st.complete = states[g].complete,
           states' = [states EXCEPT ![g] = Marks(st, ks)]
    PROVE  /\ OnlyMarks
           /\ \A k \in Keys : Stands(g, k)' = IF k \in ks THEN Mark ELSE Stands(g, k)
           /\ \A x \in DOMAIN states : \A k \in Keys : Stands(x, k)' \in {Stands(x, k), Mark}
<1> DEFINE s == Marks(st, ks)
<1>0. g \in 1..Len(states) /\ states[g] \in StateSet
    BY UpFs
<1>1. s \in StateSet
    BY MarksType
<1>2. /\ s.at = st.at /\ s.complete = st.complete
      /\ \A k \in Keys : s.forms[k] = IF k \in ks THEN Mark ELSE st.forms[k]
    BY DEF Marks, StateSet
<1> HIDE DEF s
<1>3. states' = [states EXCEPT ![g] = s]
    BY DEF s
<1>4. Len(states') = Len(states)
    BY <1>0, <1>1, <1>3, StatesPut
<1>5. DOMAIN states' = DOMAIN states /\ states'[g] = s /\ \A x \in DOMAIN states : x # g => states'[x] = states[x]
    BY <1>3
<1>6. \A x \in DOMAIN states : /\ states'[x].at = states[x].at /\ states'[x].complete = states[x].complete
                               /\ \A k \in Keys : states'[x].forms[k] \in {states[x].forms[k], Mark}
    <2> TAKE x \in DOMAIN states
    <2>1. CASE x = g
        BY <1>2, <1>5, <2>1
    <2>2. CASE x # g
        BY <1>5, <2>2
    <2> QED
        BY <2>1, <2>2
<1>7. OnlyMarks
    BY <1>4, <1>5, <1>6 DEF OnlyMarks
<1>8. \A k \in Keys : Stands(g, k)' = IF k \in ks THEN Mark ELSE Stands(g, k)
    BY <1>2, <1>5 DEF Stands
<1>9. \A x \in DOMAIN states : \A k \in Keys : Stands(x, k)' \in {Stands(x, k), Mark}
    BY <1>6 DEF Stands
<1> QED
    BY <1>7, <1>8, <1>9

\* The log read, and the state marked, a pass or a scan through the writer keeps the
\* clean as it stands.
LEMMA LookStands ==
    ASSUME TabInv, BlockInv, UpInv, NEW g \in DOMAIN states, NEW lost \in Losses(up, g),
           NEW n \in 0..MaxChunk, n >= up.fs.seen, n <= Len(log), NEW wm \in Nat, NEW drop,
           \A k \in Keys : Stands(g, k)' = IF k \in drop \cup Orphans(up, g, lost) THEN Mark ELSE Stands(g, k)
    PROVE  LET r == Filed(Rebased(up, g, lost), n, wm, drop)
           IN  \A k \in Keys \ r.dirty : Clean(r.fs, Stands(g, k)', k)
<1> DEFINE r == Filed(Rebased(up, g, lost), n, wm, drop)
<1>1. DirtyInv /\ ~up.gone
    BY DEF UpInv, PassInv
<1>2. \A k \in Keys \ r.dirty :
         Clean(r.fs, IF k \in drop \cup Orphans(up, g, lost) THEN Mark ELSE Stands(g, k), k)
    BY <1>1, LookClean
<1> HIDE DEF r
<1>3. \A k \in Keys \ r.dirty : Clean(r.fs, Stands(g, k)', k)
    BY <1>2
<1> QED
    BY <1>3 DEF r

LEMMA UpPassLook ==
    ASSUME CommInv, BlockInv, UpInv, [Next]_vars, PassLook
    PROVE  UpInv'
<1>3. pass.pc = "look" /\ UNCHANGED <<slab, chain, tail, log, wr, mark, hist, land>>
    BY DEF PassLook, table, commits
<1>0. PICK g \in DOMAIN states : g = pass.g
    BY <1>3, PassIn, UpFs
<1>4. /\ g \in 1..Len(states) /\ g \in DOMAIN states /\ pass.b \in BoundSet /\ pass.b.wm \in Nat /\ up \in UpSet
      /\ pass \in PassSet /\ TabInv /\ g \in 1..MaxGen /\ states[g] \in StateSet /\ pass.b.log \in Nat
      /\ up.fs \in FormsStates /\ up.fs.seen \in Nat
    BY <1>0, <1>3, PassIn, UpFs, StateIn, FsTypes DEF CommInv
<1>1. PICK lost \in Losses(up, g) :
      \E n \in up.fs.seen..Max({up.fs.seen, LogEnd(pass.b)}) : \E drop : Looks(lost, n, drop)
    BY <1>0, LookIs
<1>22. PICK n \in up.fs.seen..Max({up.fs.seen, LogEnd(pass.b)}) : \E drop : Looks(lost, n, drop)
    BY <1>1, Zenon
<1>23. PICK drop : Looks(lost, n, drop)
    BY <1>22, Zenon
<1>24. lost # {} => up.fs.gen # g
    BY LossesAre
<1>8. PICK u \in UpSet :
      /\ u = Rebased(up, g, lost) /\ u.fs.seen = up.fs.seen /\ u.fs.snap = up.fs.snap
      /\ u.fs.added = up.fs.added /\ u.fs.gen = g /\ u.posted = up.posted /\ u.gone = up.gone
      /\ \A k \in Keys : u.fs.own[k] = NoForm \/ u.fs.own[k] = up.fs.own[k]
      /\ u.complete => up.complete /\ \A k \in Keys : u.fs.own[k] = up.fs.own[k]
    <2> DEFINE v == Rebased(up, g, lost)
    <2>1. /\ v \in UpSet /\ v.fs.seen = up.fs.seen /\ v.fs.snap = up.fs.snap
          /\ v.fs.added = up.fs.added /\ v.fs.gen = g /\ v.posted = up.posted /\ v.gone = up.gone
          /\ \A k \in Keys : v.fs.own[k] = IF k \in lost THEN NoForm ELSE up.fs.own[k]
          /\ v.complete = (up.complete /\ lost = {})
        BY <1>4, <1>24, RebasedIs
    <2> HIDE DEF v
    <2>2. v.complete => up.complete /\ lost = {}
        BY <2>1, Zenon
    <2>3. \A k \in Keys : v.fs.own[k] = NoForm \/ v.fs.own[k] = up.fs.own[k]
        BY <2>1
    <2>4. v.complete => up.complete /\ \A k \in Keys : v.fs.own[k] = up.fs.own[k]
        BY <2>1, <2>2
    <2>5. v = Rebased(up, g, lost)
        BY DEF v
    <2> QED
        BY <2>1, <2>3, <2>4, <2>5
<1>2. /\ drop \subseteq {k \in ReadOf(u.fs, n) : u.fs.own[k] # NoForm}
      /\ n < LogEnd(pass.b) => ~Claimed
      /\ up' = Filed(u, n, pass.b.wm, drop)
      /\ states' = [states EXCEPT ![g] = Marks(states[g], drop \cup Orphans(up, g, lost))]
      /\ pass' = [pass EXCEPT !.pc = "snap", !.short = n < LogEnd(pass.b)]
    BY <1>0, <1>8, <1>23, Zenon DEF Looks
<1>5. PICK c \in DOMAIN hist : IsCommit(pass.b, c)
    BY <1>3 DEF UpInv, PassInv, Passing
<1>6. /\ LogEnd(pass.b) = pass.b.log /\ pass.b.log <= Len(log) /\ pass.b.log = hist[c].log /\ pass.b.wm = hist[c].wm
      /\ up.fs.seen <= pass.b.log /\ up.fs.snap <= pass.b.len /\ Len(log) \in Nat /\ mark + 1 \in DOMAIN hist
      /\ c <= mark + 1
    BY <1>3, <1>4, <1>5, CommitMemLen, CommitEntries, HistFacts, CommitLine DEF IsCommit, UpInv, PassInv, Passing
<1>7. n \in 0..MaxChunk /\ n \in Nat /\ n >= up.fs.seen /\ n <= pass.b.log /\ n <= Len(log)
    <2>1. n \in 0..MaxChunk /\ n \in Nat /\ n >= up.fs.seen /\ (n <= up.fs.seen \/ n <= LogEnd(pass.b))
        BY <1>4, LookEnd
    <2>2. n <= pass.b.log
        BY <1>4, <1>6, <2>1
    <2> QED
        BY ONLY <2>1, <2>2, <1>4, <1>6
<1>9. Droppable(up.fs, n, drop) /\ Droppable(u.fs, n, drop)
    BY <1>2, <1>8, ReadIs DEF Droppable
<1>10. Filing(u.fs)
    <2>1. Filing(up.fs)
        BY DEF UpInv, PassInv
    <2> QED
        BY <1>8, <2>1 DEF Filing
<1> DEFINE R == Filed(u, n, pass.b.wm, drop)
<1>11. /\ R \in UpSet /\ R.posted = up.posted /\ R.gone = up.gone /\ R.fs.seen = n /\ R.fs.snap = up.fs.snap /\ R.fs.gen = g
       /\ Filing(R.fs)
    <2>1. TabInv /\ n \in 0..MaxChunk /\ n >= u.fs.seen /\ n <= Len(log) /\ pass.b.wm \in Nat
        BY <1>4, <1>7, <1>8
    <2>2. /\ R \in UpSet /\ R.posted = u.posted /\ R.gone = u.gone /\ R.fs.seen = n /\ R.fs.snap = u.fs.snap /\ R.fs.gen = u.fs.gen
          /\ Filing(u.fs) => Filing(R.fs)
        BY <2>1, FiledOwn
    <2> HIDE DEF R
    <2> QED
        BY <1>8, <1>10, <2>2
<1>12. R.complete => ReadFormed(R.fs)
    <2>1. u.complete => ReadFormed(u.fs)
        BY <1>8 DEF UpInv, OwnInv, ReadFormed
    <2> QED
        BY <1>4, <1>7, <1>8, <1>9, <2>1, LookFormed
<1>13. /\ OnlyMarks
       /\ \A k \in Keys : Stands(g, k)' = IF k \in drop \cup Orphans(up, g, lost) THEN Mark ELSE Stands(g, k)
       /\ \A x \in DOMAIN states : \A k \in Keys : Stands(x, k)' \in {Stands(x, k), Mark}
    BY <1>2, <1>4, MarkedState, Zenon
<1>14. \A k \in Keys \ R.dirty : Clean(R.fs, Stands(g, k)', k)
    <2> HIDE DEF R
    <2>1. LET r == Filed(Rebased(up, g, lost), n, pass.b.wm, drop)
          IN  \A k \in Keys \ r.dirty : Clean(r.fs, Stands(g, k)', k)
        BY <1>4, <1>7, <1>13, LookStands, Zenon
    <2> QED
        BY <1>8, <2>1, Zenon DEF R
<1>15. TabInv /\ n >= u.fs.seen /\ n <= Len(log) /\ n \in 0..MaxChunk /\ pass.b.wm \in Nat
    BY <1>4, <1>7, <1>8
<1> HIDE DEF R
<1>16. /\ up' = R /\ pass'.pc = "snap" /\ pass'.b = pass.b /\ pass'.g = g /\ DOMAIN states' = DOMAIN states
       /\ Len(states') = Len(states) /\ pass'.short = (n < pass.b.log)
    BY <1>0, <1>2, <1>4, <1>6, <1>13 DEF R, PassSet, OnlyMarks
<1>17. \A k \in Keys : Values(k, pass.b.wm) = hist[c].vals[k]
    BY <1>6, CommitWm
<1>18. OwnInv'
    <2>0. OwnInv
        BY DEF UpInv
    <2>1. NowRight(R.fs)
        <3> SUFFICES ASSUME NEW k \in Keys, R.fs.own[k] # NoForm, ~Between(n, Len(log), k), ~Writing(k)
                     PROVE  R.fs.own[k].vals = Values(k, tail)
            BY <1>11 DEF NowRight
        <3>1. Values(k, pass.b.wm) = Values(k, tail)
            BY <1>6, <1>7, <1>17, CommitTail
        <3>2. up.fs.own[k] # NoForm /\ ~Between(up.fs.seen, Len(log), k) => up.fs.own[k].vals = Values(k, tail)
            BY <2>0 DEF OwnInv, NowRight
        <3>4. u.fs.own[k] = NoForm \/ u.fs.own[k] = up.fs.own[k]
            BY <1>8
        <3>3. /\ u.fs.own[k] # NoForm /\ ~Between(u.fs.seen, Len(log), k) => u.fs.own[k].vals = Values(k, tail)
              /\ Between(u.fs.seen, n, k) => Values(k, pass.b.wm) = Values(k, tail)
              /\ Len(log) \in Nat
            BY <1>6, <1>8, <3>1, <3>2, <3>4
        <3>7. \/ Filed(u, n, pass.b.wm, drop).fs.own[k].vals = Values(k, pass.b.wm)
              \/ /\ u.fs.own[k] # NoForm /\ ~Between(u.fs.seen, Len(log), k)
                 /\ Filed(u, n, pass.b.wm, drop).fs.own[k].vals = u.fs.own[k].vals
            <4>1. Filed(u, n, pass.b.wm, drop).fs.own[k] # NoForm
                BY DEF R
            <4> QED
                BY <1>15, <4>1, <3>3, <1>7, LookOwn
        <3> QED
            BY <1>8, <3>1, <3>2, <3>3, <3>7 DEF R
    <2>2. ASSUME NEW d \in DOMAIN hist, c <= d, RightAt(up.fs, d) PROVE RightAt(R.fs, d)
        <3> SUFFICES ASSUME NEW k \in Keys, R.fs.own[k] # NoForm, ~Between(n, hist[d].log, k)
                     PROVE  R.fs.own[k].vals = hist[d].vals[k]
            BY <1>11 DEF RightAt
        <3>1. n <= hist[c].log
            BY <1>6, <1>7
        <3>2. Values(k, pass.b.wm) = hist[d].vals[k]
            BY <1>7, <1>17, <2>2, <3>1, CommitVals
        <3>3. hist[d].log \in Nat /\ hist[c].log \in Nat /\ hist[c].log <= hist[d].log
            BY <2>2, HistFacts, CommitLine
        <3>4. n <= hist[d].log
            BY ONLY <1>7, <3>1, <3>3
        <3>5. up.fs.own[k] # NoForm /\ ~Between(up.fs.seen, hist[d].log, k) => up.fs.own[k].vals = hist[d].vals[k]
            BY <2>2 DEF RightAt
        <3>8. u.fs.own[k] = NoForm \/ u.fs.own[k] = up.fs.own[k]
            BY <1>8
        <3>6. /\ u.fs.own[k] # NoForm /\ ~Between(u.fs.seen, hist[d].log, k) => u.fs.own[k].vals = hist[d].vals[k]
              /\ Between(u.fs.seen, n, k) => Values(k, pass.b.wm) = hist[d].vals[k]
            BY <1>8, <3>2, <3>5, <3>8
        <3>7. \/ Filed(u, n, pass.b.wm, drop).fs.own[k].vals = Values(k, pass.b.wm)
              \/ /\ u.fs.own[k] # NoForm /\ ~Between(u.fs.seen, hist[d].log, k)
                 /\ Filed(u, n, pass.b.wm, drop).fs.own[k].vals = u.fs.own[k].vals
            <4>1. Filed(u, n, pass.b.wm, drop).fs.own[k] # NoForm
                BY DEF R
            <4> QED
                BY <1>15, <4>1, <3>3, <3>4, LookOwn
        <3> QED
            BY <1>8, <3>1, <3>2, <3>6, <3>7 DEF R
    <2>3. up'.posted # {} => RightAt(R.fs, mark + 1)
        BY <1>6, <1>11, <1>16, <2>0, <2>2 DEF OwnInv
    <2>4. \A d \in DOMAIN hist : hist[d].log = pass'.b.log => RightAt(R.fs, d)
        <3> SUFFICES ASSUME NEW d \in DOMAIN hist, hist[d].log = pass.b.log PROVE RightAt(R.fs, d)
            BY <1>16
        <3>1. RightAt(up.fs, d)
            BY <1>3, <2>0 DEF OwnInv, Passing
        <3>2. c = d /\ c \in Nat
            BY <1>6, CommitLine
        <3> QED
            BY <2>2, <3>1, <3>2
    <2> QED
        BY <1>3, <1>12, <1>16, <2>1, <2>3, <2>4, OwnFrom
<1>19. PassInv'
    <2>0. PassInv
        BY DEF UpInv
    <2>1. Filing(up.fs)'
        BY <1>3, <1>11, <1>16 DEF Filing
    <2>2. \A b \in up.posted : n <= b.log
        <3> TAKE b \in up.posted
        <3>1. pass.b.log < b.log /\ b.log \in Nat
            BY <1>3, <2>0, UpFs DEF PassInv, Passing
        <3> QED
            BY ONLY <3>1, <1>4, <1>7
    <2>3. ~pass'.short => n = pass.b.log
        <3>1. ~pass'.short => ~(n < pass.b.log)
            BY <1>16, Zenon
        <3>2. ~(n < pass.b.log) => n = pass.b.log
            BY <1>4, <1>7
        <3> QED
            BY <3>1, <3>2, Zenon
    <2>4. /\ \A b \in up'.posted :
                /\ IsCommit(b, mark + 1)' /\ up'.fs.seen <= b.log /\ up'.fs.snap <= b.len
                /\ pass'.b.log < b.log
        BY <1>3, <1>11, <1>16, <2>0, <2>2 DEF PassInv, IsCommit, Passing
    <2>5. /\ \E d \in DOMAIN hist' : IsCommit(pass.b, d)'
          /\ up'.posted = {} => IsCommit(pass.b, mark + 1)'
        BY <1>3, <1>5, <1>11, <1>16, <2>0 DEF PassInv, IsCommit, Passing
    <2>6. up'.fs.gen \in 1..Len(states') /\ pass'.g = up'.fs.gen /\ up'.fs.seen = n /\ up'.fs.snap <= pass'.b.len
        BY <1>4, <1>6, <1>11, <1>16
    <2>7. up'.gone = FALSE
        BY <1>11, <1>16, <2>0 DEF PassInv, UpSet
    <2>8. Claimed' => up'.posted = {} /\ ~pass'.short
        <3>1. Claimed' <=> Claimed
            BY <1>3 DEF Claimed
        <3>2. Claimed => ~(n < pass.b.log)
            BY <1>2, <1>6, Zenon
        <3>3. Claimed => ~pass'.short
            BY <1>16, <3>2, Zenon
        <3>4. Claimed => up'.posted = {}
            BY <1>11, <1>16, <2>0 DEF PassInv
        <3> QED
            BY <3>1, <3>3, <3>4, Zenon
    <2> QED
        BY <1>7, <1>16, <2>1, <2>3, <2>4, <2>5, <2>6, <2>7, <2>8 DEF PassInv, Passing, Looked
<1>20. DirtyInv'
    <2>1. \A k \in Keys : Stands(up.fs.gen, k)' = Stands(g, k)'
        BY <1>11, <1>16 DEF Stands
    <2> QED
        BY <1>14, <1>16, <2>1 DEF DirtyInv, Clean
<1>21. AtInv' /\ FormsRight'
    <2>0. AtInv /\ FormsRight
        BY DEF UpInv
    <2>1. /\ \A x \in DOMAIN states' : Reached(x)' /\ states'[x].complete =>
                 \A k \in Keys : Stands(x, k)' = NoForm =>
                    \A d \in DOMAIN hist' : hist'[d].log <= states'[x].at => hist'[d].vals[k] = Base(k)'
          /\ FormsRight'
        BY <1>3, <1>13, <2>0, MarksStand
    <2>2. \A x \in DOMAIN states' : Reached(x)' =>
          /\ states'[x].at <= hist'[mark' + 1].log
          /\ \A b \in up'.posted : states'[x].at < b.log
          /\ Passing' => IF Claimed' THEN states'[x].at <= pass'.b.log ELSE states'[x].at < pass'.b.log
        BY <1>3, <1>11, <1>13, <1>16, <2>0 DEF AtInv, Reached, OnlyMarks, Passing, Claimed
    <2> QED
        BY <1>16, <2>1, <2>2 DEF AtInv
<1> QED
    BY <1>18, <1>19, <1>20, <1>21 DEF UpInv

-----------------------------------------------------------------------------
(* The rest of a pass.                                                        *)

LEMMA FormSomething ==
    ASSUME NEW n, NEW v
    PROVE  [ver |-> n, vals |-> v] # NoForm
<1>1. DOMAIN [ver |-> n, vals |-> v] # {} /\ DOMAIN NoForm = {}
    BY DEF NoForm
<1> QED
    BY <1>1

LEMMA UpPassFill ==
    ASSUME CommInv, BlockInv, UpInv, [Next]_vars, PassFill
    PROVE  UpInv'
<1>1. PICK built \in SUBSET Keys, whole \in BOOLEAN : Fills(built, whole)
    BY FillIs DEF CommInv
<1>2. /\ pass.pc = "fill" /\ UNCHANGED <<slab, chain, tail, log, wr, mark, hist, states, land>> /\ up' \in UpSet
      /\ ~Claimed /\ ~Claimed'
    <2>1. pass.pc = "fill" /\ UNCHANGED <<slab, chain, tail, log, wr, mark, hist, states, land>> /\ up' \in UpSet
        BY FillIs DEF CommInv, table, commits
    <2>2. ~Claimed
        BY <2>1 DEF UpInv, PassInv
    <2> QED
        BY <2>1, <2>2 DEF Claimed
<1>3. pass' = Idle \/ (pass' = [pass EXCEPT !.pc = "publish"] /\ ~pass.short)
    BY <1>1, Zenon DEF Fills
<1>4. /\ pass.g \in 1..Len(states) /\ pass.b \in CommitSet /\ pass.b.wm \in Nat /\ up \in UpSet
      /\ up.fs \in FormsStates /\ pass \in PassSet /\ TabInv /\ pass.short \in BOOLEAN /\ up.complete \in BOOLEAN
      /\ up.fs.seen \in Nat /\ pass.b.log \in Nat
    BY <1>2, PassIn, UpFs, FsTypes DEF CommInv, PassSet, UpSet
<1>5. PICK c \in DOMAIN hist : IsCommit(pass.b, c)
    BY <1>2 DEF UpInv, PassInv, Passing
<1>6. /\ up.fs.seen <= pass.b.log /\ up.fs.snap <= pass.b.len /\ Filing(up.fs) /\ up.fs.snap # NoSnap
      /\ pass.g = up.fs.gen /\ (~pass.short => up.fs.seen = pass.b.log)
    BY <1>2 DEF UpInv, PassInv, Passing, Looked
<1>7. /\ pass.b.log = hist[c].log /\ pass.b.wm = hist[c].wm /\ mark + 1 \in DOMAIN hist /\ c <= mark + 1
      /\ hist[c].log \in Nat
    BY <1>5, HistFacts, CommitLine DEF IsCommit
<1>8. PICK fs \in FormsStates : fs = up'.fs
    BY <1>2 DEF UpSet
<1>9. built \subseteq Needed /\ (whole => built = Needed /\ ~pass.short)
    BY <1>1, Zenon DEF Fills
<1>10. \A k \in Needed : /\ up.fs.own[k] = NoForm
                         /\ Built(up.fs, k, pass.b.wm) = [ver |-> up.fs.seen, vals |-> hist[c].vals[k]]
    BY <1>7, CommitWm DEF Built, Needed
<1>11. up'.dirty = up.dirty \cup built /\ up'.complete = (up.complete \/ whole)
    BY <1>1, Zenon DEF Fills
<1>12. \/ up'.posted = up.posted
       \/ up'.posted = {pass.b} /\ up.posted = {} /\ pass' = Idle
    BY <1>1, Zenon DEF Fills
<1>13. up'.gone = FALSE
    <2>1. up'.gone = (up.gone /\ built = {} /\ ~whole)
        BY <1>1, Zenon DEF Fills
    <2>2. ~up.gone
        BY DEF UpInv, PassInv
    <2> QED
        BY <2>1, <2>2, Zenon
<1>14. up'.complete => up.complete \/ whole
    BY <1>11, Zenon
<1>15. /\ fs.seen = up.fs.seen /\ fs.snap = up.fs.snap /\ fs.gen = up.fs.gen /\ fs.added = up.fs.added
       /\ fs.own = FilledOwn(built)
    <2>1. fs = [up.fs EXCEPT !.own = FilledOwn(built)]
        BY <1>1, <1>8, Zenon DEF Fills, FilledFs
    <2> QED
        BY <1>4, <2>1 DEF FormsStates
<1>17. \A k \in Keys : \/ fs.own[k] = up.fs.own[k] /\ k \notin built
                       \/ /\ k \in built /\ up.fs.own[k] = NoForm
                          /\ fs.own[k] = [ver |-> up.fs.seen, vals |-> hist[c].vals[k]]
    <2>1. \A k \in Keys : fs.own[k] = IF k \in built THEN Built(up.fs, k, pass.b.wm) ELSE up.fs.own[k]
        BY <1>15 DEF FilledOwn
    <2> QED
        BY <1>9, <1>10, <2>1
<1>18. \A k \in Keys : k \in Needed <=> up.fs.own[k] = NoForm /\ Overlaid(up.fs, k)
    BY DEF Needed
<1>19. \/ pass'.pc = "idle"
       \/ pass' # Idle /\ pass'.pc = "publish" /\ pass'.b = pass.b /\ pass'.g = pass.g /\ ~pass'.short /\ ~pass.short
    <2>1. CASE pass' = Idle
        BY <2>1 DEF Idle
    <2>2. CASE pass' = [pass EXCEPT !.pc = "publish"] /\ ~pass.short
        BY <1>4, <2>2 DEF Idle, PassSet
    <2> QED
        BY <1>3, <2>1, <2>2
<1>20. Filing(fs)
    <2>1. \A k \in Keys : fs.own[k] # NoForm => fs.own[k].ver <= fs.seen
        <3> SUFFICES ASSUME NEW k \in Keys, fs.own[k] # NoForm PROVE fs.own[k].ver <= up.fs.seen
            BY <1>15
        <3>1. CASE fs.own[k] = up.fs.own[k]
            BY <1>6, <3>1 DEF Filing
        <3>2. CASE fs.own[k] = [ver |-> up.fs.seen, vals |-> hist[c].vals[k]]
            BY <1>4, <3>2
        <3> QED
            BY <1>17, <3>1, <3>2
    <2> QED
        BY <1>6, <1>15, <2>1 DEF Filing
<1>21. PassInv'
    <2>0. PassInv
        BY DEF UpInv
    <2>1. Filing(up.fs)'
        BY <1>2, <1>8, <1>20 DEF Filing
    <2>2. \A b \in up'.posted : IsCommit(b, mark + 1) /\ up.fs.seen <= b.log /\ up.fs.snap <= b.len
        <3>1. up.posted = {} => IsCommit(pass.b, mark + 1)
            BY <1>2, <2>0 DEF PassInv, Passing
        <3> QED
            BY <1>6, <1>12, <2>0, <3>1 DEF PassInv
    <2>3. pass' # Idle => \A b \in up'.posted : pass.b.log < b.log
        BY <1>2, <1>12, <2>0 DEF PassInv, Passing
    <2>4. CASE pass'.pc = "idle"
        BY <1>2, <1>8, <1>13, <1>15, <2>0, <2>1, <2>2, <2>4 DEF PassInv, Passing, Looked, IsCommit
    <2>5. CASE pass' # Idle /\ pass'.pc = "publish" /\ pass'.b = pass.b /\ pass'.g = pass.g /\ ~pass'.short /\ ~pass.short
        <3>1. up'.posted = up.posted
            BY <1>12, <2>5
        <3> QED
            BY <1>2, <1>6, <1>8, <1>13, <1>15, <2>0, <2>1, <2>2, <2>3, <2>5, <3>1
            DEF PassInv, Passing, Looked, IsCommit
    <2> QED
        BY <1>19, <2>4, <2>5
<1>22. OwnInv'
    <2>0. OwnInv
        BY DEF UpInv
    <2>1. NowRight(fs)
        <3> SUFFICES ASSUME NEW k \in Keys, fs.own[k] # NoForm, ~Between(up.fs.seen, Len(log), k), ~Writing(k)
                     PROVE  fs.own[k].vals = Values(k, tail)
            BY <1>15 DEF NowRight
        <3>1. CASE fs.own[k] = up.fs.own[k]
            BY <2>0, <3>1 DEF OwnInv, NowRight
        <3>2. CASE k \in built /\ fs.own[k] = [ver |-> up.fs.seen, vals |-> hist[c].vals[k]]
            <4>1. up.fs.seen <= hist[c].log
                BY <1>6, <1>7
            <4>2. hist[c].vals[k] = Values(k, tail)
                BY <1>4, <4>1, CommitTail
            <4> QED
                BY <3>2, <4>2
        <3> QED
            BY <1>17, <3>1, <3>2
    <2>2. ASSUME NEW e \in DOMAIN hist, c <= e, RightAt(up.fs, e) PROVE RightAt(fs, e)
        <3> SUFFICES ASSUME NEW k \in Keys, fs.own[k] # NoForm, ~Between(up.fs.seen, hist[e].log, k)
                     PROVE  fs.own[k].vals = hist[e].vals[k]
            BY <1>15 DEF RightAt
        <3>1. CASE fs.own[k] = up.fs.own[k]
            BY <2>2, <3>1 DEF RightAt
        <3>2. CASE k \in built /\ fs.own[k] = [ver |-> up.fs.seen, vals |-> hist[c].vals[k]]
            <4>1. up.fs.seen <= hist[c].log
                BY <1>6, <1>7
            <4>2. hist[c].vals[k] = hist[e].vals[k]
                BY <1>4, <2>2, <4>1, CommitVals
            <4> QED
                BY <3>2, <4>2
        <3> QED
            BY <1>17, <3>1, <3>2
    <2>3. \A e \in DOMAIN hist : hist[e].log = pass.b.log => RightAt(fs, e)
        <3> SUFFICES ASSUME NEW e \in DOMAIN hist, hist[e].log = pass.b.log PROVE RightAt(fs, e)
            OBVIOUS
        <3>1. RightAt(up.fs, e)
            BY <1>2, <2>0 DEF OwnInv, Passing
        <3>2. c = e /\ c \in Nat
            BY <1>7, CommitLine
        <3> QED
            BY <2>2, <3>1, <3>2
    <2>4. up'.posted # {} => RightAt(fs, mark + 1)
        <3>1. CASE up.posted # {}
            BY <1>7, <2>0, <2>2, <3>1 DEF OwnInv
        <3>2. CASE up.posted = {}
            <4>1. IsCommit(pass.b, mark + 1)
                BY <1>2, <3>2 DEF UpInv, PassInv, Passing
            <4> QED
                BY <1>7, <2>3, <4>1 DEF IsCommit
        <3> QED
            BY <3>1, <3>2
    <2>5. up'.complete => ReadFormed(fs)
        <3> SUFFICES ASSUME up'.complete, NEW k \in Keys, fs.own[k] = NoForm PROVE ~Between(0, up.fs.seen, k)
            BY <1>15 DEF ReadFormed
        <3>1. up.fs.own[k] = NoForm /\ k \notin built
            BY <1>17, FormSomething
        <3>2. CASE whole
            <4>1. ~Overlaid(up.fs, k)
                BY <1>9, <1>18, <3>1, <3>2
            <4> QED
                BY <1>4, <1>6, <4>1, OverlaidBetween
        <3>3. CASE up.complete
            BY <2>0, <3>1, <3>3 DEF OwnInv, ReadFormed
        <3> QED
            BY <1>14, <3>2, <3>3
    <2>6. pass'.pc # "idle" => pass'.b = pass.b
        BY <1>4, <1>19
    <2> QED
        BY <1>2, <1>8, <1>15, <2>1, <2>3, <2>4, <2>5, <2>6, OwnFrom
<1>24. DirtyInv'
    <2>1. \A k \in Keys \ up'.dirty : Clean(fs, Stands(fs.gen, k), k)
        <3> TAKE k \in Keys \ up'.dirty
        <3>1. k \notin up.dirty /\ k \notin built
            BY <1>11
        <3>2. fs.own[k] = up.fs.own[k]
            BY <1>17, <3>1
        <3>3. Clean(up.fs, Stands(up.fs.gen, k), k)
            BY <3>1 DEF UpInv, DirtyInv
        <3> QED
            BY <1>15, <3>2, <3>3 DEF Clean
    <2> QED
        BY <1>2, <1>8, <1>15, <2>1 DEF DirtyInv, Clean, Stands
<1>25. AtInv' /\ FormsRight'
    <2>0. AtInv /\ FormsRight
        BY DEF UpInv
    <2>1. \A g \in DOMAIN states : Reached(g) =>
          /\ states[g].at <= hist[mark + 1].log
          /\ \A b \in up'.posted : states[g].at < b.log
          /\ states[g].at < pass.b.log
        BY <1>2, <1>12, <2>0 DEF AtInv, Passing
    <2>2. pass'.pc # "at" /\ (pass'.pc # "idle" => pass'.b = pass.b)
        BY <1>4, <1>19
    <2>3. FormsRight'
        BY <1>2, <2>0 DEF FormsRight, Stands, Base
    <2>4. AtInv'
        BY <1>2, <2>0, <2>1, <2>2 DEF AtInv, Reached, Passing, Stands, Base
    <2> QED
        BY <2>3, <2>4
<1> QED
    BY <1>21, <1>22, <1>24, <1>25 DEF UpInv

LEMMA UpPassPublish ==
    ASSUME CommInv, BlockInv, UpInv, [Next]_vars, PassPublish
    PROVE  UpInv'
<1>0. pass.pc = "publish" /\ UNCHANGED <<slab, chain, tail, log, wr, mark, hist, land, pass>> /\ up.dirty # {}
    BY DEF PassPublish, table, commits
<1>1. /\ pass.g \in 1..Len(states) /\ pass.b.log \in 0..MaxChunk /\ up \in UpSet /\ up.fs \in FormsStates /\ pass.b.log \in Nat
      /\ DOMAIN states = 1..Len(states) /\ up.dirty \subseteq Keys
    BY <1>0, PassIn, UpFs DEF UpSet
<1>2. PICK g \in DOMAIN states : g = pass.g /\ g = up.fs.gen /\ states[g] \in StateSet
    BY <1>0, <1>1, UpFs DEF UpInv, PassInv, Looked
<1>3. PICK k \in Keys : k = Min(up.dirty)
    <2>1. Keys \subseteq Nat
        BY Numbers DEF Keys
    <2> QED
        BY <1>0, <1>1, <2>1, MinIn
<1>4. PICK f : f = IF up.fs.own[k] = NoForm THEN Mark
                   ELSE [at |-> pass.b.log, ver |-> up.fs.own[k].ver, vals |-> up.fs.own[k].vals]
    OBVIOUS
<1>5. states' = [states EXCEPT ![g].forms[k] = f] /\ up' = [up EXCEPT !.dirty = up.dirty \ {k}]
    BY <1>2, <1>3, <1>4, Zenon DEF PassPublish
<1>6. /\ up'.fs = up.fs /\ up'.posted = up.posted /\ up'.complete = up.complete /\ up'.dirty = up.dirty \ {k}
      /\ up'.gone = up.gone /\ (Claimed' <=> Claimed)
    BY <1>0, <1>1, <1>5 DEF UpSet, Claimed
<1>7. /\ DOMAIN states' = DOMAIN states
      /\ \A x \in DOMAIN states : states'[x].at = states[x].at /\ states'[x].complete = states[x].complete
      /\ \A x \in DOMAIN states : \A j \in Keys : Stands(x, j)' = IF x = g /\ j = k THEN f ELSE Stands(x, j)
    <2>1. \A x \in DOMAIN states : states[x] \in StateSet
        BY UpFs
    <2>2. DOMAIN states' = DOMAIN states /\ \A x \in DOMAIN states : x # g => states'[x] = states[x]
        BY <1>5
    <2>3. states'[g] = [states[g] EXCEPT !.forms[k] = f]
        BY <1>2, <1>5
    <2>4. states'[g].at = states[g].at /\ states'[g].complete = states[g].complete
          /\ \A j \in Keys : states'[g].forms[j] = IF j = k THEN f ELSE states[g].forms[j]
        BY <1>2, <2>3 DEF StateSet
    <2> QED
        BY <2>2, <2>4 DEF Stands
<1>8. Len(states') = Len(states)
    <2>1. BlockInv'
        BY BlockPassPublish DEF CommInv
    <2>2. DOMAIN states' = 1..Len(states') /\ Len(states') \in Nat /\ Len(states) \in Nat
        BY <2>1, UpFs DEF BlockInv, BlockType
    <2> QED
        BY <1>1, <1>7, <2>2
<1>9. PassInv'
    <2>1. PassInv
        BY DEF UpInv
    <2> QED
        BY <1>0, <1>6, <1>8, <2>1 DEF PassInv, Filing, Passing, Looked, IsCommit
<1>10. OwnInv'
    <2>1. OwnInv
        BY DEF UpInv
    <2> QED
        BY <1>0, <1>6, <2>1, OwnFrom DEF OwnInv, Passing
<1>11. f # NoForm /\ f \in {Mark, [at |-> pass.b.log, ver |-> up.fs.own[k].ver, vals |-> up.fs.own[k].vals]}
    <2>1. DOMAIN [at |-> pass.b.log, ver |-> up.fs.own[k].ver, vals |-> up.fs.own[k].vals] # {} /\ DOMAIN NoForm = {}
        BY DEF NoForm
    <2>2. [at |-> pass.b.log, ver |-> up.fs.own[k].ver, vals |-> up.fs.own[k].vals] # NoForm
        BY <2>1
    <2> QED
        BY <1>4, <2>2, MarkNotForm
<1>12. up.fs.own[k] = NoForm => f = Mark
    BY <1>4
<1>13. up.fs.own[k] # NoForm => /\ f.at = pass.b.log /\ f.ver = up.fs.own[k].ver /\ f.vals = up.fs.own[k].vals
                                /\ f.ver \in Nat /\ f.ver <= up.fs.seen /\ Proper(f)
    <2> SUFFICES ASSUME up.fs.own[k] # NoForm
                 PROVE  /\ f.at = pass.b.log /\ f.ver = up.fs.own[k].ver /\ f.vals = up.fs.own[k].vals
                        /\ f.ver \in Nat /\ f.ver <= up.fs.seen /\ Proper(f)
        OBVIOUS
    <2>1. f.at = pass.b.log /\ f.ver = up.fs.own[k].ver /\ f.vals = up.fs.own[k].vals
        BY <1>4
    <2>2. up.fs.own[k].ver \in Nat /\ up.fs.own[k].ver <= up.fs.seen
        BY <1>1, FsTypes DEF UpInv, PassInv, Filing
    <2>3. f # Mark
        BY <2>1, <2>2, MarkNotForm
    <2> QED
        BY <1>11, <2>1, <2>2, <2>3 DEF Proper
<1>15. DirtyInv'
    <2>1. Clean(up.fs, f, k)
        BY <1>12, <1>13 DEF Clean
    <2>2. \A j \in Keys \ up'.dirty : Clean(up.fs, Stands(g, j)', j)
        <3> TAKE j \in Keys \ up'.dirty
        <3>1. CASE j = k
            BY <1>7, <2>1, <3>1
        <3>2. CASE j # k
            <4>1. j \in Keys \ up.dirty
                BY <1>6, <3>2
            <4>2. Clean(up.fs, Stands(g, j), j)
                BY <1>2, <4>1 DEF UpInv, DirtyInv
            <4>3. Stands(g, j)' = Stands(g, j)
                BY <1>7, <3>2
            <4> QED
                BY <4>2, <4>3
        <3> QED
            BY <3>1, <3>2
    <2>3. \A j \in Keys : Stands(up.fs.gen, j)' = Stands(g, j)'
        BY <1>2, <1>6 DEF Stands
    <2> QED
        BY <1>6, <2>2, <2>3 DEF DirtyInv, Clean
<1>16. \A b : Base(b)' = Base(b)
    BY DEF Base
<1>17. \A x \in DOMAIN states : \A j \in Keys : Stands(x, j)' = NoForm => Stands(x, j) = NoForm
    BY <1>7, <1>11
<1>18. AtInv'
    <2>0. AtInv
        BY DEF UpInv
    <2>1. \A x \in DOMAIN states' : Reached(x)' =>
          /\ states'[x].at <= hist'[mark' + 1].log
          /\ \A b \in up'.posted : states'[x].at < b.log
          /\ Passing' => IF Claimed' THEN states'[x].at <= pass'.b.log ELSE states'[x].at < pass'.b.log
        BY <1>0, <1>6, <1>7, <2>0 DEF AtInv, Reached, Passing
    <2>2. \A x \in DOMAIN states' : Reached(x)' /\ states'[x].complete =>
          \A j \in Keys : Stands(x, j)' = NoForm =>
              \A c \in DOMAIN hist' : hist'[c].log <= states'[x].at => hist'[c].vals[j] = Base(j)'
        BY <1>0, <1>7, <1>16, <1>17, <2>0 DEF AtInv, Reached
    <2> QED
        BY <1>0, <2>1, <2>2 DEF AtInv
<1>19. FormsRight'
    <2>0. FormsRight /\ AtInv
        BY DEF UpInv
    <2> SUFFICES ASSUME NEW x \in DOMAIN states, NEW c \in DOMAIN hist, NEW j \in Keys, states[x].at = hist[c].log
                 PROVE  IF Stands(x, j)' = NoForm THEN states[x].complete => hist[c].vals[j] = Base(j)
                        ELSE (Stands(x, j)' # Mark /\ Stands(x, j)'.at <= hist[c].log => Stands(x, j)'.vals = hist[c].vals[j])
        BY <1>0, <1>7, <1>16 DEF FormsRight
    <2>1. CASE x = g /\ j = k
        <3>1. Stands(x, j)' = f
            BY <1>7, <2>1
        <3>2. hist[c].log \in 0..MaxChunk /\ hist[c].log \in Nat
            BY HistFacts
        <3>3. Reached(x)
            BY <3>2, Numbers DEF Reached
        <3>4. hist[c].log <= pass.b.log
            BY <1>0, <1>1, <2>0, <3>2, <3>3 DEF AtInv, Passing
        <3>5. f # Mark => f.at = pass.b.log /\ up.fs.own[k] # NoForm /\ f.vals = up.fs.own[k].vals
            BY <1>12, <1>13
        <3>6. ASSUME f # Mark, f.at <= hist[c].log PROVE f.vals = hist[c].vals[j]
            <4>1. hist[c].log = pass.b.log
                BY <1>1, <3>2, <3>4, <3>5, <3>6
            <4>2. RightAt(up.fs, c) /\ up.fs.seen = pass.b.log
                BY <1>0, <4>1 DEF UpInv, OwnInv, PassInv, Passing, Looked
            <4>3. ~Between(up.fs.seen, hist[c].log, k)
                BY <1>1, <4>1, <4>2, BetweenNone
            <4> QED
                BY <2>1, <3>5, <3>6, <4>2, <4>3 DEF RightAt
        <3> QED
            BY <1>11, <3>1, <3>6
    <2>2. CASE ~(x = g /\ j = k)
        <3>1. Stands(x, j)' = Stands(x, j)
            BY <1>7, <2>2
        <3> QED
            BY <2>0, <3>1 DEF FormsRight
    <2> QED
        BY <2>1, <2>2
<1> QED
    BY <1>9, <1>10, <1>15, <1>18, <1>19 DEF UpInv

\* Once nothing is dirty, the state stands as the writer's own blocks do, at the pass's
\* commit.
LEMMA AllTold ==
    ASSUME CommInv, BlockInv, UpInv, pass.pc \in {"publish", "at"}, up.dirty = {}, NEW k \in Keys
    PROVE  /\ Proper(Stands(pass.g, k)) =>
                 \A c \in DOMAIN hist : hist[c].log = pass.b.log => Stands(pass.g, k).vals = hist[c].vals[k]
           /\ Stands(pass.g, k) = NoForm /\ up.complete =>
                 \A c \in DOMAIN hist : hist[c].log <= pass.b.log => hist[c].vals[k] = Base(k)
<1> DEFINE f == Stands(pass.g, k)
<1>1. pass.g = up.fs.gen /\ ~pass.short /\ up.fs.seen = pass.b.log /\ pass.b.log \in Nat
    BY UpFs DEF UpInv, PassInv, Looked
<1>2. Clean(up.fs, f, k)
    BY <1>1 DEF UpInv, DirtyInv
<1>3. ASSUME Proper(f), NEW c \in DOMAIN hist, hist[c].log = pass.b.log PROVE f.vals = hist[c].vals[k]
    <2>1. up.fs.own[k] # NoForm /\ f.vals = up.fs.own[k].vals
        BY <1>2, <1>3 DEF Clean, Proper
    <2>2. RightAt(up.fs, c)
        BY <1>3 DEF UpInv, OwnInv, Passing
    <2>3. ~Between(up.fs.seen, hist[c].log, k)
        BY <1>1, <1>3, BetweenNone
    <2> QED
        BY <2>1, <2>2, <2>3 DEF RightAt
<1>4. ASSUME f = NoForm, up.complete, NEW c \in DOMAIN hist, hist[c].log <= pass.b.log PROVE hist[c].vals[k] = Base(k)
    <2>1. up.fs.own[k] = NoForm
        BY <1>2, <1>4 DEF Clean, Proper
    <2>2. ~Between(0, up.fs.seen, k)
        BY <1>4, <2>1 DEF UpInv, OwnInv, ReadFormed
    <2> QED
        BY <1>1, <1>4, <2>2, CommitBase
<1> QED
    BY <1>3, <1>4

LEMMA UpPassComplete ==
    ASSUME CommInv, BlockInv, UpInv, [Next]_vars, PassComplete
    PROVE  UpInv'
<1>0. /\ pass.pc = "publish" /\ UNCHANGED <<slab, chain, tail, log, wr, mark, hist, land, up>> /\ up.dirty = {}
      /\ pass' = [pass EXCEPT !.pc = "at"]
    BY DEF PassComplete, table, commits
<1>1. pass.g \in 1..Len(states) /\ pass.b.log \in Nat /\ DOMAIN states = 1..Len(states) /\ pass \in PassSet
    BY <1>0, PassIn, UpFs
<1>2. PICK g \in DOMAIN states : g = pass.g /\ states[g] \in StateSet
    BY <1>1, UpFs
<1>3. pass'.pc = "at" /\ pass'.b = pass.b /\ pass'.g = pass.g /\ pass'.short = pass.short
    BY <1>0, <1>1 DEF PassSet
<1>4. states' = [states EXCEPT ![g]["complete"] = up.complete]
    BY <1>2 DEF PassComplete, PassOrder, Told
<1>5. /\ DOMAIN states' = DOMAIN states
      /\ \A x \in DOMAIN states : states'[x].at = states[x].at /\ states'[x].forms = states[x].forms
      /\ \A x \in DOMAIN states : x # g => states'[x] = states[x]
      /\ states'[g].complete = up.complete
    <2>1. DOMAIN states' = DOMAIN states /\ \A x \in DOMAIN states : x # g => states'[x] = states[x]
        BY <1>4
    <2>2. states'[g] = [states[g] EXCEPT !["complete"] = up.complete]
        BY <1>4
    <2>3. states'[g].at = states[g].at /\ states'[g].forms = states[g].forms /\ states'[g].complete = up.complete
        BY <1>2, <2>2 DEF StateSet
    <2> QED
        BY <2>1, <2>3
<1>6. Len(states') = Len(states)
    <2>1. BlockInv'
        BY BlockPassTell
    <2>2. DOMAIN states' = 1..Len(states') /\ Len(states') \in Nat /\ Len(states) \in Nat
        BY <2>1, UpFs DEF BlockInv, BlockType
    <2> QED
        BY <1>1, <1>5, <2>2
<1>7. \A x \in DOMAIN states : \A k \in Keys : Stands(x, k)' = Stands(x, k)
    BY <1>5 DEF Stands
<1>8. \A k : Base(k)' = Base(k)
    BY DEF Base
<1>9. PassInv'
    <2>1. PassInv
        BY DEF UpInv
    <2> QED
        BY <1>0, <1>3, <1>6, <2>1 DEF PassInv, Filing, Passing, Looked, IsCommit, Claimed
<1>10. OwnInv'
    <2>1. OwnInv
        BY DEF UpInv
    <2> QED
        BY <1>0, <1>3, <2>1, OwnFrom DEF OwnInv, Passing
<1>12. DirtyInv'
    <2>1. DirtyInv /\ up.fs.gen \in DOMAIN states
        BY <1>1 DEF UpInv, PassInv
    <2>2. \A k \in Keys : Stands(up.fs.gen, k)' = Stands(up.fs.gen, k)
        BY <1>0, <1>5, <2>1 DEF Stands
    <2> QED
        BY <1>0, <2>1, <2>2 DEF DirtyInv, Clean
<1>13. \A k \in Keys : Stands(g, k) = NoForm /\ up.complete =>
                 \A c \in DOMAIN hist : hist[c].log <= pass.b.log => hist[c].vals[k] = Base(k)
    BY <1>0, <1>2, AllTold
<1>14. AtInv /\ FormsRight
    BY DEF UpInv
<1>15. \A x \in DOMAIN states : Reached(x) => states[x].at <= pass.b.log /\ states[x].at \in Nat
    BY <1>0, <1>1, <1>14, UpFs DEF AtInv, Passing
<1>16. \A x \in DOMAIN states : Reached(x) /\ states'[x].complete =>
          \A k \in Keys : Stands(x, k) = NoForm =>
              \A c \in DOMAIN hist : hist[c].log <= states[x].at => hist[c].vals[k] = Base(k)
    <2> SUFFICES ASSUME NEW x \in DOMAIN states, Reached(x), states'[x].complete, NEW k \in Keys, Stands(x, k) = NoForm,
                        NEW c \in DOMAIN hist, hist[c].log <= states[x].at
                 PROVE  hist[c].vals[k] = Base(k)
        OBVIOUS
    <2>1. CASE x = g
        <3>1. hist[c].log \in Nat
            BY HistFacts
        <3>2. hist[c].log <= pass.b.log
            BY <1>1, <1>15, <3>1
        <3> QED
            BY <1>5, <1>13, <2>1, <3>2
    <2>2. CASE x # g
        BY <1>5, <1>14, <2>2 DEF AtInv
    <2> QED
        BY <2>1, <2>2
<1>17. AtInv'
    <2>1. \A x \in DOMAIN states : Reached(x)' <=> Reached(x)
        BY <1>5 DEF Reached
    <2>2. \A x \in DOMAIN states' : Reached(x)' =>
          /\ states'[x].at <= hist'[mark' + 1].log
          /\ \A b \in up'.posted : states'[x].at < b.log
          /\ Passing' => IF Claimed' THEN states'[x].at <= pass'.b.log ELSE states'[x].at < pass'.b.log
        BY <1>0, <1>3, <1>5, <1>14, <2>1 DEF AtInv, Passing, Claimed
    <2>3. \A x \in DOMAIN states' : Reached(x)' /\ states'[x].complete =>
          \A k \in Keys : Stands(x, k)' = NoForm =>
              \A c \in DOMAIN hist' : hist'[c].log <= states'[x].at => hist'[c].vals[k] = Base(k)'
        BY <1>0, <1>5, <1>7, <1>8, <1>16, <2>1
    <2>4. up'.dirty = {} /\ states'[pass'.g].complete = up'.complete
        BY <1>0, <1>2, <1>3, <1>5
    <2> QED
        BY <2>2, <2>3, <2>4 DEF AtInv
<1>18. FormsRight'
    <2> SUFFICES ASSUME NEW x \in DOMAIN states, NEW c \in DOMAIN hist, NEW k \in Keys, states[x].at = hist[c].log
                 PROVE  IF Stands(x, k) = NoForm THEN states'[x].complete => hist[c].vals[k] = Base(k)
                        ELSE (Stands(x, k) # Mark /\ Stands(x, k).at <= hist[c].log => Stands(x, k).vals = hist[c].vals[k])
        BY <1>0, <1>5, <1>7, <1>8 DEF FormsRight
    <2>1. hist[c].log \in 0..MaxChunk /\ hist[c].log \in Nat
        BY HistFacts
    <2>2. Reached(x) /\ hist[c].log <= states[x].at
        BY <2>1, Numbers DEF Reached
    <2>3. CASE Stands(x, k) = NoForm
        BY <1>16, <2>2, <2>3
    <2>4. CASE Stands(x, k) # NoForm
        BY <1>14, <2>4 DEF FormsRight
    <2> QED
        BY <2>3, <2>4
<1> QED
    BY <1>9, <1>10, <1>12, <1>17, <1>18 DEF UpInv

LEMMA UpPassAt ==
    ASSUME CommInv, BlockInv, UpInv, [Next]_vars, PassAt
    PROVE  UpInv'
<1>0. /\ pass.pc = "at" /\ UNCHANGED <<slab, chain, tail, log, mark, hist, land, up>> /\ pass' = Idle
      /\ up.dirty = {} /\ states[pass.g].complete = up.complete
    BY DEF PassAt, PassEnds, commits, UpInv, AtInv
<1>18. (wr' = wr /\ ~Claimed) \/ (Claimed /\ wr' = Resting)
    BY DEF PassAt, PassEnds
<1>19. ~Claimed' /\ (wr' = wr \/ (~Under /\ ~Under'))
    BY <1>18 DEF Claimed, Resting, Under
<1>1. pass.g \in 1..Len(states) /\ pass.b.log \in Nat /\ DOMAIN states = 1..Len(states) /\ pass \in PassSet
    BY <1>0, PassIn, UpFs
<1>2. PICK g \in DOMAIN states : g = pass.g /\ states[g] \in StateSet
    BY <1>1, UpFs
<1>3. pass'.pc = "idle"
    BY <1>0, IdleIn
<1>4. states' = [states EXCEPT ![g]["at"] = pass.b.log]
    BY <1>2 DEF PassAt, PassOrder, Told
<1>5. /\ DOMAIN states' = DOMAIN states
      /\ \A x \in DOMAIN states : states'[x].complete = states[x].complete /\ states'[x].forms = states[x].forms
      /\ \A x \in DOMAIN states : x # g => states'[x] = states[x]
      /\ states'[g].at = pass.b.log
    <2>1. DOMAIN states' = DOMAIN states /\ \A x \in DOMAIN states : x # g => states'[x] = states[x]
        BY <1>4
    <2>2. states'[g] = [states[g] EXCEPT !["at"] = pass.b.log]
        BY <1>4
    <2>3. states'[g].complete = states[g].complete /\ states'[g].forms = states[g].forms /\ states'[g].at = pass.b.log
        BY <1>2, <2>2 DEF StateSet
    <2> QED
        BY <2>1, <2>3
<1>6. Len(states') = Len(states)
    <2>1. BlockInv'
        BY BlockPassTell
    <2>2. DOMAIN states' = 1..Len(states') /\ Len(states') \in Nat /\ Len(states) \in Nat
        BY <2>1, UpFs DEF BlockInv, BlockType
    <2> QED
        BY <1>1, <1>5, <2>2
<1>7. \A x \in DOMAIN states : \A k \in Keys : Stands(x, k)' = Stands(x, k)
    BY <1>5 DEF Stands
<1>8. \A k : Base(k)' = Base(k)
    BY DEF Base
<1>9. PassInv'
    <2>1. PassInv
        BY DEF UpInv
    <2> QED
        BY <1>0, <1>3, <1>6, <1>19, <2>1 DEF PassInv, Filing, Passing, Looked, IsCommit
<1>10. OwnInv'
    <2>1. OwnInv
        BY DEF UpInv
    <2> QED
        BY <1>0, <1>3, <1>19, <2>1, OwnFrom DEF OwnInv, Passing
<1>12. DirtyInv'
    <2>1. DirtyInv /\ up.fs.gen \in DOMAIN states
        BY <1>1 DEF UpInv, PassInv
    <2>2. \A k \in Keys : Stands(up.fs.gen, k)' = Stands(up.fs.gen, k)
        BY <1>0, <1>5, <2>1 DEF Stands
    <2> QED
        BY <1>0, <2>1, <2>2 DEF DirtyInv, Clean
<1>13. \A k \in Keys :
           /\ Proper(Stands(g, k)) =>
                 \A c \in DOMAIN hist : hist[c].log = pass.b.log => Stands(g, k).vals = hist[c].vals[k]
           /\ Stands(g, k) = NoForm /\ states[g].complete =>
                 \A c \in DOMAIN hist : hist[c].log <= pass.b.log => hist[c].vals[k] = Base(k)
    BY <1>0, <1>2, AllTold
<1>14. AtInv /\ FormsRight
    BY DEF UpInv
<1>15. pass.b.log <= hist[mark + 1].log /\ \A b \in up.posted : pass.b.log < b.log
    <2>1. PICK c \in DOMAIN hist : pass.b.log = hist[c].log
        BY <1>0 DEF UpInv, PassInv, Passing, IsCommit
    <2>2. c <= mark + 1 /\ mark + 1 \in DOMAIN hist
        BY CommitLine
    <2>3. hist[c].log <= hist[mark + 1].log
        BY <2>2, CommitLine
    <2> QED
        BY <1>0, <2>1, <2>3 DEF UpInv, PassInv, Passing
<1>16. AtInv'
    <2>1. \A x \in DOMAIN states' : Reached(x)' =>
          /\ states'[x].at <= hist'[mark' + 1].log
          /\ \A b \in up'.posted : states'[x].at < b.log
        <3> SUFFICES ASSUME NEW x \in DOMAIN states, states'[x].at # Unbounded
                     PROVE  states'[x].at <= hist[mark + 1].log /\ \A b \in up.posted : states'[x].at < b.log
            BY <1>0, <1>5 DEF Reached
        <3>1. CASE x = g
            BY <1>5, <1>15, <3>1
        <3>2. CASE x # g
            BY <1>5, <1>14, <3>2 DEF AtInv, Reached
        <3> QED
            BY <3>1, <3>2
    <2>2. \A x \in DOMAIN states' : Reached(x)' /\ states'[x].complete =>
          \A k \in Keys : Stands(x, k)' = NoForm =>
              \A c \in DOMAIN hist' : hist'[c].log <= states'[x].at => hist'[c].vals[k] = Base(k)'
        <3> SUFFICES ASSUME NEW x \in DOMAIN states, states'[x].at # Unbounded, states[x].complete, NEW k \in Keys,
                            Stands(x, k) = NoForm, NEW c \in DOMAIN hist, hist[c].log <= states'[x].at
                     PROVE  hist[c].vals[k] = Base(k)
            BY <1>0, <1>5, <1>7, <1>8 DEF Reached
        <3>1. CASE x = g
            BY <1>5, <1>13, <3>1
        <3>2. CASE x # g
            BY <1>5, <1>14, <3>2 DEF AtInv, Reached
        <3> QED
            BY <3>1, <3>2
    <2> QED
        BY <1>3, <2>1, <2>2 DEF AtInv, Passing
<1>17. FormsRight'
    <2> SUFFICES ASSUME NEW x \in DOMAIN states, NEW c \in DOMAIN hist, NEW k \in Keys, states'[x].at = hist[c].log
                 PROVE  IF Stands(x, k) = NoForm THEN states[x].complete => hist[c].vals[k] = Base(k)
                        ELSE (Stands(x, k) # Mark /\ Stands(x, k).at <= hist[c].log => Stands(x, k).vals = hist[c].vals[k])
        BY <1>0, <1>5, <1>7, <1>8 DEF FormsRight
    <2>1. CASE x = g
        <3>1. hist[c].log = pass.b.log /\ hist[c].log <= pass.b.log
            BY <1>1, <1>5, <2>1
        <3> QED
            BY <1>13, <2>1, <3>1 DEF Proper
    <2>2. CASE x # g
        BY <1>5, <1>14, <2>2 DEF FormsRight
    <2> QED
        BY <2>1, <2>2
<1> QED
    BY <1>9, <1>10, <1>12, <1>16, <1>17 DEF UpInv

-----------------------------------------------------------------------------
(* A scan through the writer, and the whole.                                  *)

\* A table at rest, read to its end and all of it in the snapshot or filed: what is not
\* overlaid is not in it.
LEMMA BuiltRight ==
    ASSUME TabInv, ~Under, NEW fs \in FormsStates, Filing(fs), fs.seen = Len(log), fs.snap # NoSnap, NEW k \in Keys
    PROVE  Built(fs, k, SeeAll) = [ver |-> Len(log), vals |-> Values(k, tail)]
<1>1. /\ DOMAIN slab = 1..Len(slab) /\ TableType /\ TableInv /\ tail \in Nat /\ tail <= MaxChunk + 1
      /\ slab \in Seq(Keys)
    BY DEF TabInv, TableType, TableInv
<1>2. Values(k, SeeAll) = Values(k, tail)
    <2>1. SeeAll \in Nat /\ SeeAll >= tail
        BY <1>1, Numbers
    <2> QED
        BY <1>1, <2>1, ValuesAll
<1>3. ~Overlaid(fs, k) => Base(k) = Values(k, tail)
    <2> SUFFICES ASSUME ~Overlaid(fs, k) PROVE Base(k) = Values(k, tail)
        OBVIOUS
    <2>1. \A e \in DOMAIN slab : slab[e] # k
        <3> SUFFICES ASSUME NEW e \in DOMAIN slab, slab[e] = k PROVE FALSE
            OBVIOUS
        <3>1. \E l \in 1..fs.seen : log[l] = e
            BY <1>1, RestEntries
        <3> QED
            BY <3>1, OverlaidRead
    <2>2. k \notin Range(slab)
        BY <2>1 DEF Range
    <2>3. chain[k] = <<>>
        BY <1>1, <2>2 DEF TableInv
    <2> QED
        BY <2>3, ValuesNone
<1> QED
    BY <1>2, <1>3 DEF Built

LEMMA UpWriterScan ==
    ASSUME CommInv, BlockInv, UpInv, [Next]_vars, WriterScan
    PROVE  UpInv'
<1>0. /\ wr.pc = "idle" /\ pass.pc = "idle" /\ UNCHANGED <<slab, chain, tail, log, wr, mark, hist, land, pass>>
      /\ ~Under /\ TabInv
    BY WriterScanIs DEF table, commits, Under, CommInv
<1>1. PICK b \in BoundSet : b = NoBound /\ b.log = Unbounded /\ b.len = Unbounded
    BY NoBounds DEF NoBound
<1>2. PICK g \in DOMAIN states : g = Len(states) /\ states[g] \in StateSet /\ g \in 1..MaxGen
    BY PassIn, UpFs, StateIn
<1>3. /\ up \in UpSet /\ up.fs \in FormsStates /\ SeeAll \in Nat /\ up.fs.seen \in Nat /\ Filing(up.fs) /\ up.fs.seen <= Len(log)
      /\ OwnInv /\ AtInv /\ FormsRight
    BY UpFs, FsTypes, NoBounds DEF UpInv, PassInv, Filing
<1>4. /\ Len(log) \in 0..MaxChunk /\ Len(slab) \in 0..MaxChunk /\ Len(log) \in Nat /\ Len(slab) \in Nat
    BY <1>0, Lengths, Numbers DEF TabInv
<1>5. LogEnd(b) = Len(log) /\ MemLen(b) = Len(slab)
    <2>1. b.log = Unbounded /\ b.len = Unbounded
        BY <1>1
    <2>2. ~(Unbounded <= Len(log)) \/ Unbounded = Len(log)
        BY <1>4, Numbers
    <2>3. ~(Unbounded <= Len(slab)) \/ Unbounded = Len(slab)
        BY <1>4, Numbers
    <2> QED
        BY <1>0, <2>1, <2>2, <2>3, Ends DEF TabInv
<1>6. PICK n \in 0..MaxChunk : n = Len(log) /\ n = Max({up.fs.seen, LogEnd(b)}) /\ n \in Nat /\ n >= up.fs.seen /\ n <= Len(log)
    <2>1. Max({up.fs.seen, Len(log)}) = Len(log)
        BY <1>3, <1>4, MaxTwo
    <2> QED
        BY <1>3, <1>4, <1>5, <2>1
<1>7. PICK lost \in Losses(up, g), walked \in SUBSET Keys, sw \in BOOLEAN : Walks(lost, sw, walked)
    BY <1>2, WriterScanIs
<1>31. PICK drop : drop = {}
    OBVIOUS
<1>32. PICK v \in UpSet :
      /\ v = Rebased(up, g, lost) /\ v.fs.seen = up.fs.seen /\ v.fs.snap = up.fs.snap
      /\ v.fs.added = up.fs.added /\ v.fs.gen = g /\ v.gone = up.gone
      /\ \A k \in Keys : v.fs.own[k] = NoForm \/ v.fs.own[k] = up.fs.own[k]
      /\ v.complete => up.complete /\ \A k \in Keys : v.fs.own[k] = up.fs.own[k]
    <2> DEFINE r == Rebased(up, g, lost)
    <2>0. lost # {} => up.fs.gen # g
        BY LossesAre
    <2>1. /\ r \in UpSet /\ r.fs.seen = up.fs.seen /\ r.fs.snap = up.fs.snap
          /\ r.fs.added = up.fs.added /\ r.fs.gen = g /\ r.gone = up.gone
          /\ \A k \in Keys : r.fs.own[k] = IF k \in lost THEN NoForm ELSE up.fs.own[k]
          /\ r.complete = (up.complete /\ lost = {})
        BY <1>2, <1>3, <2>0, RebasedIs
    <2>2. r = Rebased(up, g, lost)
        OBVIOUS
    <2> HIDE DEF r
    <2>3. r.complete => up.complete /\ lost = {}
        BY <2>1, Zenon
    <2>4. \A k \in Keys : r.fs.own[k] = NoForm \/ r.fs.own[k] = up.fs.own[k]
        BY <2>1
    <2>5. r.complete => up.complete /\ \A k \in Keys : r.fs.own[k] = up.fs.own[k]
        BY <2>1, <2>3
    <2> QED
        BY <2>1, <2>2, <2>4, <2>5
<1>8. Filing(v.fs) /\ n >= v.fs.seen /\ n <= Len(log) /\ TabInv /\ SeeAll \in Nat
    BY <1>0, <1>3, <1>6, <1>32 DEF Filing
<1>9. PICK u \in UpSet : /\ u = Filed(v, n, SeeAll, {}) /\ u.fs.seen = n /\ u.fs.snap = up.fs.snap /\ u.fs.gen = g
                         /\ Filing(u.fs) /\ u.gone = up.gone /\ u = WalkedUp(lost)
    <2>1. LET r == Filed(v, n, SeeAll, drop)
          IN  /\ r \in UpSet /\ r.fs.seen = n /\ r.fs.snap = v.fs.snap /\ r.fs.gen = v.fs.gen
              /\ (Filing(v.fs) => Filing(r.fs)) /\ r.gone = v.gone
        BY <1>8, FiledOwn
    <2>2. Filed(v, n, SeeAll, drop) = WalkedUp(lost)
        BY <1>1, <1>2, <1>6, <1>31, <1>32 DEF WalkedUp
    <2> QED
        BY <1>8, <1>31, <1>32, <2>1, <2>2
<1>10. /\ MayRefresh(u.fs, sw) \/ (walked = {} /\ ~sw)
       /\ up' = [fs |-> [WalkedFs(lost, sw) EXCEPT !.own = WalkedOwn(lost, sw, walked)],
                 dirty |-> u.dirty \cup WalkedNeed(lost, sw, walked), complete |-> u.complete,
                 gone |-> u.gone /\ walked = {}, posted |-> {}]
       /\ states' = [states EXCEPT ![g] = WalkedState(lost, sw)]
    BY <1>2, <1>7, <1>9, Zenon DEF Walks
<1>13. PICK w \in FormsStates :
         /\ w = WalkedFs(lost, sw) /\ w.seen = n /\ w.gen = g /\ w.own = u.fs.own /\ Filing(w)
         /\ walked # {} => w.snap # NoSnap
    <2>1. u.fs \in FormsStates
        BY <1>9 DEF UpSet
    <2>2. CASE sw = FALSE
        <3>1. WalkedFs(lost, sw) = u.fs /\ (walked # {} => u.fs.snap # NoSnap)
            BY <1>9, <1>10, <2>2 DEF MayRefresh, WalkedFs
        <3> QED
            BY <1>9, <2>1, <3>1
    <2>3. CASE sw = TRUE
        <3>1. WalkedFs(lost, sw) = Refreshed(u.fs, states[g].snap, Len(slab))
            BY <1>1, <1>2, <1>5, <1>9, <2>3 DEF WalkedFs
        <3>2. \A l \in 1..n : log[l] \in 1..Len(slab)
            BY <1>0, <1>6, RestEntries
        <3>3. Filing(Refreshed(u.fs, states[g].snap, Len(slab)))
            <4>1. Len(slab) <= Len(slab)
                BY <1>4
            <4> QED
                BY <1>9, <2>1, <3>2, <4>1, FilingRefreshed
        <3>4. LET r == Refreshed(u.fs, states[g].snap, Len(slab))
              IN  r \in FormsStates /\ r.seen = n /\ r.gen = g /\ r.own = u.fs.own /\ r.snap = Len(slab)
            BY <1>4, <1>9, <2>1, RefreshedIs, RefreshedType
        <3>5. Len(slab) # NoSnap
            BY <1>4, Numbers
        <3> QED
            BY <3>1, <3>3, <3>4, <3>5
    <2> QED
        BY <2>2, <2>3
<1>12. \A k : k \in WalkedNeed(lost, sw, walked) <=> k \in walked /\ w.own[k] = NoForm
    BY <1>13, Zenon DEF WalkedNeed
<1>14. PICK need : need = WalkedNeed(lost, sw, walked) /\ \A k : k \in need <=> k \in walked /\ w.own[k] = NoForm
    BY <1>12, Zenon
<1>16. PICK fn : fn = WalkedOwn(lost, sw, walked)
    OBVIOUS
<1>15. \A k \in Keys : \/ k \notin need /\ fn[k] = u.fs.own[k]
                       \/ k \in need /\ u.fs.own[k] = NoForm /\ fn[k] = [ver |-> n, vals |-> Values(k, tail)]
    <2>1. \A k \in need : Built(w, k, SeeAll) = [ver |-> n, vals |-> Values(k, tail)]
        <3> SUFFICES ASSUME NEW k \in Keys, k \in walked
                     PROVE  Built(w, k, SeeAll) = [ver |-> n, vals |-> Values(k, tail)]
            BY <1>14
        <3>1. w.snap # NoSnap
            BY <1>13
        <3> QED
            BY <1>0, <1>6, <1>13, <3>1, BuiltRight
    <2>2. \A k \in Keys : fn[k] = IF k \in need THEN Built(w, k, SeeAll) ELSE w.own[k]
        BY <1>13, <1>14, <1>16 DEF WalkedOwn
    <2> QED
        BY <1>13, <1>14, <2>1, <2>2
<1>17. PICK d : d = u.dirty \cup need
    OBVIOUS
<1>18. up' = [fs |-> [w EXCEPT !.own = fn], dirty |-> d, complete |-> u.complete,
              gone |-> u.gone /\ walked = {}, posted |-> {}]
    BY <1>10, <1>13, <1>14, <1>16, <1>17, Zenon
<1>19. PICK F \in FormsStates : F = up'.fs
    <2>1. BlockInv'
        BY <1>0, BlockWriterScan
    <2> QED
        BY <2>1 DEF BlockInv, BlockType, UpSet
<1>20. /\ F.seen = n /\ F.gen = g /\ F.own = fn /\ F.snap = w.snap /\ F.added = w.added
       /\ up'.dirty = d /\ up'.complete = u.complete /\ up'.posted = {} /\ ~up'.gone
    <2>1. ~u.gone
        BY <1>9 DEF UpInv, PassInv
    <2>2. ~up'.gone
        BY <1>18, <2>1
    <2> QED
        BY <1>13, <1>18, <1>19, <2>2 DEF FormsStates
<1>21. PICK s \in StateSet :
          /\ s.forms = states[g].forms /\ s.at = states[g].at /\ s.complete = states[g].complete
          /\ WalkedState(lost, sw) = Marks(s, Orphans(up, g, lost))
    <2> DEFINE o == Offered(u.fs, states[g].snap, Len(slab))
               st == IF sw THEN [states[g] EXCEPT !.snap = o] ELSE states[g]
    <2>1. o \in NoSnap..MaxChunk
        BY <1>2, <1>4, OfferedType DEF StateSet
    <2>2. WalkedState(lost, sw) = Marks(st, Orphans(up, g, lost))
        BY <1>1, <1>2, <1>5, <1>9 DEF WalkedState
    <2> HIDE DEF o
    <2>3. st \in StateSet /\ st.forms = states[g].forms /\ st.at = states[g].at /\ st.complete = states[g].complete
        BY <1>2, <2>1 DEF StateSet
    <2> QED
        BY <2>2, <2>3
<1>23. /\ OnlyMarks
       /\ \A k \in Keys : Stands(g, k)' = IF k \in {} \cup Orphans(up, g, lost) THEN Mark ELSE Stands(g, k)
       /\ \A x \in DOMAIN states : \A k \in Keys : Stands(x, k)' \in {Stands(x, k), Mark}
    <2>1. states' = [states EXCEPT ![g] = Marks(s, Orphans(up, g, lost))]
        BY <1>10, <1>21
    <2>2. s.forms = states[g].forms /\ s.at = states[g].at /\ s.complete = states[g].complete
        BY <1>21
    <2>3. /\ OnlyMarks
          /\ \A k \in Keys : Stands(g, k)' = IF k \in Orphans(up, g, lost) THEN Mark ELSE Stands(g, k)
          /\ \A x \in DOMAIN states : \A k \in Keys : Stands(x, k)' \in {Stands(x, k), Mark}
        BY <2>1, <2>2, MarkedState, Zenon
    <2> QED
        BY <2>3
<1>24. \A k \in Keys \ u.dirty : Clean(u.fs, Stands(g, k)', k)
    <2>1. LET r == Filed(Rebased(up, g, lost), n, SeeAll, {})
          IN  \A k \in Keys \ r.dirty : Clean(r.fs, Stands(g, k)', k)
        BY <1>0, <1>3, <1>6, <1>23, LookStands, Zenon
    <2> QED
        BY <1>32, <1>9, <2>1, Zenon
<1>25. Filing(F)
    <2>1. \A k \in Keys : F.own[k] # NoForm => F.own[k].ver <= n
        <3> TAKE k \in Keys
        <3>1. CASE fn[k] = u.fs.own[k]
            BY <1>9, <1>20, <3>1 DEF Filing
        <3>2. CASE fn[k] = [ver |-> n, vals |-> Values(k, tail)]
            BY <1>6, <1>20, <3>2
        <3> QED
            BY <1>15, <3>1, <3>2
    <2> QED
        BY <1>13, <1>20, <2>1 DEF Filing
<1>26. PassInv'
    <2>1. Filing(up.fs)'
        BY <1>0, <1>19, <1>25 DEF Filing
    <2>2. up'.fs.gen \in 1..Len(states')
        BY <1>2, <1>19, <1>20, <1>23, UpFs DEF OnlyMarks
    <2> QED
        BY <1>0, <1>20, <2>1, <2>2 DEF PassInv, Passing, Looked, Claimed
<1>27. OwnInv'
    <2>1. NowRight(F)
        <3> SUFFICES ASSUME NEW k \in Keys, F.own[k] # NoForm, ~Writing(k) PROVE F.own[k].vals = Values(k, tail)
            BY DEF NowRight
        <3>1. CASE fn[k] = [ver |-> n, vals |-> Values(k, tail)]
            BY <1>20, <3>1
        <3>2. CASE fn[k] = u.fs.own[k]
            <4>0. u.fs.own[k] # NoForm
                BY <1>20, <3>2
            <4>1. ~Between(n, n, k) /\ n <= n /\ n >= v.fs.seen
                BY <1>6, <1>8, BetweenNone
            <4>2. \/ u.fs.own[k].vals = Values(k, SeeAll)
                  \/ /\ v.fs.own[k] # NoForm /\ ~Between(v.fs.seen, n, k)
                     /\ u.fs.own[k].vals = v.fs.own[k].vals
                <5>1. Filed(v, n, SeeAll, drop).fs.own[k] # NoForm
                    BY <1>9, <1>31, <4>0
                <5>2. n \in Nat
                    BY <1>6
                <5>3. \/ Filed(v, n, SeeAll, drop).fs.own[k].vals = Values(k, SeeAll)
                      \/ /\ v.fs.own[k] # NoForm /\ ~Between(v.fs.seen, n, k)
                         /\ Filed(v, n, SeeAll, drop).fs.own[k].vals = v.fs.own[k].vals
                    BY <1>8, <4>1, <5>1, <5>2, LookOwn
                <5> QED
                    BY <1>9, <1>31, <5>3
            <4>3. Values(k, SeeAll) = Values(k, tail)
                <5>1. TableType /\ TableInv /\ tail \in Nat /\ tail <= MaxChunk + 1
                    BY <1>0 DEF TabInv, TableType, TableInv
                <5>2. SeeAll >= tail
                    BY <5>1, Numbers
                <5> QED
                    BY <1>3, <5>1, <5>2, ValuesAll
            <4>4. v.fs.own[k] # NoForm /\ ~Between(v.fs.seen, n, k) => v.fs.own[k].vals = Values(k, tail)
                BY <1>3, <1>6, <1>32 DEF OwnInv, NowRight
            <4> QED
                BY <1>20, <3>2, <4>2, <4>3, <4>4
        <3> QED
            BY <1>15, <3>1, <3>2
    <2>2. u.complete => ReadFormed(F)
        <3>1. v.complete => ReadFormed(v.fs)
            BY <1>3, <1>32 DEF OwnInv, ReadFormed
        <3>2. Droppable(v.fs, n, drop)
            BY <1>31 DEF Droppable
        <3>3. Filed(v, n, SeeAll, drop).complete => ReadFormed(Filed(v, n, SeeAll, drop).fs)
            BY <1>8, <3>1, <3>2, LookFormed
        <3>4. u.complete => ReadFormed(u.fs)
            BY <1>9, <1>31, <3>3
        <3>5. \A k \in Keys : fn[k] = NoForm => u.fs.own[k] = NoForm
            BY <1>15, FormSomething
        <3> QED
            BY <1>9, <1>20, <3>4, <3>5 DEF ReadFormed
    <2> QED
        BY <1>0, <1>19, <1>20, <2>1, <2>2, OwnFrom
<1>29. DirtyInv'
    <2>1. \A k \in Keys \ d : Clean(F, Stands(g, k)', k)
        <3> TAKE k \in Keys \ d
        <3>1. fn[k] = u.fs.own[k] /\ Clean(u.fs, Stands(g, k)', k)
            BY <1>15, <1>17, <1>24
        <3> QED
            BY <1>20, <3>1 DEF Clean
    <2>2. \A k \in Keys : Stands(up.fs.gen, k)' = Stands(g, k)'
        BY <1>19, <1>20 DEF Stands
    <2> QED
        BY <1>19, <1>20, <2>1, <2>2 DEF DirtyInv, Clean
<1>30. AtInv' /\ FormsRight'
    <2>1. /\ \A x \in DOMAIN states' : Reached(x)' /\ states'[x].complete =>
                 \A k \in Keys : Stands(x, k)' = NoForm =>
                    \A c \in DOMAIN hist' : hist'[c].log <= states'[x].at => hist'[c].vals[k] = Base(k)'
          /\ FormsRight'
        BY <1>0, <1>3, <1>23, MarksStand
    <2>2. \A x \in DOMAIN states' : Reached(x)' => states'[x].at <= hist'[mark' + 1].log
        BY <1>0, <1>3, <1>23 DEF AtInv, Reached, OnlyMarks
    <2> QED
        BY <1>0, <1>20, <2>1, <2>2 DEF AtInv, Passing
<1> QED
    BY <1>26, <1>27, <1>29, <1>30 DEF UpInv

\* A handle that offers the state a snapshot leaves its forms alone.
LEMMA SnapForms ==
    ASSUME TabInv, BlockInv, HandInv, NEW h \in Handles, Snap(h)
    PROVE  SameForms /\ UNCHANGED <<up, pass, land, mark, hist, wr>>
<1> DEFINE g == hd[h].g
           o == Offered(hd[h].fs, states[g].snap, MemLen(hd[h].b))
<1>1. UNCHANGED <<up, pass, land, mark, hist, wr>>
    BY DEF Snap, Handles1, commits, table
<1>2. states' = states \/ states' = [states EXCEPT ![g].snap = o]
    BY Zenon DEF Snap
<1> HIDE DEF o
<1>3. DOMAIN states' = DOMAIN states
    BY <1>2
<1>4. \A x \in DOMAIN states : /\ states'[x].forms = states[x].forms /\ states'[x].at = states[x].at
                               /\ states'[x].complete = states[x].complete
    <2>1. \A x \in DOMAIN states : states[x] \in StateSet
        BY UpFs
    <2> QED
        BY <1>2, <2>1 DEF StateSet
<1>5. Len(states') = Len(states)
    <2>1. BlockInv'
        BY BlockSnap
    <2>2. DOMAIN states' = 1..Len(states') /\ Len(states') \in Nat /\ DOMAIN states = 1..Len(states) /\ Len(states) \in Nat
        BY <2>1, UpFs DEF BlockInv, BlockType
    <2>3. Len(states) \in 1..Len(states)
        BY PassIn
    <2>4. Len(states) \in 1..Len(states')
        BY <1>3, <2>2, <2>3
    <2>5. Len(states') \in 1..Len(states')
        BY <2>2, <2>4
    <2>6. Len(states') \in 1..Len(states)
        BY <1>3, <2>2, <2>5
    <2>7. Len(states) <= Len(states') /\ Len(states') <= Len(states)
        BY <2>2, <2>4, <2>6
    <2>8. Len(states) \in Nat /\ Len(states') \in Nat
        BY <2>2
    <2> QED
        BY ONLY <2>7, <2>8
<1> QED
    BY <1>1, <1>3, <1>4, <1>5 DEF SameForms

\* A handle's claim: the upkeep home and every write committed, the writer's blocks are
\* not past the last commit, and right at it.
LEMMA UpClaim ==
    ASSUME CommInv, BlockInv, UpInv, [Next]_vars, Claim
    PROVE  UpInv'
<1>1. /\ wr.pc = "idle" /\ pass.pc = "idle" /\ Len(log) = hist[mark + 1].log
      /\ UNCHANGED <<slab, chain, tail, log, mark, hist, states, land>>
      /\ wr' = [pc |-> "claim", id |-> 0] /\ up' = [up EXCEPT !.posted = {}]
      /\ pass' = [pc |-> "look", g |-> Len(states), short |-> FALSE,
                  b |-> [log |-> hist[mark + 1].log, len |-> hist[mark + 1].len, wm |-> hist[mark + 1].wm]]
    BY DEF Claim, commits
<1>2. PICK c \in DOMAIN hist : c = mark + 1
    BY DEF CommInv, CommitType, HistInv
<1>3. up \in UpSet /\ up.fs \in FormsStates /\ TabInv /\ up.fs.seen \in Nat /\ up.fs.snap \in Int
    BY UpFs, FsTypes DEF CommInv
<1>4. ~Under /\ ~Under' /\ Claimed' /\ \A k : ~Writing(k)
    BY <1>1 DEF Under, Claimed, Writing
<1>5. /\ pass'.pc = "look" /\ pass'.g = Len(states) /\ pass'.short = FALSE
      /\ pass'.b.log = Len(log) /\ pass'.b.len = hist[c].len /\ pass'.b.wm = hist[c].wm
    BY <1>1, <1>2
<1>6. up'.fs = up.fs /\ up'.posted = {} /\ up'.dirty = up.dirty /\ up'.complete = up.complete /\ up'.gone = up.gone
    BY <1>1, <1>3 DEF UpSet
<1>7. Len(slab) = hist[c].len /\ Len(slab) \in Nat /\ Len(log) \in Nat /\ Len(log) = hist[c].log
    <2>1. {log[l] : l \in 1..hist[c].log} = 1..hist[c].len /\ hist[c].len \in Nat
        BY CommitEntries, HistFacts
    <2>2. {log[l] : l \in 1..Len(log)} = 1..Len(slab)
        BY <1>3, <1>4, RestEntries
    <2>3. Len(slab) \in Nat /\ Len(log) \in Nat
        BY <1>3 DEF TabInv, TableType
    <2>4. 1..hist[c].len = 1..Len(slab)
        BY <1>1, <1>2, <2>1, <2>2
    <2>5. \A m, n \in Nat : 1..m = 1..n => m = n
        <3> TAKE m, n \in Nat
        <3> HAVE 1..m = 1..n
        <3>1. n > 0 => n \in 1..m
            OBVIOUS
        <3>2. m > 0 => m \in 1..n
            OBVIOUS
        <3> QED
            BY <3>1, <3>2
    <2> QED
        BY <1>1, <1>2, <2>1, <2>3, <2>4, <2>5
<1>8. PassInv /\ OwnInv /\ DirtyInv /\ AtInv /\ FormsRight /\ Filing(up.fs)
    BY DEF UpInv, PassInv
<1>9. PassInv'
    <2>1. Filing(up.fs)'
        BY <1>1, <1>6, <1>8 DEF Filing
    <2>2. IsCommit(pass.b, mark + 1)' /\ mark' + 1 \in DOMAIN hist'
        BY <1>1, <1>2, <1>5, <1>7 DEF IsCommit
    <2>3. up'.fs.seen <= pass'.b.log /\ up'.fs.snap <= pass'.b.len
        BY <1>5, <1>6, <1>7, <1>8 DEF Filing
    <2> QED
        BY <1>1, <1>5, <1>6, <1>8, <2>1, <2>2, <2>3 DEF PassInv, Passing, Looked
<1>10. OwnInv'
    <2>1. \A d \in DOMAIN hist : hist[d].log = pass'.b.log => RightAt(up.fs, d)
        <3> SUFFICES ASSUME NEW d \in DOMAIN hist, hist[d].log = Len(log) PROVE RightAt(up.fs, d)
            BY <1>5
        <3> SUFFICES ASSUME NEW k \in Keys, up.fs.own[k] # NoForm, ~Between(up.fs.seen, Len(log), k)
                     PROVE  up.fs.own[k].vals = hist[d].vals[k]
            BY DEF RightAt
        <3>1. up.fs.own[k].vals = Values(k, tail)
            BY <1>4, <1>8 DEF OwnInv, NowRight
        <3>2. up.fs.seen <= hist[d].log
            BY <1>8 DEF Filing
        <3>3. hist[d].vals[k] = Values(k, tail)
            BY <1>3, <1>4, <3>2, CommitTail
        <3> QED
            BY <3>1, <3>3
    <2> QED
        BY <1>1, <1>4, <1>6, <1>8, <2>1, OwnFrom DEF OwnInv
<1>11. DirtyInv'
    BY <1>1, <1>6, <1>8 DEF DirtyInv, Clean, Stands
<1>12. AtInv'
    <2>1. \A g \in DOMAIN states : Reached(g) => states[g].at <= pass'.b.log
        BY <1>1, <1>2, <1>5, <1>8 DEF AtInv
    <2> QED
        BY <1>1, <1>4, <1>5, <1>6, <1>8, <2>1 DEF AtInv, Reached, Stands, Base
<1>13. FormsRight'
    BY <1>1, <1>8 DEF FormsRight, Stands, Base
<1> QED
    BY <1>9, <1>10, <1>11, <1>12, <1>13 DEF UpInv

\* Where no block is given up without a mark.
NoGiveUp == "giveup" \notin Allowed

LEMMA UpNext ==
    ASSUME NoGiveUp, WholeInv, UpInv, [Next]_vars
    PROVE  UpInv'
<1>0. CommInv /\ BlockInv /\ HandInv /\ TabInv
    BY DEF WholeInv, CommInv
<1>1. CASE UNCHANGED <<states, up, pass, land, mark, hist>> /\ (Claimed' <=> Claimed)
    <2>1. SameForms
        BY <1>1 DEF SameForms
    <2> QED
        BY <1>0, <1>1, <2>1, UpStands
<1>2. ASSUME NEW h \in Handles, Scan(h) PROVE UpInv'
    <2>1. CASE Snap(h)
        BY <1>0, <2>1, SnapForms, UpStands DEF Claimed
    <2>2. CASE ~Snap(h)
        <3>1. UNCHANGED <<states, Handles1>>
            BY <1>2, <2>2, Zenon DEF Scan, Enter, LoadWord, CheckMark, Look, LoadAt, LoadComplete, Walk, Again, Leave
        <3>2. UNCHANGED <<up, pass, land, mark, hist, wr>>
            BY <3>1 DEF Handles1, commits, table
        <3> QED
            BY <1>1, <3>1, <3>2 DEF Claimed
    <2> QED
        BY <2>1, <2>2
<1>3. CASE Write \/ CommitStore
    <2>1. UNCHANGED <<states, up, pass, land, mark, hist>>
        BY <1>3 DEF Write, CommitStore, Link, Create, PutHead, IndexInsert, LogWrite, commits
    <2>2. ~Claimed /\ ~Claimed'
        <3>1. CASE Write
            <4>1. CASE \E k \in Keys, w \in Kinds : Link(k, w) \/ Create(k, w)
                <5>1. wr.pc = "idle" /\ wr'.pc \in {"log", "head", "index"}
                    BY <4>1 DEF Link, Create
                <5> QED
                    BY <5>1 DEF Claimed
            <4>2. CASE PutHead \/ IndexInsert
                <5>1. wr.pc \in {"head", "index"} /\ \E p \in {"index", "log"} : wr' = [wr EXCEPT !.pc = p]
                    BY <4>2 DEF PutHead, IndexInsert
                <5>2. wr \in [pc : {"idle", "head", "index", "log", "len", "wm", "mark", "claim"}, id : Nat]
                    BY <1>0 DEF TabInv, TableType
                <5> QED
                    BY <5>1, <5>2 DEF Claimed
            <4>3. CASE LogWrite
                BY <4>3 DEF LogWrite, Claimed, Resting
            <4> QED
                BY <3>1, <4>1, <4>2, <4>3 DEF Write
        <3>2. CASE CommitStore
            <4>1. wr.pc \in {"idle", "len", "wm"} /\ wr' = [pc |-> CommitWord(wr.pc)[3], id |-> 0]
                BY <3>2 DEF CommitStore
            <4>2. CommitWord(wr.pc)[3] \in {"len", "wm", "mark"}
                BY <4>1 DEF CommitWord
            <4> QED
                BY <4>1, <4>2 DEF Claimed
        <3> QED
            BY <1>3, <3>1, <3>2
    <2> QED
        BY <1>1, <2>1, <2>2
<1>4. CASE UNCHANGED vars
    BY <1>4, <1>1 DEF vars, commits, table, Claimed
<1>9. CASE Claim
    BY <1>0, <1>9, UpClaim
<1>10. ~GiveUp
    BY DEF GiveUp, NoGiveUp
<1>5. CASE CommitMark
    BY <1>0, <1>5, UpCommitMark
<1>6. CASE PassBegin \/ PassLook \/ PassSnap \/ PassFill
    BY <1>0, <1>6, UpPassBegin, UpPassLook, UpPassSnap, UpPassFill
<1>7. CASE PassPublish \/ PassComplete \/ PassAt
    BY <1>0, <1>7, UpPassPublish, UpPassComplete, UpPassAt
<1>8. CASE WriterScan \/ LandCarry \/ LandPublish
    BY <1>0, <1>8, UpWriterScan, UpLandCarry, UpLandPublish
<1> QED
    BY <1>2, <1>3, <1>4, <1>5, <1>6, <1>7, <1>8, <1>9, <1>10 DEF Next

LEMMA UpInit ==
    ASSUME Init
    PROVE  UpInv
<1>0. WholeInv
    BY WholeInit
<1>1. /\ states = <<Blank>> /\ pass = Idle /\ land = <<>> /\ log = <<>> /\ slab = <<>> /\ mark = 0
      /\ up = [fs |-> Fresh(1), dirty |-> {}, complete |-> FALSE, gone |-> FALSE, posted |-> {}]
      /\ wr = Resting
    BY DEF Init
<1>2. Len(states) = 1 /\ DOMAIN states = {1} /\ states[1] = Blank /\ DOMAIN land = {} /\ Len(log) = 0 /\ Len(slab) = 0
    BY <1>1
<1>3. up.fs = Fresh(1) /\ up.posted = {} /\ up.complete = FALSE /\ ~up.gone /\ pass.pc = "idle" /\ ~Claimed
    BY <1>1, IdleIn DEF Claimed, Resting
<1>4. /\ up.fs.gen = 1 /\ up.fs.seen = 0 /\ up.fs.snap = NoSnap /\ \A k \in Keys : up.fs.own[k] = NoForm
    BY <1>3 DEF Fresh
<1>5. Blank.at = Unbounded /\ \A k \in Keys : Blank.forms[k] = NoForm
    BY DEF Blank
<1>6. \A g \in DOMAIN states : \A k \in Keys : Stands(g, k) = NoForm /\ ~Reached(g) /\ states[g].at = Unbounded
    BY <1>2, <1>5 DEF Stands, Reached
<1>7. PassInv
    <2>1. Filing(up.fs)
        BY <1>2, <1>4, Numbers DEF Filing
    <2> QED
        BY <1>2, <1>3, <1>4, <2>1 DEF PassInv, Passing, Looked
<1>8. OwnInv
    BY <1>3, <1>4 DEF OwnInv, NowRight, Passing
<1>10. DirtyInv
    BY <1>2, <1>4, <1>6 DEF DirtyInv, Clean
<1>11. AtInv
    BY <1>2, <1>3, <1>5 DEF AtInv, Reached
<1>12. FormsRight
    <2>1. \A c \in DOMAIN hist : hist[c].log \in 0..MaxChunk
        BY <1>0, HistFacts DEF WholeInv
    <2>2. \A c \in DOMAIN hist : hist[c].log # Unbounded
        BY <2>1, Numbers
    <2> QED
        BY <1>2, <1>5, <2>2 DEF FormsRight
<1> QED
    BY <1>7, <1>8, <1>10, <1>11, <1>12 DEF UpInv

LEMMA UpAlways ==
    ASSUME NoGiveUp
    PROVE  Spec => []UpInv
<1>1. WholeInv /\ UpInv /\ [Next]_vars => UpInv'
    BY UpNext
<1> QED
    BY <1>1, UpInit, WholeAlways, PTL DEF Spec

\* The forms of a state hold the position it names: a form not published past it has
\* the values of the commit there, and where the state is complete a block without a
\* form is the partition's own (publish_dirty, complete_forms, rebase_tables,
\* carry_published, publish_for_handle), for any number of keys, chunks, commits and
\* states, where no block is given up without a mark.
THEOREM FormsHold ==
    ASSUME NoGiveUp
    PROVE  Spec => []FormsRight
<1>1. UpInv => FormsRight
    BY DEF UpInv
<1> QED
    BY <1>1, UpAlways, PTL

-----------------------------------------------------------------------------
(* What a step does to the forms of a state a handle may be walking: the      *)
(* position only moves on, a slot is not emptied, and a form put into one is  *)
(* stamped at the position or past it, and is of the commit of its stamp.     *)
Onward ==
    \A g \in DOMAIN states :
        /\ g \in DOMAIN states'
        /\ Reached(g) => states'[g].at # Unbounded /\ states[g].at <= states'[g].at
        /\ \A k \in Keys :
              /\ Stands(g, k)' = NoForm => Stands(g, k) = NoForm
              /\ \/ Stands(g, k)' = Stands(g, k) \/ ~Proper(Stands(g, k)')
                 \/ Reached(g) =>
                       /\ Stands(g, k)'.at >= states[g].at
                       /\ \A c \in DOMAIN hist : hist[c].log = Stands(g, k)'.at =>
                                                    Stands(g, k)'.vals = hist[c].vals[k]

LEMMA OnwardMarks ==
    ASSUME BlockInv, OnlyMarks
    PROVE  Onward
<1>1. \A g \in DOMAIN states : states[g].at \in Nat
    BY UpFs
<1>2. \A g \in DOMAIN states : \A k \in Keys : Stands(g, k)' = Stands(g, k) \/ Stands(g, k)' = Mark
    BY DEF OnlyMarks, Stands
<1>3. \A g \in DOMAIN states : g \in DOMAIN states' /\ states'[g].at = states[g].at
    BY DEF OnlyMarks
<1>4. \A g \in DOMAIN states : \A k \in Keys :
         /\ Stands(g, k)' = NoForm => Stands(g, k) = NoForm
         /\ Stands(g, k)' = Stands(g, k) \/ ~Proper(Stands(g, k)')
    BY <1>2, MarkNotForm
<1>5. \A g \in DOMAIN states : Reached(g) => states'[g].at # Unbounded /\ states[g].at <= states'[g].at
    BY <1>1, <1>3 DEF Reached
<1> QED
    BY <1>3, <1>4, <1>5, Zenon DEF Onward

LEMMA OnwardSame ==
    ASSUME BlockInv, SameForms
    PROVE  Onward
<1>1. OnlyMarks
    BY DEF SameForms, OnlyMarks
<1> QED
    BY <1>1, OnwardMarks

LEMMA OnwardLook ==
    ASSUME BlockInv, PassLook
    PROVE  Onward
<1>1. PICK g \in DOMAIN states : g = pass.g /\ states[g] \in StateSet
    BY PassIn, UpFs DEF PassLook
<1>2. PICK lost, n, drop : Looks(lost, n, drop)
    BY LookIs, Zenon
<1>3. PICK ks : states' = [states EXCEPT ![g] = Marks(states[g], ks)]
    BY <1>1, <1>2, Zenon DEF Looks
<1>4. OnlyMarks
    BY <1>1, <1>3, MarkedState
<1> QED
    BY <1>4, OnwardMarks

LEMMA OnwardSnap ==
    ASSUME TabInv, BlockInv, PassSnap
    PROVE  Onward
<1>1. PICK g \in DOMAIN states : g = pass.g /\ states[g] \in StateSet
    BY PassIn, UpFs DEF PassSnap
<1>2. \E o : states' = states \/ states' = [states EXCEPT ![g].snap = o]
    BY <1>1, Zenon DEF PassSnap
<1>3. PICK o : states' = states \/ states' = [states EXCEPT ![g].snap = o]
    BY <1>2
<1>4. DOMAIN states' = DOMAIN states
    BY <1>3
<1>5. \A x \in DOMAIN states : states'[x].forms = states[x].forms /\ states'[x].at = states[x].at
    <2>1. \A x \in DOMAIN states : states[x] \in StateSet
        BY UpFs
    <2> QED
        BY <1>3, <2>1 DEF StateSet
<1>6. \A x \in DOMAIN states : states[x].at \in Nat
    BY UpFs
<1>7. \A x \in DOMAIN states : \A k \in Keys : Stands(x, k)' = Stands(x, k)
    BY <1>5 DEF Stands
<1>8. \A x \in DOMAIN states : Reached(x) => states'[x].at # Unbounded /\ states[x].at <= states'[x].at
    BY <1>5, <1>6 DEF Reached
<1> QED
    BY <1>4, <1>7, <1>8, Zenon DEF Onward

LEMMA OnwardWriter ==
    ASSUME TabInv, BlockInv, WriterScan
    PROVE  Onward
<1>1. PICK g \in DOMAIN states : g = Len(states) /\ states[g] \in StateSet
    BY PassIn, UpFs
<1>2. PICK lost \in Losses(up, Len(states)), walked \in SUBSET Keys, sw \in BOOLEAN : Walks(lost, sw, walked)
    BY WriterScanIs
<1>3. NoBound \in BoundSet /\ MemLen(NoBound) \in 0..MaxChunk
    <2>1. NoBound \in BoundSet
        BY NoBounds DEF NoBound
    <2> QED
        BY <2>1, Ends, Lengths, Numbers DEF TabInv
<1>4. states' = [states EXCEPT ![g] = WalkedState(lost, sw)]
    BY <1>1, <1>2, Zenon DEF Walks
<1>5. PICK o : o = Offered(WalkedUp(lost).fs, states[g].snap, MemLen(NoBound))
    OBVIOUS
<1>6. o \in NoSnap..MaxChunk
    BY <1>1, <1>3, <1>5, OfferedType DEF StateSet
<1>8. PICK s : s = IF sw THEN [states[g] EXCEPT !.snap = o] ELSE states[g]
    OBVIOUS
<1>9. s \in StateSet /\ s.forms = states[g].forms /\ s.at = states[g].at /\ s.complete = states[g].complete
    BY <1>1, <1>6, <1>8 DEF StateSet
<1>10. PICK ks : ks = Orphans(up, g, lost)
    OBVIOUS
<1>11. states' = [states EXCEPT ![g] = Marks(s, ks)]
    BY <1>1, <1>4, <1>5, <1>8, <1>10, Zenon DEF WalkedState
<1>12. OnlyMarks
    BY <1>1, <1>9, <1>11, MarkedState
<1> QED
    BY <1>12, OnwardMarks

LEMMA OnwardPublish ==
    ASSUME CommInv, BlockInv, UpInv, PassPublish
    PROVE  Onward
<1>0. pass.pc = "publish" /\ up.dirty # {}
    BY DEF PassPublish
<1>1. PICK g \in DOMAIN states : g = pass.g /\ states[g] \in StateSet
    BY <1>0, PassIn, UpFs
<1>2. PICK k \in Keys : k = Min(up.dirty)
    <2>1. Keys \subseteq Nat /\ up.dirty \subseteq Keys
        BY Numbers, PassIn DEF Keys, UpSet
    <2> QED
        BY <1>0, <2>1, MinIn
<1>3. PICK f : f = IF up.fs.own[k] = NoForm THEN Mark
                   ELSE [at |-> pass.b.log, ver |-> up.fs.own[k].ver, vals |-> up.fs.own[k].vals]
    OBVIOUS
<1>4. states' = [states EXCEPT ![g].forms[k] = f]
    BY <1>1, <1>2, <1>3, Zenon DEF PassPublish
<1>5. \A x \in DOMAIN states : states[x] \in StateSet /\ states[x].at \in Nat
    BY UpFs
<1>6. DOMAIN states' = DOMAIN states /\ \A x \in DOMAIN states : x # g => states'[x] = states[x]
    BY <1>4
<1>7. states'[g].at = states[g].at /\ \A j \in Keys : states'[g].forms[j] = IF j = k THEN f ELSE states[g].forms[j]
    <2>1. states'[g] = [states[g] EXCEPT !.forms[k] = f]
        BY <1>1, <1>4
    <2> QED
        BY <1>1, <2>1 DEF StateSet
<1>8. \A x \in DOMAIN states : \A j \in Keys : Stands(x, j)' = Stands(x, j) \/ (x = g /\ j = k /\ Stands(x, j)' = f)
    BY <1>6, <1>7 DEF Stands
<1>9. /\ f # NoForm
      /\ \/ ~Proper(f)
         \/ f.at = pass.b.log /\ up.fs.own[k] # NoForm /\ f.vals = up.fs.own[k].vals
    <2>1. CASE up.fs.own[k] = NoForm
        BY <1>3, <2>1, MarkNotForm DEF Proper
    <2>2. CASE up.fs.own[k] # NoForm
        <3>1. f = [at |-> pass.b.log, ver |-> up.fs.own[k].ver, vals |-> up.fs.own[k].vals]
            BY <1>3, <2>2
        <3>2. f.at = pass.b.log /\ f.vals = up.fs.own[k].vals /\ DOMAIN f # {} /\ DOMAIN NoForm = {}
            BY <3>1 DEF NoForm
        <3> QED
            BY <2>2, <3>2
    <2> QED
        BY <2>1, <2>2
<1>14. pass.b.log \in Nat /\ up.fs.seen = pass.b.log
    BY <1>0, PassIn DEF UpInv, PassInv, Looked
<1>10. \A c \in DOMAIN hist : hist[c].log = pass.b.log /\ up.fs.own[k] # NoForm => up.fs.own[k].vals = hist[c].vals[k]
    <2> SUFFICES ASSUME NEW c \in DOMAIN hist, hist[c].log = pass.b.log, up.fs.own[k] # NoForm
                 PROVE  up.fs.own[k].vals = hist[c].vals[k]
        OBVIOUS
    <2>1. RightAt(up.fs, c)
        BY <1>0 DEF UpInv, OwnInv, Passing
    <2>2. ~Between(up.fs.seen, hist[c].log, k)
        BY <1>14, BetweenNone
    <2> QED
        BY <2>1, <2>2 DEF RightAt
<1>11. Reached(g) => pass.b.log >= states[g].at
    <2>1. Reached(g) => states[g].at <= pass.b.log
        BY <1>0, <1>1, <1>5, <1>14 DEF UpInv, AtInv, Passing
    <2> QED
        BY <1>1, <1>5, <1>14, <2>1
<1>12. \A x \in DOMAIN states : Reached(x) => states'[x].at # Unbounded /\ states[x].at <= states'[x].at
    BY <1>5, <1>6, <1>7 DEF Reached
<1>13. \A x \in DOMAIN states : \A j \in Keys :
          /\ Stands(x, j)' = NoForm => Stands(x, j) = NoForm
          /\ \/ Stands(x, j)' = Stands(x, j) \/ ~Proper(Stands(x, j)')
             \/ Reached(x) => /\ Stands(x, j)'.at >= states[x].at
                              /\ \A c \in DOMAIN hist : hist[c].log = Stands(x, j)'.at =>
                                                           Stands(x, j)'.vals = hist[c].vals[j]
    <2> TAKE x \in DOMAIN states
    <2> TAKE j \in Keys
    <2>1. CASE Stands(x, j)' = Stands(x, j)
        BY <2>1
    <2>2. CASE x = g /\ j = k /\ Stands(x, j)' = f
        BY <2>2, <1>9, <1>10, <1>11
    <2> QED
        BY <1>8, <2>1, <2>2
<1> QED
    BY <1>6, <1>12, <1>13, Zenon DEF Onward

LEMMA OnwardTell ==
    ASSUME CommInv, BlockInv, UpInv, PassComplete \/ PassAt
    PROVE  Onward
<1>0. pass.pc \in {"publish", "at"}
    BY DEF PassComplete, PassAt
<1>1. PICK g \in DOMAIN states : g = pass.g /\ states[g] \in StateSet
    BY <1>0, PassIn, UpFs
<1>2. states' = [states EXCEPT ![g]["complete"] = up.complete] \/ states' = [states EXCEPT ![g]["at"] = pass.b.log]
    <2>1. CASE PassComplete
        BY <1>1, <2>1 DEF PassComplete, PassOrder, Told
    <2>2. CASE PassAt
        BY <1>1, <2>2 DEF PassAt, PassOrder, Told
    <2> QED
        BY <2>1, <2>2
<1>3. \A x \in DOMAIN states : states[x] \in StateSet /\ states[x].at \in Nat
    BY UpFs
<1>4. DOMAIN states' = DOMAIN states /\ \A x \in DOMAIN states : x # g => states'[x] = states[x]
    BY <1>2
<1>5. states'[g].forms = states[g].forms /\ states'[g].at \in {states[g].at, pass.b.log}
    <2>1. CASE states' = [states EXCEPT ![g]["complete"] = up.complete]
        <3>1. states'[g] = [states[g] EXCEPT !["complete"] = up.complete]
            BY <2>1
        <3> QED
            BY <1>1, <3>1 DEF StateSet
    <2>2. CASE states' = [states EXCEPT ![g]["at"] = pass.b.log]
        <3>1. states'[g] = [states[g] EXCEPT !["at"] = pass.b.log]
            BY <2>2
        <3> QED
            BY <1>1, <3>1 DEF StateSet
    <2> QED
        BY <1>2, <2>1, <2>2
<1>6. \A x \in DOMAIN states : \A j \in Keys : Stands(x, j)' = Stands(x, j)
    BY <1>4, <1>5 DEF Stands
<1>7. Reached(g) => states[g].at <= pass.b.log
    <2>1. states[g].at \in Nat /\ pass.b.log \in Nat
        BY <1>1, <1>3, PassIn
    <2> QED
        BY <1>0, <1>1, <2>1 DEF UpInv, AtInv, Passing
<1>8. pass.b.log \in Nat /\ states[g].at \in Nat /\ pass.b.log # Unbounded
    BY <1>1, <1>3, PassIn, Numbers
<1>9. Reached(g) => states'[g].at # Unbounded /\ states[g].at <= states'[g].at
    BY <1>5, <1>7, <1>8 DEF Reached
<1>10. \A x \in DOMAIN states : Reached(x) => states'[x].at # Unbounded /\ states[x].at <= states'[x].at
    BY <1>3, <1>4, <1>9 DEF Reached
<1> QED
    BY <1>4, <1>6, <1>10, Zenon DEF Onward

LEMMA OnwardLand ==
    ASSUME BlockInv, LandPublish
    PROVE  Onward
<1>1. \E s : states' = Append(states, s)
    BY Zenon DEF LandPublish
<1>2. PICK s : states' = Append(states, s)
    BY <1>1
<1>3. states \in Seq(StateSet) /\ \A x \in DOMAIN states : states[x].at \in Nat
    BY UpFs
<1>4. \A x \in DOMAIN states : x \in DOMAIN states' /\ states'[x] = states[x]
    BY <1>2, <1>3
<1>5. \A x \in DOMAIN states : \A j \in Keys : Stands(x, j)' = Stands(x, j)
    BY <1>4 DEF Stands
<1>6. \A x \in DOMAIN states : Reached(x) => states'[x].at # Unbounded /\ states[x].at <= states'[x].at
    BY <1>3, <1>4 DEF Reached
<1> QED
    BY <1>4, <1>5, <1>6, Zenon DEF Onward

LEMMA OnwardNext ==
    ASSUME NoGiveUp, WholeInv, UpInv, [Next]_vars
    PROVE  Onward
<1>0. CommInv /\ BlockInv /\ HandInv /\ TabInv
    BY DEF WholeInv, CommInv
<1>1. CASE UNCHANGED states
    <2>1. SameForms
        BY <1>1 DEF SameForms
    <2> QED
        BY <1>0, <2>1, OnwardSame
<1>2. ASSUME NEW h \in Handles, Scan(h) PROVE Onward
    <2>1. CASE Snap(h)
        BY <1>0, <2>1, SnapForms, OnwardSame
    <2>2. CASE ~Snap(h)
        <3>1. UNCHANGED states
            BY <1>2, <2>2, Zenon DEF Scan, Enter, LoadWord, CheckMark, Look, LoadAt, LoadComplete, Walk, Again, Leave
        <3> QED
            BY <1>1, <3>1
    <2> QED
        BY <2>1, <2>2
<1>3. CASE Write \/ CommitStore \/ CommitMark \/ PassBegin \/ PassFill \/ Claim \/ LandCarry
    BY <1>3, <1>1 DEF Write, CommitStore, Link, Create, PutHead, IndexInsert, LogWrite, CommitMark, PassBegin, PassFill,
       Claim, LandCarry
<1>4. CASE UNCHANGED vars
    BY <1>4, <1>1 DEF vars
<1>5. CASE PassLook \/ PassSnap \/ WriterScan \/ LandPublish
    BY <1>0, <1>5, OnwardLook, OnwardSnap, OnwardWriter, OnwardLand
<1>6. CASE PassPublish \/ PassComplete \/ PassAt
    BY <1>0, <1>6, OnwardPublish, OnwardTell
<1>7. ~GiveUp
    BY DEF GiveUp, NoGiveUp
<1> QED
    BY <1>2, <1>3, <1>4, <1>5, <1>6, <1>7 DEF Next

-----------------------------------------------------------------------------
(* A handle, as a record: what its blocks are of, what the published forms it *)
(* may walk are of, and what it has given.                                    *)

At(fs, c) ==
    /\ fs.seen = hist[c].log /\ fs.snap <= hist[c].len
    /\ \A k \in Keys : fs.own[k] # NoForm => fs.own[k].vals = hist[c].vals[k]

\* A handle's blocks are at a commit no later than its own, and at its own once it
\* has read the log.
BlocksAre(r) ==
    /\ Filing(r.fs) /\ r.iso # "dirty"
    /\ \E c \in DOMAIN hist :
          /\ At(r.fs, c)
          /\ r.pc # "out" => c <= r.n + 1
          /\ r.pc \in {"snap", "at", "complete", "walk"} => c = r.n + 1
    /\ r.pc \in {"at", "complete", "walk"} => r.fs.snap # NoSnap

\* What a handle that found the position its own may walk is of its commit, though
\* the upkeep goes on in the same state.
MayWalk(r) ==
    /\ r.pc \in {"complete", "walk"} /\ r.canon =>
          /\ Reached(r.g) /\ r.b.log <= states[r.g].at /\ r.b.log = hist[r.n + 1].log
          /\ \A k \in Keys : Proper(Stands(r.g, k)) /\ Stands(r.g, k).at <= r.b.log =>
                                Stands(r.g, k).vals = hist[r.n + 1].vals[k]
    /\ r.pc = "walk" /\ r.whole =>
          \A k \in Keys : Stands(r.g, k) = NoForm => hist[r.n + 1].vals[k] = Base(k)

Given(r) == \A k \in DOMAIN r.out : r.out[k] = hist[r.n + 1].vals[k]

HandleOk(r) == BlocksAre(r) /\ MayWalk(r) /\ Given(r)

LEMMA HistKept ==
    ASSUME CommInv, [Next]_vars
    PROVE  \A c \in DOMAIN hist : c \in DOMAIN hist' /\ hist'[c] = hist[c]
<1>1. CASE CommitMark
    <2>1. DOMAIN hist = 1..(mark + 1) /\ DOMAIN hist' = 1..(mark + 2) /\ mark \in Nat
        BY <1>1, CommitAdds
    <2>2. \A c \in DOMAIN hist : hist'[c] = hist[c]
        BY <1>1, CommitAdds
    <2> QED
        BY <2>1, <2>2
<1>2. CASE hist' = hist
    BY <1>2
<1>3. CommitMark \/ hist' = hist
    BY WriterSteps DEF Link, Create, PutHead, IndexInsert, LogWrite, CommitStore, Turns, commits
<1> QED
    BY <1>1, <1>2, <1>3

LEMMA HandleStays ==
    ASSUME NoGiveUp, WholeInv, UpInv, [Next]_vars, NEW r \in HandleSet, r.n <= mark,
           r.pc # "out" => r.g \in DOMAIN states, HandleOk(r)
    PROVE  HandleOk(r)'
<1>0. CommInv /\ BlockInv /\ TabInv /\ r.fs \in FormsStates /\ r.n \in Nat /\ mark \in Nat /\ r.b.log \in Nat
    <2>1. r.b.log \in Nat
        BY Numbers DEF HandleSet, BoundSet
    <2>2. r.fs \in FormsStates /\ r.n \in Nat
        BY DEF HandleSet
    <2> QED
        BY <2>1, <2>2 DEF WholeInv, CommInv, CommitType
<1>1. \A c \in DOMAIN hist : c \in DOMAIN hist' /\ hist'[c] = hist[c]
    BY <1>0, HistKept
<1>2. r.n + 1 \in DOMAIN hist
    <2>1. DOMAIN hist = 1..(mark + 1)
        BY <1>0, CommitLine, HistFacts DEF CommInv, HistInv, CommitType
    <2> QED
        BY <1>0, <2>1
<1>3. hist'[r.n + 1] = hist[r.n + 1]
    BY <1>1, <1>2
<1>4. Onward
    BY OnwardNext
<1>5. BlocksAre(r)'
    <2>1. Filing(r.fs)'
        BY <1>0, FilingStays DEF HandleOk, BlocksAre
    <2>2. PICK c \in DOMAIN hist :
              /\ At(r.fs, c)
              /\ r.pc # "out" => c <= r.n + 1
              /\ r.pc \in {"snap", "at", "complete", "walk"} => c = r.n + 1
        BY DEF HandleOk, BlocksAre
    <2>3. At(r.fs, c)'
        BY <1>1, <2>2 DEF At
    <2> QED
        BY <1>1, <2>1, <2>2, <2>3 DEF HandleOk, BlocksAre
<1>6. MayWalk(r)'
    <2>1. ASSUME r.pc \in {"complete", "walk"}, r.canon
          PROVE  /\ Reached(r.g)' /\ r.b.log <= states'[r.g].at /\ r.b.log = hist[r.n + 1].log
                 /\ \A k \in Keys : Proper(Stands(r.g, k)') /\ Stands(r.g, k)'.at <= r.b.log =>
                                Stands(r.g, k)'.vals = hist[r.n + 1].vals[k]
        <3>1. /\ Reached(r.g) /\ r.b.log <= states[r.g].at /\ r.g \in DOMAIN states
              /\ r.b.log = hist[r.n + 1].log
              /\ \A k \in Keys : Proper(Stands(r.g, k)) /\ Stands(r.g, k).at <= r.b.log =>
                                Stands(r.g, k).vals = hist[r.n + 1].vals[k]
            BY <2>1 DEF HandleOk, MayWalk
        <3>2. BlockInv'
            BY WholeNext DEF WholeInv
        <3>3. r.g \in DOMAIN states' /\ states'[r.g].at # Unbounded /\ states[r.g].at <= states'[r.g].at
            BY <1>4, <3>1 DEF Onward
        <3>4. states[r.g].at \in Nat /\ states'[r.g].at \in Nat
            <4>1. states'[r.g] \in StateSet
                BY <3>2, <3>3 DEF BlockInv, BlockType
            <4>2. states'[r.g].at \in Nat
                BY <4>1, Numbers DEF StateSet
            <4> QED
                BY <1>0, <3>1, <4>2, UpFs
        <3>5. Reached(r.g)' /\ r.b.log <= states'[r.g].at
            BY <1>0, <3>1, <3>3, <3>4 DEF Reached
        <3>6. ASSUME NEW k \in Keys, Proper(Stands(r.g, k)'), Stands(r.g, k)'.at <= r.b.log
              PROVE  Stands(r.g, k)'.vals = hist[r.n + 1].vals[k]
            <4>1. \/ Stands(r.g, k)' = Stands(r.g, k)
                  \/ /\ Stands(r.g, k)'.at >= states[r.g].at
                     /\ \A c \in DOMAIN hist : hist[c].log = Stands(r.g, k)'.at => Stands(r.g, k)'.vals = hist[c].vals[k]
                BY <1>4, <3>1, <3>6 DEF Onward
            <4>2. CASE Stands(r.g, k)' = Stands(r.g, k)
                BY <4>2, <3>1, <3>6
            <4>3. CASE /\ Stands(r.g, k)'.at >= states[r.g].at
                       /\ \A c \in DOMAIN hist : hist[c].log = Stands(r.g, k)'.at => Stands(r.g, k)'.vals = hist[c].vals[k]
                <5>1. Stands(r.g, k)'.at \in Nat
                    <6>1. states'[r.g] \in StateSet
                        BY <3>2, <3>3, UpFs DEF BlockInv, BlockType
                    <6>2. Stands(r.g, k)' \in Published
                        BY <6>1, <3>6 DEF StateSet, Stands, Proper
                    <6> QED
                        BY <6>2, Numbers DEF Published
                <5>2. Stands(r.g, k)'.at = r.b.log
                    BY <4>3, <5>1, <3>4, <3>1, <3>6, <1>0
                <5> QED
                    BY <1>2, <3>1, <4>3, <5>2
            <4> QED
                BY <4>1, <4>2, <4>3
        <3> QED
            BY <3>1, <3>5, <3>6
    <2>2. ASSUME r.pc = "walk", r.whole
          PROVE  \A k \in Keys : Stands(r.g, k)' = NoForm => hist[r.n + 1].vals[k] = Base(k)
        <3>1. r.g \in DOMAIN states /\ \A k \in Keys : Stands(r.g, k) = NoForm => hist[r.n + 1].vals[k] = Base(k)
            BY <2>2 DEF HandleOk, MayWalk
        <3>2. \A k \in Keys : Stands(r.g, k)' = NoForm => Stands(r.g, k) = NoForm
            BY <1>4, <3>1 DEF Onward
        <3> QED
            BY <3>1, <3>2
    <2>3. \A k : Base(k)' = Base(k)
        BY DEF Base
    <2> QED
        BY <1>3, <2>1, <2>2, <2>3 DEF MayWalk
<1>7. Given(r)'
    BY <1>3 DEF HandleOk, Given
<1> QED
    BY <1>5, <1>6, <1>7 DEF HandleOk

\* The invariant: every handle's record is right.  (It speaks of a record equal to
\* hd[h] so that the record stands still while the rest of the state moves.)
HandsInv == \A h \in Handles : \A r \in HandleSet : hd[h] = r => HandleOk(r)

LEMMA HandleNow ==
    ASSUME WholeInv, HandsInv, NEW h \in Handles
    PROVE  /\ hd \in [Handles -> HandleSet] /\ hd[h] \in HandleSet /\ HandleOk(hd[h]) /\ hd[h].fs \in FormsStates
           /\ hd[h].n \in Nat /\ mark \in Nat /\ hd[h].n <= mark /\ hd[h].n + 1 \in DOMAIN hist
           /\ hd[h].b \in BoundSet /\ hd[h].b.log \in Nat
           /\ hd[h].pc # "out" => hd[h].g \in DOMAIN states
           /\ hd[h].pc \in Past => IsCommit(hd[h].b, hd[h].n + 1)
           /\ hd[h].pc # "walk" => hd[h].out = <<>>
           /\ CommInv /\ BlockInv /\ TabInv
<1>0. CommInv /\ BlockInv /\ TabInv /\ HandInv /\ LoadInv
    BY DEF WholeInv, CommInv
<1>1. hd \in [Handles -> HandleSet] /\ hd[h] \in HandleSet
    BY <1>0 DEF HandInv, HandleType
<1>2. hd[h].n \in Nat /\ mark \in Nat /\ hd[h].n <= mark /\ hd[h].fs \in FormsStates
    BY <1>0, <1>1 DEF HandleSet, CommInv, CommitType, LoadInv
<1>3. hd[h].n + 1 \in DOMAIN hist
    <2>1. DOMAIN hist = 1..(mark + 1)
        BY <1>0 DEF CommInv, HistInv, CommitType
    <2> QED
        BY <1>2, <2>1
<1>4. HandleOk(hd[h])
    BY <1>1 DEF HandsInv
<1>5. hd[h].pc # "out" => hd[h].g \in DOMAIN states
    BY <1>0, HandleIn, UpFs
<1>6. hd[h].pc \in Past => IsCommit(hd[h].b, hd[h].n + 1)
    <2>1. hd[h].iso # "dirty"
        BY <1>4 DEF HandleOk, BlocksAre
    <2>2. hd[h].pc \in Past => \A w \in Words : hd[h].b[w] = hist[hd[h].n + 1][w]
        BY <1>0, <2>1 DEF LoadInv, Bounded, Past
    <2> QED
        BY <2>2 DEF Words, IsCommit
<1>7. hd[h].pc # "walk" => hd[h].out = <<>>
    BY <1>0 DEF HandInv, HandlePoint
<1>8. hd[h].b \in BoundSet /\ hd[h].b.log \in Nat
    BY <1>0, HandleIn
<1> QED
    BY <1>0, <1>1, <1>2, <1>3, <1>4, <1>5, <1>6, <1>7, <1>8

LEMMA HandsStay ==
    ASSUME NoGiveUp, WholeInv, UpInv, HandsInv, [Next]_vars, hd' = hd
    PROVE  HandsInv'
<1> SUFFICES ASSUME NEW x \in Handles, NEW q \in HandleSet, hd[x] = q
             PROVE  HandleOk(q)'
    BY DEF HandsInv
<1>1. q.n <= mark /\ (q.pc # "out" => q.g \in DOMAIN states) /\ HandleOk(q)
    BY HandleNow
<1> QED
    BY <1>1, HandleStays

LEMMA HandsPut ==
    ASSUME NoGiveUp, WholeInv, UpInv, HandsInv, [Next]_vars, NEW h \in Handles, NEW r \in HandleSet, hd' = [hd EXCEPT ![h] = r],
           r.n <= mark, r.pc # "out" => r.g \in DOMAIN states, HandleOk(r)
    PROVE  HandsInv'
<1> SUFFICES ASSUME NEW x \in Handles, NEW q \in HandleSet, hd'[x] = q
             PROVE  HandleOk(q)'
    BY DEF HandsInv
<1>1. CASE x = h
    <2>1. q = r
        BY <1>1, HandleNow
    <2> QED
        BY <2>1, HandleStays
<1>2. CASE x # h
    <2>1. q = hd[x]
        BY <1>2, HandleNow
    <2>2. q.n <= mark /\ (q.pc # "out" => q.g \in DOMAIN states) /\ HandleOk(q)
        BY <2>1, HandleNow
    <2> QED
        BY <2>2, HandleStays
<1> QED
    BY <1>1, <1>2

\* Before it reads the log a handle has given nothing, and its blocks are of an
\* older commit or of its own.
LEMMA EarlyOk ==
    ASSUME WholeInv, HandsInv, NEW h \in Handles, NEW r \in HandleSet, r.fs = hd[h].fs, r.iso # "dirty", r.out = <<>>,
           r.pc \in {"out", "log", "len", "wm", "check", "look"},
           r.pc # "out" => r.n = mark \/ (hd[h].pc # "out" /\ r.n = hd[h].n)
    PROVE  HandleOk(r)
<1>1. HandleOk(hd[h]) /\ CommInv
    BY HandleNow
<1>2. PICK c \in DOMAIN hist : At(hd[h].fs, c) /\ (hd[h].pc # "out" => c <= hd[h].n + 1)
    BY <1>1 DEF HandleOk, BlocksAre
<1>3. c <= mark + 1
    BY <1>1, CommitLine
<1>4. BlocksAre(r)
    <2>1. At(r.fs, c) /\ Filing(r.fs)
        BY <1>1, <1>2 DEF HandleOk, BlocksAre
    <2>2. r.pc # "out" => c <= r.n + 1
        BY <1>2, <1>3
    <2> QED
        BY <2>1, <2>2 DEF BlocksAre
<1>5. MayWalk(r) /\ Given(r)
    BY DEF MayWalk, Given
<1> QED
    BY <1>4, <1>5 DEF HandleOk

LEMMA ScanEnter ==
    ASSUME NoGiveUp, WholeInv, UpInv, HandsInv, [Next]_vars, "dirty" \notin Isolations, NEW h \in Handles, Enter(h)
    PROVE  HandsInv'
<1> DEFINE B == [log |-> Unbounded, len |-> Unbounded, wm |-> SeeAll]
           pc(i) == IF i = "dirty" THEN "look" ELSE "log"
           b(i) == IF i = "dirty" THEN B ELSE hd[h].b
           r(i) == [hd[h] EXCEPT !.iso = i, !.n = mark, !.g = Len(states), !.pc = pc(i), !.b = b(i)]
<1>1. PICK i \in Isolations : hd' = [hd EXCEPT ![h] = r(i)]
    BY Zenon DEF Enter
<1>2. hd[h].pc = "out"
    BY DEF Enter
<1>3. hd[h] \in HandleSet /\ hd[h].b \in BoundSet /\ mark \in Nat /\ hd[h].out = <<>> /\ BlockInv
    BY <1>2, HandleNow
<1>4. Len(states) \in DOMAIN states /\ Len(states) \in Nat
    BY <1>3, PassIn, UpFs
<1>5. i # "dirty" /\ pc(i) = "log" /\ b(i) = hd[h].b /\ i \in Isolations \cup {"latest"}
    OBVIOUS
<1> HIDE DEF b, pc
<1>6. r(i) \in HandleSet
    BY <1>3, <1>4, <1>5 DEF HandleSet
<1>7. r(i).g = Len(states) /\ r(i).pc = "log" /\ r(i).n = mark /\ r(i).iso = i /\ r(i).out = hd[h].out /\ r(i).fs = hd[h].fs
    BY <1>3, <1>5 DEF HandleSet
<1>8. PICK q \in HandleSet : q = r(i)
    BY <1>6
<1> HIDE DEF r
<1>9. HandleOk(q)
    BY <1>3, <1>5, <1>7, <1>8, EarlyOk
<1>10. q.n <= mark /\ q.g \in DOMAIN states
    BY <1>3, <1>4, <1>7, <1>8
<1> QED
    BY <1>1, <1>8, <1>9, <1>10, HandsPut

LEMMA ScanLoadWord ==
    ASSUME NoGiveUp, WholeInv, UpInv, HandsInv, [Next]_vars, NEW h \in Handles, LoadWord(h)
    PROVE  HandsInv'
<1> DEFINE w == hd[h].pc
           v == marks[Marked(hd[h].n)][w]
           pc == CASE w = "log" -> "len" [] w = "len" -> "wm" [] w = "wm" -> "check"
           b == [hd[h].b EXCEPT ![w] = v]
           r == [hd[h] EXCEPT !.b = b, !.pc = pc]
<1>1. w \in Words
    BY DEF LoadWord, Words
<1>2. hd' = [hd EXCEPT ![h].b[w] = v, ![h].pc = pc]
    BY DEF LoadWord
<1>3. /\ hd \in [Handles -> HandleSet] /\ hd[h] \in HandleSet /\ hd[h].n <= mark /\ hd[h].g \in DOMAIN states
      /\ hd[h].out = <<>> /\ hd[h].iso # "dirty" /\ hd[h].b \in BoundSet /\ hd[h].n \in Nat
    BY <1>1, HandleNow DEF Words, HandleOk, BlocksAre
<1>4. marks[Marked(hd[h].n)] \in BoundSet
    <2>1. Marked(hd[h].n) \in 0..1
        BY <1>3, Marking
    <2>2. marks[Marked(hd[h].n)] \in CommitSet
        BY <2>1 DEF WholeInv, CommInv, CommitType
    <2> QED
        BY <2>2, CommitIsBound
<1>5. b \in BoundSet
    <2> DEFINE m == marks[Marked(hd[h].n)]
    <2>1. m \in BoundSet
        BY <1>4
    <2> HIDE DEF m
    <2>2. \A x \in Words : [hd[h].b EXCEPT ![x] = m[x]] \in BoundSet
        BY <1>3, <2>1 DEF BoundSet, Words
    <2> QED
        BY <1>1, <2>2 DEF m
<1>6. pc \in {"len", "wm", "check"}
    BY <1>1 DEF Words
<1>7. hd' = [hd EXCEPT ![h] = r]
    <2> HIDE DEF w, v, pc
    <2> QED
        BY <1>2, <1>3 DEF HandleSet
<1> HIDE DEF b, pc, v
<1>8. r \in HandleSet /\ r.g = hd[h].g /\ r.pc = pc /\ r.n = hd[h].n /\ r.iso = hd[h].iso /\ r.out = hd[h].out /\ r.fs = hd[h].fs
    BY <1>3, <1>5, <1>6 DEF HandleSet
<1>9. PICK q \in HandleSet : q = r
    BY <1>8
<1> HIDE DEF r
<1>10. HandleOk(q)
    BY <1>1, <1>3, <1>6, <1>8, <1>9, EarlyOk DEF Words
<1> QED
    BY <1>3, <1>7, <1>8, <1>9, <1>10, HandsPut

LEMMA ScanCheckMark ==
    ASSUME NoGiveUp, WholeInv, UpInv, HandsInv, [Next]_vars, NEW h \in Handles, CheckMark(h)
    PROVE  HandsInv'
<1> DEFINE pc == IF Unmoved(h) THEN "look" ELSE "log"
           n == IF Unmoved(h) THEN hd[h].n ELSE mark
           r == [hd[h] EXCEPT !.pc = pc, !.n = n]
<1>1. hd[h].pc = "check" /\ hd' = [hd EXCEPT ![h].pc = pc, ![h].n = n]
    BY DEF CheckMark
<1>2. /\ hd \in [Handles -> HandleSet] /\ hd[h] \in HandleSet /\ mark \in Nat /\ hd[h].g \in DOMAIN states
      /\ hd[h].out = <<>> /\ hd[h].iso # "dirty"
    BY <1>1, HandleNow DEF HandleOk, BlocksAre
<1>3. n = mark /\ pc \in {"look", "log"}
    BY DEF Unmoved
<1>4. hd' = [hd EXCEPT ![h] = r]
    BY <1>1, <1>2 DEF HandleSet
<1> HIDE DEF pc, n
<1>5. r \in HandleSet /\ r.g = hd[h].g /\ r.pc = pc /\ r.n = n /\ r.iso = hd[h].iso /\ r.out = hd[h].out /\ r.fs = hd[h].fs
    BY <1>2, <1>3 DEF HandleSet
<1>6. PICK q \in HandleSet : q = r
    BY <1>5
<1> HIDE DEF r
<1>7. HandleOk(q)
    BY <1>2, <1>3, <1>5, <1>6, EarlyOk
<1>8. q.n <= mark
    BY <1>2, <1>3, <1>5, <1>6
<1> QED
    BY <1>2, <1>4, <1>5, <1>6, <1>7, <1>8, HandsPut

LEMMA ScanEnds ==
    ASSUME NoGiveUp, WholeInv, UpInv, HandsInv, [Next]_vars, NEW h \in Handles, Again(h) \/ Leave(h)
    PROVE  HandsInv'
<1>1. hd[h].pc = "walk"
    BY DEF Again, Leave
<1>2. /\ hd \in [Handles -> HandleSet] /\ hd[h] \in HandleSet /\ hd[h].fs \in FormsStates /\ hd[h].g \in DOMAIN states
      /\ hd[h].n <= mark /\ hd[h].iso # "dirty" /\ mark \in Nat
    BY <1>1, HandleNow DEF HandleOk, BlocksAre
<1>3. <<>> \in Seq(Vals)
    BY EmptySeq
<1>4. CASE Again(h)
    <2> DEFINE r == [hd[h] EXCEPT !.pc = "look", !.out = <<>>, !.canon = FALSE, !.whole = FALSE]
    <2>1. hd' = [hd EXCEPT ![h] = r]
        BY <1>2, <1>4 DEF Again, HandleSet
    <2>2. r \in HandleSet /\ r.pc = "look" /\ r.out = <<>>
        BY <1>2, <1>3 DEF HandleSet
    <2>3. r.g = hd[h].g /\ r.n = hd[h].n /\ r.fs = hd[h].fs /\ r.iso = hd[h].iso
        BY <1>2 DEF HandleSet
    <2>4. PICK q \in HandleSet : q = r
        BY <2>2
    <2> HIDE DEF r
    <2>5. HandleOk(q)
        BY <1>1, <1>2, <2>2, <2>3, <2>4, EarlyOk
    <2> QED
        BY <1>2, <2>1, <2>3, <2>4, <2>5, HandsPut
<1>5. CASE Leave(h)
    <2> DEFINE r == Out(hd[h].fs)
    <2>1. hd' = [hd EXCEPT ![h] = r]
        BY <1>5 DEF Leave
    <2>2. Bounds0 \in BoundSet
        BY Numbers DEF Bounds0, BoundSet
    <2>3. r \in HandleSet /\ r.pc = "out" /\ r.out = <<>> /\ r.n = 0 /\ r.iso = "latest" /\ r.fs = hd[h].fs
        BY <1>2, <1>3, <2>2 DEF HandleSet, Out
    <2>4. PICK q \in HandleSet : q = r
        BY <2>3
    <2> HIDE DEF r
    <2>5. HandleOk(q)
        BY <2>3, <2>4, EarlyOk
    <2>6. q.n <= mark
        BY <1>2, <2>3, <2>4
    <2> QED
        BY <2>1, <2>3, <2>4, <2>5, <2>6, HandsPut
<1> QED
    BY <1>4, <1>5

\* Blocks brought from one commit to a later one hold the later one.
LEMMA SettledAt ==
    ASSUME CommInv, NEW fs \in FormsStates, Filing(fs), NEW c \in DOMAIN hist, NEW d \in DOMAIN hist, c <= d, At(fs, c)
    PROVE  /\ At(Settled(fs, hist[d].log, hist[d].wm), d) /\ Filing(Settled(fs, hist[d].log, hist[d].wm))
           /\ Settled(fs, hist[d].log, hist[d].wm) \in FormsStates
<1>0. /\ hist[d].log \in 0..MaxChunk /\ hist[d].log \in Nat /\ hist[d].log <= Len(log) /\ hist[d].wm \in Nat
      /\ hist[c].log \in Nat /\ hist[c].len \in Nat /\ hist[d].len \in Nat /\ TabInv
    BY HistFacts DEF CommInv
<1>1. fs.seen = hist[c].log /\ fs.snap <= hist[c].len /\ fs.snap \in Int
    BY FsTypes DEF At
<1>2. hist[c].log <= hist[d].log /\ hist[c].len <= hist[d].len
    BY CommitLine
<1>3. hist[d].log >= fs.seen /\ fs.snap <= hist[d].len
    BY <1>0, <1>1, <1>2
<1>4. PICK n \in 0..MaxChunk : n = hist[d].log /\ n >= fs.seen /\ n <= Len(log)
    BY <1>0, <1>3
<1>5. PICK wm : wm = hist[d].wm
    OBVIOUS
<1>6. PICK s : s = Settled(fs, n, wm)
    OBVIOUS
<1>7. /\ s.seen = n /\ s.snap = fs.snap
      /\ \A k \in Keys : s.own[k] = IF Between(fs.seen, n, k) /\ fs.own[k] # NoForm
                                    THEN [ver |-> n, vals |-> Values(k, wm)] ELSE fs.own[k]
    BY <1>4, <1>6, SettledIs
<1>8. Filing(s)
    BY <1>0, <1>4, <1>6, FilingSettled
<1>9. s \in FormsStates
    BY <1>0, <1>4, <1>5, <1>6, SettledType DEF TabInv
<1>10. \A k \in Keys : s.own[k] # NoForm => s.own[k].vals = hist[d].vals[k]
    <2> SUFFICES ASSUME NEW k \in Keys, s.own[k] # NoForm PROVE s.own[k].vals = hist[d].vals[k]
        OBVIOUS
    <2>1. CASE Between(fs.seen, n, k) /\ fs.own[k] # NoForm
        <3>2. s.own[k] = [ver |-> n, vals |-> Values(k, wm)]
            BY <1>7, <2>1, Zenon
        <3>1. s.own[k].vals = Values(k, wm)
            BY <3>2
        <3> QED
            BY <1>5, <3>1, CommitWm
    <2>2. CASE ~Between(fs.seen, n, k) /\ fs.own[k] # NoForm
        <3>1. s.own[k] = fs.own[k] /\ fs.own[k].vals = hist[c].vals[k]
            BY <1>7, <2>2 DEF At
        <3>2. ~Between(hist[c].log, hist[d].log, k) /\ hist[c].log <= hist[c].log
            BY <1>0, <1>1, <1>4, <2>2
        <3>3. hist[c].vals[k] = hist[d].vals[k]
            BY <1>0, <3>2, CommitVals
        <3> QED
            BY <3>1, <3>3
    <2> QED
        BY <1>7, <2>1, <2>2
<1> QED
    BY <1>3, <1>4, <1>5, <1>6, <1>7, <1>8, <1>9, <1>10 DEF At

LEMMA FreshAt ==
    ASSUME CommInv, NEW g \in 0..MaxGen
    PROVE  Fresh(g) \in FormsStates /\ Filing(Fresh(g)) /\ 1 \in DOMAIN hist /\ At(Fresh(g), 1)
<1>1. /\ Fresh(g).seen = 0 /\ Fresh(g).snap = NoSnap /\ \A k \in Keys : Fresh(g).own[k] = NoForm
    BY DEF Fresh
<1>2. Fresh(g) \in FormsStates
    <2>1. 0 \in 0..MaxChunk /\ NoSnap \in NoSnap..MaxChunk
        BY Numbers
    <2> QED
        BY <2>1 DEF Fresh, FormsStates
<1>3. Len(log) \in Nat /\ Len(slab) \in Nat
    BY Lengths DEF CommInv, TabInv
<1>4. 1 \in DOMAIN hist /\ hist[1].log = 0
    BY DEF CommInv, HistInv, CommitType
<1>5. hist[1].len \in Nat
    BY <1>4, HistFacts
<1>6. Filing(Fresh(g))
    <2>1. 0 <= Len(log) /\ NoSnap <= Len(slab)
        BY <1>3, Numbers
    <2> QED
        BY <1>1, <2>1 DEF Filing
<1>7. NoSnap <= hist[1].len
    BY <1>5, Numbers
<1> QED
    BY <1>1, <1>2, <1>4, <1>6, <1>7 DEF At

LEMMA ScanLook ==
    ASSUME NoGiveUp, WholeInv, UpInv, HandsInv, [Next]_vars, NEW h \in Handles, Look(h)
    PROVE  HandsInv'
<1> DEFINE f == IF hd[h].fs.gen = hd[h].g THEN hd[h].fs ELSE Fresh(hd[h].g)
           s == Settled(f, LogEnd(hd[h].b), hd[h].b.wm)
           r == [hd[h] EXCEPT !.pc = "snap", !.fs = s]
<1>1. hd[h].pc = "look" /\ hd' = [hd EXCEPT ![h].pc = "snap", ![h].fs = s]
    BY Zenon DEF Look
<1>2. /\ hd \in [Handles -> HandleSet] /\ hd[h] \in HandleSet /\ hd[h].g \in DOMAIN states /\ hd[h].n <= mark
      /\ hd[h].iso # "dirty" /\ hd[h].fs \in FormsStates /\ hd[h].b \in BoundSet /\ hd[h].out = <<>>
      /\ IsCommit(hd[h].b, hd[h].n + 1) /\ CommInv /\ BlockInv /\ HandleOk(hd[h]) /\ hd[h].n \in Nat
    BY <1>1, HandleNow DEF HandleOk, BlocksAre, Past
<1>3. PICK d \in DOMAIN hist : d = hd[h].n + 1
    BY HandleNow
<1>4. LogEnd(hd[h].b) = hist[d].log /\ hd[h].b.wm = hist[d].wm
    BY <1>2, <1>3, CommitMemLen DEF IsCommit
<1>5. PICK c \in DOMAIN hist : At(f, c) /\ c <= d /\ Filing(f) /\ f \in FormsStates
    <2>1. PICK x \in DOMAIN hist : At(hd[h].fs, x) /\ x <= hd[h].n + 1
        BY <1>1, <1>2 DEF HandleOk, BlocksAre
    <2>2. Filing(hd[h].fs)
        BY <1>2 DEF HandleOk, BlocksAre
    <2>3. hd[h].g \in 0..MaxGen
        BY <1>2, UpFs, StateIn
    <2>4. Fresh(hd[h].g) \in FormsStates /\ Filing(Fresh(hd[h].g)) /\ 1 \in DOMAIN hist /\ At(Fresh(hd[h].g), 1)
        BY <1>2, <2>3, FreshAt
    <2>5. 1 <= d
        BY <1>2, <1>3
    <2> QED
        BY <1>2, <1>3, <2>1, <2>2, <2>4, <2>5
<1>6. PICK e \in FormsStates : e = f
    BY <1>5
<1> HIDE DEF f
<1>7. PICK z \in FormsStates : z = s /\ At(z, d) /\ Filing(z)
    BY <1>2, <1>4, <1>5, <1>6, SettledAt
<1> HIDE DEF s
<1>8. hd' = [hd EXCEPT ![h] = r]
    BY <1>1, <1>2 DEF HandleSet
<1>9. r \in HandleSet /\ r.g = hd[h].g /\ r.pc = "snap" /\ r.n = hd[h].n /\ r.b = hd[h].b /\ r.out = hd[h].out /\ r.iso = hd[h].iso /\ r.fs = z
    BY <1>2, <1>7 DEF HandleSet
<1>10. PICK q \in HandleSet : q = r
    BY <1>9
<1> HIDE DEF r
<1>11. BlocksAre(q)
    <2>1. q.fs = z /\ q.pc = "snap" /\ q.iso # "dirty" /\ d = q.n + 1 /\ d \in Nat
        BY <1>2, <1>3, <1>9, <1>10
    <2>2. At(q.fs, d) /\ Filing(q.fs)
        BY <1>7, <2>1
    <2> QED
        BY <2>1, <2>2 DEF BlocksAre
<1>12. MayWalk(q) /\ Given(q)
    BY <1>2, <1>9, <1>10 DEF MayWalk, Given
<1> QED
    BY <1>2, <1>8, <1>9, <1>10, <1>11, <1>12, HandsPut DEF HandleOk

LEMMA ScanSnap ==
    ASSUME NoGiveUp, WholeInv, UpInv, HandsInv, [Next]_vars, NEW h \in Handles, Snap(h)
    PROVE  HandsInv'
<1> DEFINE s(sw) == IF sw THEN Refreshed(hd[h].fs, states[hd[h].g].snap, MemLen(hd[h].b)) ELSE hd[h].fs
           r(sw) == [hd[h] EXCEPT !.pc = "at", !.fs = s(sw)]
<1>1. hd[h].pc = "snap"
    BY DEF Snap
<1>2. PICK sw \in BOOLEAN : MayRefresh(hd[h].fs, sw) /\ hd' = [hd EXCEPT ![h].pc = "at", ![h].fs = s(sw)]
    BY Zenon DEF Snap
<1>3. /\ hd \in [Handles -> HandleSet] /\ hd[h] \in HandleSet /\ hd[h].g \in DOMAIN states /\ hd[h].n <= mark
      /\ hd[h].iso # "dirty" /\ hd[h].fs \in FormsStates /\ hd[h].b \in BoundSet /\ hd[h].out = <<>>
      /\ IsCommit(hd[h].b, hd[h].n + 1) /\ CommInv /\ BlockInv /\ HandleOk(hd[h]) /\ hd[h].n \in Nat
    BY <1>1, HandleNow DEF HandleOk, BlocksAre, Past
<1>4. PICK d \in DOMAIN hist : d = hd[h].n + 1
    BY HandleNow
<1>5. At(hd[h].fs, d) /\ Filing(hd[h].fs)
    BY <1>1, <1>3, <1>4 DEF HandleOk, BlocksAre
<1>6. PICK f \in FormsStates : f = hd[h].fs
    BY <1>3
<1>7. PICK len \in 0..MaxChunk : len = hist[d].len /\ len = MemLen(hd[h].b)
    BY <1>3, <1>4, CommitMemLen, HistFacts DEF IsCommit
<1>8. PICK z \in FormsStates : z = s(sw) /\ At(z, d) /\ Filing(z) /\ z.snap # NoSnap
    <2>1. CASE sw = FALSE
        <3>1. s(sw) = f /\ f.snap # NoSnap
            BY <1>2, <1>6, <2>1 DEF MayRefresh
        <3> QED
            BY <1>5, <1>6, <3>1
    <2>2. CASE sw = TRUE
        <3>1. PICK p : p = states[hd[h].g].snap
            OBVIOUS
        <3>2. s(sw) = Refreshed(f, p, len)
            BY <1>6, <1>7, <2>2, <3>1
        <3>3. PICK e : e = Refreshed(f, p, len)
            OBVIOUS
        <3>4. e.seen = f.seen /\ e.own = f.own /\ e.snap = len /\ e \in FormsStates
            BY <3>3, RefreshedIs, RefreshedType
        <3>5. f.seen = hist[d].log /\ f.seen \in Nat
            BY <1>5, <1>6, FsTypes DEF At
        <3>6. \A l \in 1..f.seen : log[l] \in 1..len
            BY <1>3, <1>7, <3>5, CommitEntries
        <3>7. len <= Len(slab)
            BY <1>3, <1>7, CommitEntries
        <3>8. Filing(e)
            BY <1>5, <1>6, <3>3, <3>6, <3>7, FilingRefreshed
        <3>9. len <= hist[d].len /\ len # NoSnap
            BY <1>7, Numbers
        <3>10. At(e, d)
            BY <1>5, <1>6, <3>4, <3>9 DEF At
        <3> QED
            BY <3>2, <3>3, <3>4, <3>8, <3>9, <3>10
    <2> QED
        BY <2>1, <2>2
<1> HIDE DEF s
<1>9. hd' = [hd EXCEPT ![h] = r(sw)]
    BY <1>2, <1>3 DEF HandleSet
<1>10. /\ r(sw) \in HandleSet /\ r(sw).g = hd[h].g /\ r(sw).pc = "at" /\ r(sw).n = hd[h].n
       /\ r(sw).out = hd[h].out /\ r(sw).iso = hd[h].iso /\ r(sw).fs = z
    BY <1>3, <1>8 DEF HandleSet
<1>11. PICK q \in HandleSet : q = r(sw)
    BY <1>10
<1> HIDE DEF r
<1>12. BlocksAre(q)
    <2>1. q.fs = z /\ q.pc = "at" /\ q.iso # "dirty" /\ d = q.n + 1 /\ d \in Nat
        BY <1>3, <1>4, <1>10, <1>11
    <2>2. At(q.fs, d) /\ Filing(q.fs) /\ q.fs.snap # NoSnap
        BY <1>8, <2>1
    <2> QED
        BY <2>1, <2>2 DEF BlocksAre
<1>13. MayWalk(q) /\ Given(q)
    BY <1>3, <1>10, <1>11 DEF MayWalk, Given
<1> QED
    BY <1>3, <1>9, <1>10, <1>11, <1>12, <1>13, HandsPut DEF HandleOk

LEMMA ScanLoadAt ==
    ASSUME NoGiveUp, WholeInv, UpInv, HandsInv, [Next]_vars, NEW h \in Handles, LoadAt(h)
    PROVE  HandsInv'
<1> DEFINE y == states[hd[h].g].at = hd[h].b.log
           r == [hd[h] EXCEPT !.pc = "complete", !.canon = y]
<1>1. hd[h].pc = "at" /\ hd' = [hd EXCEPT ![h].pc = "complete", ![h].canon = y]
    BY Zenon DEF LoadAt
<1>2. /\ hd \in [Handles -> HandleSet] /\ hd[h] \in HandleSet /\ hd[h].g \in DOMAIN states /\ hd[h].n <= mark
      /\ hd[h].iso # "dirty" /\ hd[h].out = <<>> /\ hd[h].b.log \in Nat
      /\ IsCommit(hd[h].b, hd[h].n + 1) /\ CommInv /\ BlockInv /\ HandleOk(hd[h]) /\ hd[h].n \in Nat
    BY <1>1, HandleNow DEF HandleOk, BlocksAre, Past
<1>3. PICK d \in DOMAIN hist : d = hd[h].n + 1
    BY HandleNow
<1>4. hd[h].b.log = hist[d].log /\ hist[d].log # Unbounded
    <2>1. hist[d].log \in 0..MaxChunk
        BY <1>2, HistFacts
    <2>2. hist[d].log # Unbounded
        BY <2>1, Numbers
    <2> QED
        BY <1>2, <1>3, <2>2 DEF IsCommit
<1>5. y \in BOOLEAN
    BY Zenon
<1>6. y => states[hd[h].g].at = hd[h].b.log
    OBVIOUS
<1> HIDE DEF y
<1>7. hd' = [hd EXCEPT ![h] = r]
    BY <1>1, <1>2 DEF HandleSet
<1>8. r \in HandleSet /\ r.pc = "complete" /\ r.canon = y
    BY <1>2, <1>5 DEF HandleSet
<1>9. r.g = hd[h].g /\ r.n = hd[h].n /\ r.b = hd[h].b /\ r.out = hd[h].out /\ r.iso = hd[h].iso /\ r.fs = hd[h].fs
    BY <1>2 DEF HandleSet
<1>10. PICK q \in HandleSet : q = r
    BY <1>8
<1> HIDE DEF r
<1>11. BlocksAre(q)
    BY <1>1, <1>2, <1>8, <1>9, <1>10 DEF HandleOk, BlocksAre
<1>12. MayWalk(q)
    <2>1. q.pc = "complete" /\ q.g \in DOMAIN states /\ q.n + 1 = d /\ q.b.log = hist[d].log /\ hist[d].log \in Nat
        BY <1>2, <1>3, <1>4, <1>8, <1>9, <1>10
    <2>2. ASSUME q.canon PROVE Reached(q.g) /\ q.b.log <= states[q.g].at /\ states[q.g].at = hist[d].log
        <3>1. states[q.g].at = hist[d].log
            BY <1>4, <1>6, <1>8, <1>9, <1>10, <2>2
        <3> QED
            BY <1>4, <2>1, <3>1 DEF Reached
    <2>3. ASSUME q.canon, NEW k \in Keys, Proper(Stands(q.g, k)), Stands(q.g, k).at <= q.b.log
          PROVE  Stands(q.g, k).vals = hist[d].vals[k]
        BY <2>1, <2>2, <2>3 DEF UpInv, FormsRight, Proper
    <2> QED
        BY <2>1, <2>2, <2>3 DEF MayWalk
<1>13. Given(q)
    BY <1>2, <1>9, <1>10 DEF Given
<1> QED
    BY <1>2, <1>7, <1>9, <1>10, <1>11, <1>12, <1>13, HandsPut DEF HandleOk

LEMMA ScanLoadComplete ==
    ASSUME NoGiveUp, WholeInv, UpInv, HandsInv, [Next]_vars, NEW h \in Handles, LoadComplete(h)
    PROVE  HandsInv'
<1> DEFINE y == hd[h].canon /\ states[hd[h].g].complete
           r == [hd[h] EXCEPT !.pc = "walk", !.whole = y]
<1>1. hd[h].pc = "complete" /\ hd' = [hd EXCEPT ![h].pc = "walk", ![h].whole = y]
    BY Zenon DEF LoadComplete
<1>2. /\ hd \in [Handles -> HandleSet] /\ hd[h] \in HandleSet /\ hd[h].g \in DOMAIN states /\ hd[h].n <= mark
      /\ hd[h].iso # "dirty" /\ hd[h].out = <<>> /\ hd[h].b.log \in Nat
      /\ IsCommit(hd[h].b, hd[h].n + 1) /\ CommInv /\ BlockInv /\ HandleOk(hd[h]) /\ hd[h].n \in Nat
    BY <1>1, HandleNow DEF HandleOk, BlocksAre, Past
<1>3. PICK d \in DOMAIN hist : d = hd[h].n + 1
    BY HandleNow
<1>5. y \in BOOLEAN
    BY Zenon
<1>6. y => hd[h].canon /\ states[hd[h].g].complete
    OBVIOUS
<1> HIDE DEF y
<1>7. hd' = [hd EXCEPT ![h] = r]
    BY <1>1, <1>2 DEF HandleSet
<1>8. r \in HandleSet /\ r.pc = "walk" /\ r.whole = y
    BY <1>2, <1>5 DEF HandleSet
<1>9. /\ r.g = hd[h].g /\ r.n = hd[h].n /\ r.b = hd[h].b /\ r.out = hd[h].out /\ r.iso = hd[h].iso /\ r.fs = hd[h].fs
      /\ r.canon = hd[h].canon
    BY <1>2 DEF HandleSet
<1>10. PICK q \in HandleSet : q = r
    BY <1>8
<1> HIDE DEF r
<1>11. BlocksAre(q)
    BY <1>1, <1>2, <1>8, <1>9, <1>10 DEF HandleOk, BlocksAre
<1>12. MayWalk(q)
    <2>1. q.pc = "walk" /\ q.g \in DOMAIN states /\ q.n + 1 = d /\ q.b.log = hist[d].log
        BY <1>2, <1>3, <1>8, <1>9, <1>10 DEF IsCommit
    <2>2. ASSUME q.canon
          PROVE  /\ Reached(q.g) /\ q.b.log <= states[q.g].at
                 /\ \A k \in Keys : Proper(Stands(q.g, k)) /\ Stands(q.g, k).at <= q.b.log =>
                                       Stands(q.g, k).vals = hist[d].vals[k]
        BY <1>1, <1>2, <1>3, <1>9, <1>10, <2>2 DEF HandleOk, MayWalk
    <2>3. ASSUME q.whole, NEW k \in Keys, Stands(q.g, k) = NoForm
          PROVE  hist[d].vals[k] = Base(k)
        <3>1. q.canon /\ states[q.g].complete
            BY <1>6, <1>8, <1>9, <1>10, <2>3
        <3>2. Reached(q.g) /\ hist[d].log <= states[q.g].at
            BY <2>1, <2>2, <3>1
        <3> QED
            BY <2>1, <2>3, <3>1, <3>2 DEF UpInv, AtInv
    <2> QED
        BY <2>1, <2>2, <2>3 DEF MayWalk
<1>13. Given(q)
    BY <1>2, <1>9, <1>10 DEF Given
<1> QED
    BY <1>2, <1>7, <1>9, <1>10, <1>11, <1>12, <1>13, HandsPut DEF HandleOk

\* A published form a handle walks is of its commit, and so is a block it builds.
LEMMA CanonRight ==
    ASSUME WholeInv, HandsInv, NEW h \in Handles, hd[h].pc = "walk", NEW k \in Keys, Canonical(h, k) # NoForm
    PROVE  Canonical(h, k).vals = hist[hd[h].n + 1].vals[k]
<1>1. hd[h].g \in DOMAIN states /\ HandleOk(hd[h]) /\ BlockInv /\ hd[h].b.log \in Nat
    BY HandleNow
<1>2. PICK f \in Published \cup {NoForm} : f = Stands(hd[h].g, k)
    BY <1>1, UpFs DEF Stands, StateSet
<1>3. hd[h].canon /\ f # Mark
    BY <1>2 DEF Canonical
<1>4. Canonical(h, k) = IF f = NoForm THEN IF hd[h].whole THEN [ver |-> 0, vals |-> Base(k)] ELSE NoForm
                        ELSE IF f.at > hd[h].b.log THEN NoForm ELSE f
    BY <1>2, <1>3 DEF Canonical
<1>5. CASE f = NoForm
    <2>1. hd[h].whole /\ Canonical(h, k) = [ver |-> 0, vals |-> Base(k)]
        BY <1>4, <1>5
    <2>2. hist[hd[h].n + 1].vals[k] = Base(k)
        BY <1>1, <1>2, <1>5, <2>1 DEF HandleOk, MayWalk
    <2> QED
        BY <2>1, <2>2
<1>6. CASE f # NoForm
    <2>1. Canonical(h, k) = f /\ ~(f.at > hd[h].b.log)
        BY <1>4, <1>6
    <2>2. f.at \in Nat
        BY <1>6, Numbers DEF Published
    <2>3. f.at <= hd[h].b.log
        BY <1>1, <2>1, <2>2
    <2>4. Proper(f)
        BY <1>3, <1>6 DEF Proper
    <2> QED
        BY <1>1, <1>2, <1>3, <2>1, <2>3, <2>4 DEF HandleOk, MayWalk
<1> QED
    BY <1>5, <1>6

LEMMA OwnRight ==
    ASSUME CommInv, NEW fs \in FormsStates, Filing(fs), fs.snap # NoSnap, NEW d \in DOMAIN hist, At(fs, d), NEW k \in Keys
    PROVE  LET o == IF fs.own[k] = NoForm THEN Built(fs, k, hist[d].wm) ELSE fs.own[k]
           IN  o.vals = hist[d].vals[k] /\ o.ver <= fs.seen /\ o \in Forms
<1>0. TabInv /\ fs.seen \in Nat /\ fs.seen = hist[d].log /\ hist[d].log \in Nat /\ hist[d].wm \in Nat /\ TableType /\ TableInv
    BY FsTypes, HistFacts DEF CommInv, At, TabInv
<1>1. CASE fs.own[k] # NoForm
    <2>1. fs.own[k] \in Forms
        BY <1>1 DEF FormsStates
    <2> QED
        BY <1>1, <2>1 DEF At, Filing
<1>2. CASE fs.own[k] = NoForm
    <2>1. PICK v : v = IF Overlaid(fs, k) THEN Values(k, hist[d].wm) ELSE Base(k)
        OBVIOUS
    <2>2. Built(fs, k, hist[d].wm) = [ver |-> fs.seen, vals |-> v]
        BY <2>1 DEF Built
    <2>3. v = hist[d].vals[k]
        <3>1. CASE Overlaid(fs, k)
            BY <2>1, <3>1, CommitWm
        <3>2. CASE ~Overlaid(fs, k)
            <4>1. ~Between(0, fs.seen, k)
                BY <1>0, <3>2, OverlaidBetween
            <4>2. hist[d].log <= fs.seen
                BY <1>0
            <4>3. hist[d].vals[k] = Base(k)
                BY <1>0, <4>1, <4>2, CommitBase
            <4> QED
                BY <2>1, <3>2, <4>3
        <3> QED
            BY <3>1, <3>2
    <2>4. Built(fs, k, hist[d].wm) \in Forms
        BY <1>0, BuiltType
    <2>5. fs.seen <= fs.seen
        BY <1>0
    <2> QED
        BY <1>2, <2>2, <2>3, <2>4, <2>5
<1> QED
    BY <1>1, <1>2

LEMMA ScanWalk ==
    ASSUME NoGiveUp, WholeInv, UpInv, HandsInv, [Next]_vars, NEW h \in Handles, Walk(h)
    PROVE  HandsInv'
<1>1. hd[h].pc = "walk" /\ Len(hd[h].out) < MaxKey
    BY DEF Walk
<1>2. /\ hd \in [Handles -> HandleSet] /\ hd[h] \in HandleSet /\ hd[h].g \in DOMAIN states /\ hd[h].n <= mark
      /\ hd[h].iso # "dirty" /\ hd[h].fs \in FormsStates /\ CommInv /\ HandleOk(hd[h]) /\ hd[h].n \in Nat
      /\ IsCommit(hd[h].b, hd[h].n + 1) /\ hd[h].fs.snap # NoSnap
    BY <1>1, HandleNow DEF HandleOk, BlocksAre, Past
<1>3. hd[h].out \in Seq(Vals) /\ Len(hd[h].out) \in Nat
    BY <1>2 DEF HandleSet
<1>4. PICK k \in Keys : k = Len(hd[h].out) + 1
    BY <1>1, <1>3, Numbers DEF Keys
<1>5. PICK own : own = IF hd[h].fs.own[k] = NoForm THEN Built(hd[h].fs, k, hd[h].b.wm) ELSE hd[h].fs.own[k]
    OBVIOUS
<1>6. PICK canon : canon = Canonical(h, k)
    OBVIOUS
<1>7. \/ canon # NoForm /\ hd' = [hd EXCEPT ![h].out = Append(hd[h].out, canon.vals)]
      \/ hd' = [hd EXCEPT ![h].out = Append(hd[h].out, own.vals), ![h].fs.own[k] = own]
    BY <1>4, <1>5, <1>6, Zenon DEF Walk
<1>8. PICK d \in DOMAIN hist : d = hd[h].n + 1
    BY HandleNow
<1>9. At(hd[h].fs, d) /\ Filing(hd[h].fs)
    BY <1>1, <1>2, <1>8 DEF HandleOk, BlocksAre
<1>10. PICK v \in Vals : v = hist[d].vals[k]
    BY <1>2, HistFacts
<1>11. own.vals = v /\ own.ver <= hd[h].fs.seen /\ own \in Forms
    <2>1. PICK e \in FormsStates : e = hd[h].fs
        BY <1>2
    <2>2. hd[h].b.wm = hist[d].wm
        BY <1>2, <1>8 DEF IsCommit
    <2>3. own = IF e.own[k] = NoForm THEN Built(e, k, hist[d].wm) ELSE e.own[k]
        BY <1>5, <2>1, <2>2
    <2>4. e.snap # NoSnap /\ At(e, d) /\ Filing(e)
        BY <1>2, <1>9, <2>1
    <2> QED
        BY <1>2, <1>10, <2>1, <2>3, <2>4, OwnRight
<1>12. canon # NoForm => canon.vals = v
    BY <1>1, <1>6, <1>8, <1>10, CanonRight
<1>13. PICK o \in Seq(Vals) : o = Append(hd[h].out, v)
    BY <1>3, <1>10, AppendProperties
<1>14. \A x \in DOMAIN o : o[x] = hist[d].vals[x]
    <2>1. /\ Len(o) = Len(hd[h].out) + 1 /\ \A i \in 1..Len(hd[h].out) : o[i] = hd[h].out[i]
          /\ o[Len(hd[h].out) + 1] = v
        BY <1>3, <1>10, <1>13, AppendProperties
    <2>2. DOMAIN o = 1..(Len(hd[h].out) + 1) /\ DOMAIN hd[h].out = 1..Len(hd[h].out)
        BY <1>3, <2>1
    <2>3. \A x \in DOMAIN hd[h].out : hd[h].out[x] = hist[d].vals[x]
        BY <1>2, <1>8 DEF HandleOk, Given
    <2> TAKE x \in DOMAIN o
    <2>4. CASE x = Len(hd[h].out) + 1
        BY <2>1, <2>4, <1>4, <1>10
    <2>5. CASE x # Len(hd[h].out) + 1
        <3>1. x \in 1..Len(hd[h].out)
            BY <1>3, <2>2, <2>5
        <3> QED
            BY <2>1, <2>2, <2>3, <3>1
    <2> QED
        BY <2>4, <2>5
<1>15. PICK q \in HandleSet :
         /\ hd' = [hd EXCEPT ![h] = q] /\ q.pc = "walk" /\ q.g = hd[h].g /\ q.n = hd[h].n /\ q.b = hd[h].b /\ q.iso = hd[h].iso
         /\ q.canon = hd[h].canon /\ q.whole = hd[h].whole /\ q.out = o
         /\ At(q.fs, d) /\ Filing(q.fs) /\ q.fs.snap # NoSnap
    <2>1. CASE canon # NoForm /\ hd' = [hd EXCEPT ![h].out = Append(hd[h].out, canon.vals)]
        <3> DEFINE r == [hd[h] EXCEPT !.out = o]
        <3>1. hd' = [hd EXCEPT ![h] = r]
            BY <1>12, <1>13, <2>1
        <3>2. r \in HandleSet /\ r.pc = "walk" /\ r.out = o
            BY <1>1, <1>2 DEF HandleSet
        <3>3. r.g = hd[h].g /\ r.n = hd[h].n /\ r.b = hd[h].b /\ r.iso = hd[h].iso /\ r.canon = hd[h].canon /\ r.whole = hd[h].whole
              /\ r.fs = hd[h].fs
            BY <1>2 DEF HandleSet
        <3> HIDE DEF r
        <3> QED
            BY <1>2, <1>9, <3>1, <3>2, <3>3
    <2>2. CASE hd' = [hd EXCEPT ![h].out = Append(hd[h].out, own.vals), ![h].fs.own[k] = own]
        <3> DEFINE w == [hd[h].fs.own EXCEPT ![k] = own]
                   f == [hd[h].fs EXCEPT !.own = w]
                   r == [hd[h] EXCEPT !.out = o, !.fs = f]
        <3>1. hd' = [hd EXCEPT ![h] = r]
            <4>1. hd' = [hd EXCEPT ![h].out = o, ![h].fs.own[k] = own]
                BY <1>11, <1>13, <2>2
            <4> QED
                BY <1>2, <4>1 DEF HandleSet
        <3>2. w \in [Keys -> Forms \cup {NoForm}] /\ \A x \in Keys : w[x] = IF x = k THEN own ELSE hd[h].fs.own[x]
            BY <1>2, <1>11 DEF FormsStates
        <3> HIDE DEF w
        <3>3. f \in FormsStates /\ f.own = w /\ f.seen = hd[h].fs.seen /\ f.snap = hd[h].fs.snap /\ f.added = hd[h].fs.added
            BY <1>2, <3>2 DEF FormsStates
        <3> HIDE DEF f
        <3>4. At(f, d)
            BY <1>9, <1>10, <1>11, <3>2, <3>3 DEF At
        <3>5. Filing(f)
            BY <1>9, <1>11, <3>2, <3>3 DEF Filing
        <3>6. r \in HandleSet /\ r.pc = "walk" /\ r.out = o /\ r.fs = f
            BY <1>1, <1>2, <3>3 DEF HandleSet
        <3>7. r.g = hd[h].g /\ r.n = hd[h].n /\ r.b = hd[h].b /\ r.iso = hd[h].iso /\ r.canon = hd[h].canon /\ r.whole = hd[h].whole
            BY <1>2 DEF HandleSet
        <3> HIDE DEF r
        <3> QED
            BY <1>2, <3>1, <3>3, <3>4, <3>5, <3>6, <3>7
    <2> QED
        BY <1>7, <2>1, <2>2
<1>16. BlocksAre(q)
    <2>1. d = q.n + 1 /\ d \in Nat /\ q.iso # "dirty"
        BY <1>2, <1>8, <1>15
    <2> QED
        BY <1>15, <2>1 DEF BlocksAre
<1>17. MayWalk(q)
    <2>1. MayWalk(hd[h])
        BY <1>2 DEF HandleOk
    <2> QED
        BY <1>1, <1>15, <2>1 DEF MayWalk
<1>18. Given(q)
    BY <1>8, <1>14, <1>15 DEF Given
<1> QED
    BY <1>2, <1>15, <1>16, <1>17, <1>18, HandsPut DEF HandleOk

\* No handle is set to dirty.
NoDirty == "dirty" \notin Isolations

LEMMA HandsNext ==
    ASSUME NoGiveUp, WholeInv, UpInv, HandsInv, NoDirty, [Next]_vars
    PROVE  HandsInv'
<1>1. ASSUME NEW h \in Handles, Scan(h) PROVE HandsInv'
    <2>1. CASE Enter(h)
        BY <2>1, ScanEnter DEF NoDirty
    <2>2. CASE ~Enter(h)
        BY <1>1, <2>2, ScanLoadWord, ScanCheckMark, ScanLook, ScanSnap, ScanLoadAt, ScanLoadComplete, ScanWalk, ScanEnds
           DEF Scan
    <2> QED
        BY <2>1, <2>2
<1>2. CASE Write \/ CommitStore \/ CommitMark \/ UNCHANGED vars
    BY <1>2, HandsStay DEF Write, CommitStore, CommitMark, Link, Create, PutHead, IndexInsert, LogWrite, vars
<1>3. CASE \/ PassBegin \/ PassLook \/ PassSnap \/ PassFill \/ PassPublish \/ PassComplete \/ PassAt
           \/ WriterScan \/ LandCarry \/ LandPublish \/ Claim
    <2>1. hd' = hd
        BY <1>3, Zenon DEF PassBegin, PassLook, PassSnap, PassFill, PassPublish, PassComplete, PassAt,
           WriterScan, LandCarry, LandPublish, Claim
    <2> QED
        BY <2>1, HandsStay
<1>4. ~GiveUp
    BY DEF GiveUp, NoGiveUp
<1> QED
    BY <1>1, <1>2, <1>3, <1>4 DEF Next

LEMMA HandsInit ==
    ASSUME Init
    PROVE  HandsInv
<1>1. CommInv /\ 0 \in 0..MaxGen
    BY WholeInit, Numbers DEF WholeInv
<1>2. PICK f \in FormsStates : f = Fresh(0) /\ Filing(f) /\ 1 \in DOMAIN hist /\ At(f, 1)
    BY <1>1, FreshAt
<1> SUFFICES ASSUME NEW h \in Handles, NEW r \in HandleSet, hd[h] = r
             PROVE  HandleOk(r)
    BY DEF HandsInv
<1>3. r = Out(f)
    BY <1>2 DEF Init
<1>4. r.fs = f /\ r.pc = "out" /\ r.iso = "latest" /\ r.out = <<>>
    BY <1>3 DEF Out
<1>5. BlocksAre(r)
    BY <1>2, <1>4 DEF BlocksAre
<1>6. MayWalk(r) /\ Given(r)
    BY <1>4 DEF MayWalk, Given
<1> QED
    BY <1>5, <1>6 DEF HandleOk

LEMMA HandsAlways ==
    ASSUME NoDirty, NoGiveUp
    PROVE  Spec => []HandsInv
<1>1. WholeInv /\ UpInv /\ HandsInv /\ [Next]_vars => HandsInv'
    BY HandsNext
<1> QED
    BY <1>1, HandsInit, WholeAlways, UpAlways, PTL DEF Spec

\* A scan gives every key the values of the handle's own commit, whether it walks
\* blocks it patched from the log or published forms, and through any write, commit,
\* pass of the upkeep thread or landing that runs beside it (scan_blocks, canonical,
\* sync_log, materialize): for any number of keys, handles, chunks, commits and
\* states, where no handle is set to dirty and no block is given up without a mark.
THEOREM ScansGiveTheirCommit ==
    ASSUME NoDirty, NoGiveUp
    PROVE  Spec => []ScanRight
<1>1. WholeInv /\ HandsInv => ScanRight
    <2> SUFFICES ASSUME WholeInv, HandsInv, NEW h \in Handles, NEW k \in DOMAIN hd[h].out
                 PROVE  hd[h].iso # "dirty" /\ hd[h].out[k] = View(h).vals[k]
        <3>1. WholeInv => DOMAIN hd = Handles
            BY DEF WholeInv, HandInv, HandleType
        <3> QED
            BY <3>1 DEF ScanRight
    <2> QED
        BY HandleNow DEF HandleOk, BlocksAre, Given, View
<1> QED
    BY <1>1, HandsAlways, WholeAlways, PTL

LEMMA NamesAll ==
    ASSUME CommInv, NEW fs \in FormsStates, Filing(fs), fs.snap # NoSnap, NEW c \in DOMAIN hist,
           fs.seen = hist[c].log, fs.snap <= hist[c].len
    PROVE  Names(fs, hist[c].len)
<1>1. {log[l] : l \in 1..hist[c].log} = 1..hist[c].len
    BY CommitEntries
<1>2. fs.added = {log[l] : l \in 1..fs.seen} \ (1..fs.snap)
    BY DEF Filing
<1>3. fs.added = (1..hist[c].len) \ (1..fs.snap)
    BY <1>1, <1>2
<1>4. fs.snap \in Nat /\ hist[c].len \in Nat
    BY FsTypes, HistFacts, Numbers
<1>5. 1..fs.snap \subseteq 1..hist[c].len
    BY <1>4
<1> QED
    BY <1>3, <1>5 DEF Names

\* Once a scan or a whole pass has its snapshot, that and the entries filed since name
\* every entry of its commit once, and none made after it: no key is missing from the
\* blocks it builds and none is merged twice (refresh_snapshot_to, sync_log,
\* fill_forms), where no handle is set to dirty and no block is given up without a mark.
THEOREM EntriesNamedOnce ==
    ASSUME NoDirty, NoGiveUp
    PROVE  Spec => []Named
<1>1. WholeInv /\ UpInv /\ HandsInv => Named
    <2> SUFFICES ASSUME NoGiveUp, WholeInv, UpInv, HandsInv PROVE Named
        OBVIOUS
    <2>1. DOMAIN hd = Handles /\ CommInv /\ BlockInv
        BY DEF WholeInv, HandInv, HandleType
    <2>2. ASSUME NEW h \in Handles, hd[h].pc \in {"at", "complete", "walk"}
          PROVE  Names(hd[h].fs, hd[h].b.len)
        <3>1. /\ hd[h].fs \in FormsStates /\ HandleOk(hd[h]) /\ hd[h].n + 1 \in DOMAIN hist
              /\ IsCommit(hd[h].b, hd[h].n + 1)
            BY <2>2, HandleNow DEF Past
        <3>2. PICK c \in DOMAIN hist : c = hd[h].n + 1 /\ At(hd[h].fs, c) /\ Filing(hd[h].fs) /\ hd[h].fs.snap # NoSnap
            BY <2>2, <3>1 DEF HandleOk, BlocksAre
        <3>3. hd[h].b.len = hist[c].len
            BY <3>1, <3>2 DEF IsCommit
        <3> QED
            BY <2>1, <3>1, <3>2, <3>3, NamesAll DEF At
    <2>3. ASSUME pass.pc \in {"fill", "publish", "at"}, ~pass.short
          PROVE  Names(up.fs, pass.b.len)
        <3>1. /\ Filing(up.fs) /\ up.fs.snap # NoSnap /\ up.fs.seen = pass.b.log /\ up.fs.snap <= pass.b.len
              /\ \E c \in DOMAIN hist : IsCommit(pass.b, c)
            BY <2>3 DEF UpInv, PassInv, Passing, Looked
        <3>2. PICK c \in DOMAIN hist : IsCommit(pass.b, c)
            BY <3>1
        <3>3. pass.b.len = hist[c].len /\ pass.b.log = hist[c].log
            BY <3>2 DEF IsCommit
        <3>4. up.fs \in FormsStates
            BY <2>1, UpFs
        <3> QED
            BY <2>1, <3>1, <3>3, <3>4, NamesAll
    <2> QED
        BY <2>1, <2>2, <2>3 DEF Named
<1> QED
    BY <1>1, HandsAlways, WholeAlways, UpAlways, PTL
=============================================================================
