------------------------------- MODULE Ingest -------------------------------
(* One writer's appends, puts and deletes, on their two ways into segments:   *)
(* through the log, a hashed table and a seal, or, for keys above the store's *)
(* greatest, straight into a segment (a direct run).  Beside it the segment   *)
(* work lands what was sealed, merges and promotes, and a crash leaves the    *)
(* manifest's segments, the log and the unfinished runs for the open to put   *)
(* together.  src/src/db.rs throughout.                                       *)
EXTENDS Shape

CONSTANTS
    SyncEvery,       \* SyncPolicy: 1 is Always
    FrozenCap,       \* FROZEN_CAP
    MergeParallel,   \* Options::merge_parallel
    TierPieces,      \* Options::tier_pieces
    Loose,           \* of {"del", "gap"}: the calls made that a passing run
                     \* leaves out (see Delete and Direct)
    MaxWrite,        \* bound: writes
    MaxFail          \* bound: crashes

ASSUME IngestAssumption ==
    /\ SyncEvery \in Nat \ {0} /\ FrozenCap \in Nat \ {0}
    /\ MergeParallel \in Nat \ {0} /\ TierPieces \in Nat
    /\ Loose \subseteq {"del", "gap"}
    /\ MaxWrite \in Nat /\ MaxFail \in Nat

VARIABLES
    phase,      \* "up", or "down" from a crash to the end of the open
    hist,       \* the writes that count: all made, less those a crash took
    com,        \* how many of them are committed
    prom,       \* how many a commit or a sync promised durable
    mem,        \* the live table: its writes, and whether it is ordered
    maxKey,     \* Db::max_key, 0 for none
    run,        \* the id of the open run's file, 0 for none
    frozen,     \* the tables sealed and not landed, oldest first
    segs,       \* the live segments
    covered,    \* log records the manifest's segments cover
    wal,        \* those of the log's records past them
    walDur,     \* how many of these are synced
    unsynced,   \* Db::unsynced
    tmps,       \* the files of runs on disk
    merges,     \* partition merges in flight
    tier,       \* the piece merge in flight, as a set of at most one
    nextSeg, fails

tables == <<mem, maxKey, run, frozen>>
log == <<wal, walDur, unsynced, covered>>
shape == <<segs, merges, tier>>
vars == <<phase, hist, com, prom, tables, log, shape, tmps, nextSeg, fails>>

Table == [ord : BOOLEAN, log : Seq(Write)]
Run == [id : Nat \ {0}, recs : Seq(Write), dur : Nat]
Job == [log : Seq(Write), tmp : Nat, seq : Nat, fences : SUBSET Fence,
        id : Nat, first : BOOLEAN]

Init ==
    /\ phase = "up" /\ hist = <<>> /\ com = 0 /\ prom = 0
    /\ mem = [ord |-> FALSE, log |-> <<>>] /\ maxKey = 0 /\ run = 0
    /\ frozen = <<>> /\ segs = {} /\ covered = 0 /\ wal = <<>> /\ walDur = 0
    /\ unsynced = 0 /\ tmps = {} /\ merges = {} /\ tier = {}
    /\ nextSeg = 1 /\ fails = 0

-----------------------------------------------------------------------------
(* The writer's writes.                                                       *)

Committed(ws) == Subsequence(ws, {i \in DOMAIN ws : ws[i].n <= com})
Staged(ws) == Subsequence(ws, {i \in DOMAIN ws : ws[i].n > com})
Seq0 == covered + Len(wal)          \* Wal::seq
Room == Len(frozen) < FrozenCap

\* Db::seals_first_partition, of a seal that drains.
MayBeFirst == frozen = <<>> /\ segs = {}

LastRange == {f \in Fences(Parts(segs)) : f.hi = Top}

\* A mutant of RunJob whose name is taken after the rest of the batch is logged.
RunJobLate(id, ws, first) ==
    [log |-> ws, tmp |-> id, seq |-> Seq0 + Len(Staged(mem.log)), id |-> id,
     first |-> first, fences |-> LastRange]

\* Db::close_run: the run's piece over the last range, and a name that covers
\* the log so far.
RunJob(id, ws, first) ==
    [log |-> ws, tmp |-> id, seq |-> Seq0, id |-> id, first |-> first,
     fences |-> LastRange]

\* Db::close_direct: the run handed to a seal, once there is room.
CloseRun(id, ws) ==
    /\ Room
    /\ run' = 0
    /\ \E first \in BOOLEAN :
          (first => MayBeFirst) /\ frozen' = Append(frozen, RunJob(id, ws, first))

\* Db::leave_direct before a write through the log: the run closes with what it
\* committed (nothing, and it has no file), and what it had not goes before the
\* write into a hashed table.
Hashed(ws) ==
    \/ /\ ~mem.ord /\ UNCHANGED <<run, frozen>>
       /\ mem' = [mem EXCEPT !.log = @ \o ws]
    \/ /\ mem.ord
       /\ mem' = [ord |-> FALSE, log |-> Staged(mem.log) \o ws]
       /\ IF run = 0 THEN UNCHANGED <<run, frozen>>
          ELSE CloseRun(run, Committed(mem.log))

\* Db::direct_can_open, goes_direct: inline is whether the record holds the
\* value.
GoesDirect(k, inline) ==
    /\ mem.ord \/ mem.log = <<>>
    /\ k > maxKey /\ inline

Next1(k, del) == [n |-> Len(hist) + 1, k |-> k, del |-> del]

\* A mutant of Raised: the greatest key left alone by a write through the log.
RaisedNever(k) == maxKey

Raised(k) == IF k > maxKey THEN k ELSE maxKey

\* Db::append_pinned of a key that goes into the run.  Without "gap" the key is
\* not below the last range, where a store reopened over an empty last
\* partition may take one.
Direct(k) ==
    /\ GoesDirect(k, TRUE)
    /\ "gap" \in Loose \/ \A f \in LastRange : f.lo <= k
    /\ hist' = Append(hist, Next1(k, FALSE))
    /\ mem' = [ord |-> TRUE, log |-> Append(mem.log, Next1(k, FALSE))]
    /\ maxKey' = k
    /\ UNCHANGED <<run, frozen>>

\* Db::append_pinned of one that goes through the log.
Append1(k, inline) ==
    /\ ~GoesDirect(k, inline)
    /\ hist' = Append(hist, Next1(k, FALSE))
    /\ Hashed(<<Next1(k, FALSE)>>)
    /\ maxKey' = Raised(k)

\* Db::put: a tombstone and a value, through the log.
Put(k) ==
    LET t == Next1(k, TRUE)
        w == [n |-> t.n + 1, k |-> k, del |-> FALSE]
    IN /\ Len(hist) + 1 < MaxWrite
       /\ hist' = hist \o <<t, w>>
       /\ Hashed(<<t, w>>)
       /\ maxKey' = Raised(k)

\* Db::delete, which leaves the greatest key as it is.  Without "del" no key
\* above it is deleted.
Delete(k) ==
    LET t == Next1(k, TRUE) IN
    /\ "del" \in Loose \/ k <= maxKey
    /\ hist' = Append(hist, t)
    /\ Hashed(<<t>>)
    /\ UNCHANGED maxKey

Writes ==
    /\ phase = "up" /\ Len(hist) < MaxWrite
    /\ \E k \in Key : \/ Direct(k)
                      \/ \E inline \in BOOLEAN : Append1(k, inline)
                      \/ Put(k)
                      \/ Delete(k)
    /\ UNCHANGED <<phase, com, prom, log, shape, tmps, nextSeg, fails>>

-----------------------------------------------------------------------------
(* The writer's commits, syncs and seals.                                     *)

\* The policy's answer at u commits unsynced.
Due(u) == u >= SyncEvery

\* A mutant of Left: the count not reset by the sync.
LeftOwed(u) == u

Left(u) == IF Due(u) THEN 0 ELSE u
Promise == prom' = IF SyncEvery = 1 THEN Len(hist) ELSE prom

\* Db::commit_direct of a batch: the run's file, made by the first, holds the
\* whole table, and the policy's sync is of this file.
RunId == IF run = 0 THEN nextSeg ELSE run
CommitDirect ==
    LET old == {t \in tmps : t.id = run}
        dur == IF Due(unsynced + 1) THEN Len(mem.log)
               ELSE Max({0} \cup {t.dur : t \in old})
    IN /\ Staged(mem.log) # <<>>
       /\ tmps' = (tmps \ old) \cup {[id |-> RunId, recs |-> mem.log, dur |-> dur]}
       /\ nextSeg' = IF run = 0 THEN nextSeg + 1 ELSE nextSeg
       /\ com' = Len(hist)
       /\ UNCHANGED <<wal, walDur>>

\* What is staged of a hashed table to the log, synced when u commits are due.
CommitLog(u) ==
    /\ wal' = wal \o Staged(mem.log)
    /\ walDur' = IF Due(u) THEN Len(wal') ELSE walDur
    /\ com' = Len(hist)
    /\ UNCHANGED <<tmps, nextSeg>>

\* Db::commit.
Commit ==
    /\ phase = "up"
    /\ IF mem.ord THEN CommitDirect /\ run' = RunId
       ELSE CommitLog(unsynced + 1) /\ UNCHANGED run
    /\ unsynced' = Left(unsynced + 1)
    /\ Promise
    /\ UNCHANGED <<phase, hist, mem, maxKey, frozen, covered, shape, fails>>

\* Db::sync: the log synced whatever the policy left, and a run's file left to
\* the policy.
Sync ==
    /\ phase = "up"
    /\ \/ /\ mem.ord /\ CommitDirect /\ run' = RunId
       \/ /\ mem.ord /\ Staged(mem.log) = <<>>
          /\ UNCHANGED <<wal, walDur, tmps, nextSeg, com, run>>
       \/ /\ ~mem.ord /\ CommitLog(SyncEvery) /\ UNCHANGED run
    /\ unsynced' = 0
    /\ prom' = Len(hist)
    /\ UNCHANGED <<phase, hist, mem, maxKey, frozen, covered, shape, fails>>

\* Db::seal of an ordered table: what is staged commits, and the run closes.
SealRun ==
    /\ phase = "up" /\ mem.ord
    /\ \/ CommitDirect /\ unsynced' = Left(unsynced + 1) /\ Promise
       \/ /\ Staged(mem.log) = <<>>
          /\ UNCHANGED <<wal, walDur, tmps, nextSeg, com, unsynced, prom>>
    /\ CloseRun(RunId, mem.log)
    /\ mem' = [ord |-> FALSE, log |-> <<>>]
    /\ UNCHANGED <<phase, hist, maxKey, covered, shape, fails>>

\* Db::seal of a hashed table, and seal_table: the live partitions' fences, ids
\* for a piece of each, and the log's end.
SealTable ==
    LET u == IF Staged(mem.log) = <<>> THEN unsynced ELSE unsynced + 1
        fs == Fences(Parts(segs))
    IN /\ phase = "up" /\ ~mem.ord /\ mem.log # <<>> /\ Room
       /\ wal' = wal \o Staged(mem.log)
       /\ walDur' = IF Due(u) THEN Len(wal') ELSE walDur
       /\ unsynced' = Left(u)
       /\ com' = Len(hist)
       /\ Promise
       /\ \E first \in BOOLEAN :
             /\ first => MayBeFirst
             /\ frozen' = Append(frozen,
                    [log |-> mem.log, tmp |-> 0, seq |-> covered + Len(wal'),
                     fences |-> fs, id |-> nextSeg, first |-> first])
       /\ nextSeg' = nextSeg + Max({1, Cardinality(fs)})
       /\ mem' = [ord |-> FALSE, log |-> <<>>]
       /\ UNCHANGED <<phase, hist, maxKey, run, covered, shape, tmps, fails>>

-----------------------------------------------------------------------------
(* The segment work: one thread, whose steps come one after the other.        *)

Busy == UNION {m.inputs : m \in merges \cup tier}

\* The files of runs whose segment the manifest names: unlinked before the
\* thread does anything else.
LandedTmps ==
    {t \in tmps : t.id # run /\ \A i \in DOMAIN frozen : frozen[i].tmp # t.id}
Working == phase = "up" /\ LandedTmps = {}

\* The oldest seal's landing: its segments published, then named by a durable
\* manifest with the log records they cover, which retire.
LandedSegs(j) ==
    LET ps == IF j.tmp # 0 THEN {RunPiece(j.fences, j.seq, j.id, j.log)}
              ELSE CutAt(j.fences, j.seq, j.id, Chains(j.log))
    IN IF j.first /\ \A p \in ps : ~HasTomb(p)
       THEN {Promoted(p, Whole) : p \in ps} ELSE ps

LandSeal ==
    LET j == Head(frozen)
        gone == j.seq - covered
    IN /\ Working /\ frozen # <<>>
       /\ segs' = segs \cup LandedSegs(j)
       /\ frozen' = Tail(frozen)
       /\ covered' = j.seq
       /\ wal' = SubSeq(wal, gone + 1, Len(wal))
       /\ walDur' = Max({0, walDur - gone})
       /\ UNCHANGED <<phase, hist, com, prom, mem, maxKey, run, unsynced, tmps,
                      merges, tier, nextSeg, fails>>

Unlink ==
    /\ phase = "up" /\ LandedTmps # {}
    /\ tmps' = tmps \ LandedTmps
    /\ UNCHANGED <<phase, hist, com, prom, tables, log, shape, nextSeg, fails>>

\* Maint::start_compact over the segments S: not beside as many merges as may
\* run, nor beside one that holds its ranges or a piece of them.
StartCompact(S, given) ==
    LET fs == ResolveFences(Fences(Parts(S)), Fences(Pieces(S)), given)
        inputs == IF given = {} THEN S ELSE Covered(S, fs)
        m == [inputs |-> inputs, fences |-> fs, seq |-> covered]
    IN IF \/ merges # {} /\ (given = {} \/ Cardinality(merges) >= MergeParallel)
          \/ \E o \in merges : MergesMeet(o, inputs, fs)
       THEN UNCHANGED merges ELSE merges' = merges \cup {m}

\* Maint::maybe_compact_at before the first partitioning: fits is whether a lone
\* piece's file fits a partition.
PlanFirst(trigger) ==
    /\ Parts(segs) = {} /\ segs # {} /\ Cardinality(segs) >= trigger
    /\ \E fits \in BOOLEAN :
          \/ PromotableAll(segs, Busy, fits)
             /\ segs' = PromoteAll(segs) /\ UNCHANGED merges
          \/ ~PromotableAll(segs, Busy, fits)
             /\ StartCompact(segs, {}) /\ UNCHANGED segs

\* And after it: the due ranges promoted where they can be, and the first of
\* the rest, as many as cap_due's bytes allow, merged.
PlanRanges(trigger) ==
    LET held == UNION {m.fences : m \in merges}
        due == {f \in MergeDue(segs, trigger) :
                    MergeParallel > 1 => \A g \in held : ~Overlap(f, g)}
        p == PromoteDue(segs, due, Busy)
    IN /\ Parts(segs) # {} /\ due # {}
       /\ segs' = p.segs
       /\ \/ p.rest = <<>> /\ UNCHANGED merges
          \/ \E n \in DOMAIN p.rest :
                StartCompact(p.segs, {p.rest[i] : i \in 1..n})

\* No partition merge starts beside a piece merge.
Plan ==
    /\ Working /\ tier = {}
    /\ \E trigger \in 1..2 : PlanFirst(trigger) \/ PlanRanges(trigger)
    /\ UNCHANGED <<phase, hist, com, prom, tables, log, tier, tmps, nextSeg, fails>>

\* Maint::join_merge: the outputs, cut where the merge's sizes fell, for the
\* inputs.
LandMerge ==
    /\ Working
    /\ \E m \in merges :
          LET fs == IF m.fences = {} THEN {Whole} ELSE m.fences IN
          \E cuts \in SUBSET CutKeys(m.inputs, fs) :
             /\ segs' = (segs \ m.inputs)
                        \cup {Bottom(m.inputs, g, m.seq) :
                                 g \in UNION {Slices(f, cuts) : f \in fs}}
             /\ merges' = merges \ {m}
    /\ UNCHANGED <<phase, hist, com, prom, tables, log, tier, tmps, nextSeg, fails>>

\* Maint::maybe_tier, start_tier: the lowest range with pieces enough that no
\* merge takes.
Tierable(f) == {s \in Pieces(segs) : FenceOf(s) = f} \ Busy

StartTier ==
    LET F == {f \in Fences(Parts(segs)) : Cardinality(Tierable(f)) >= TierPieces}
    IN /\ Working /\ tier = {} /\ TierPieces > 0
       /\ \E f \in F :
             /\ \A g \in F : f.lo <= g.lo
             /\ tier' = {[inputs |-> Tierable(f), fence |-> f, id |-> nextSeg]}
       /\ nextSeg' = nextSeg + 1
       /\ UNCHANGED <<phase, hist, com, prom, tables, log, segs, merges, tmps, fails>>

\* Maint::join_tier.
LandTier ==
    /\ Working
    /\ \E t \in tier : segs' = (segs \ t.inputs) \cup {Tiered(t.inputs, t.fence, t.id)}
    /\ tier' = {}
    /\ UNCHANGED <<phase, hist, com, prom, tables, log, merges, tmps, nextSeg, fails>>

-----------------------------------------------------------------------------
(* A crash, and the open after it.                                            *)

Held0(W, T, S) ==
    Range(W) \cup (UNION {Range(t.recs) : t \in T})
    \cup (UNION {Range(s.c[k]) : s \in S, k \in Key})

\* A kill keeps the log's file as written; a power loss may keep only what was
\* synced.  Either may take what of a run's file no sync covers: the writer
\* gives it to the file a buffer at a time.
Crash(kept) ==
    /\ phase = "up" /\ fails < MaxFail
    /\ fails' = fails + 1
    /\ phase' = "down"
    /\ wal' = SubSeq(wal, 1, kept)
    /\ walDur' = kept
    /\ \E whole \in SUBSET tmps :
          tmps' = whole \cup {[t EXCEPT !.recs = SubSeq(@, 1, t.dur)] : t \in tmps \ whole}
    /\ LET was == Held0(wal, tmps, segs) \cup Range(mem.log)
                  \cup (UNION {Range(frozen[i].log) : i \in DOMAIN frozen})
       IN \E lost \in {was \ Held0(wal', tmps', segs)} :
             hist' = Subsequence(hist, {i \in DOMAIN hist : hist[i] \notin lost})
    /\ com' = Len(hist')
    /\ mem' = [ord |-> FALSE, log |-> <<>>] /\ run' = 0 /\ frozen' = <<>>
    /\ maxKey' = 0 /\ unsynced' = 0 /\ merges' = {} /\ tier' = {} /\ nextSeg' = 1
    /\ UNCHANGED <<prom, covered, segs>>

\* Db::open over the file of a run: one whose id is live landed and was not
\* unlinked, and one that holds a commit becomes a piece over the last range.
RecoverRun ==
    /\ phase = "down"
    /\ \E t \in tmps :
          /\ tmps' = tmps \ {t}
          /\ \/ (t.recs = <<>> \/ \E s \in segs : s.id = t.id) /\ UNCHANGED segs
             \/ /\ t.recs # <<>> /\ \A s \in segs : s.id # t.id
                /\ segs' = segs \cup {RunPiece(LastRange, covered, t.id, t.recs)}
    /\ UNCHANGED <<phase, hist, com, prom, tables, log, merges, tier, nextSeg, fails>>

\* The rest of the open: the log replayed into a hashed table, the greatest key
\* and the next id taken from what is there.
MaxKeyOf(S, ws) ==
    Max({0} \cup (UNION {Keys(s.c) : s \in S}) \cup Keys(Chains(ws)))

Opened ==
    /\ phase = "down" /\ tmps = {}
    /\ phase' = "up"
    /\ mem' = [ord |-> FALSE, log |-> wal]
    /\ maxKey' = MaxKeyOf(segs, wal)
    /\ nextSeg' = Max({0} \cup {s.id : s \in segs}) + 1
    /\ UNCHANGED <<hist, com, prom, run, frozen, log, shape, tmps, fails>>

Next ==
    \/ Writes \/ Commit \/ Sync \/ SealRun \/ SealTable
    \/ LandSeal \/ Unlink \/ Plan \/ LandMerge \/ StartTier \/ LandTier
    \/ \E kept \in {walDur, Len(wal)} : Crash(kept)
    \/ RecoverRun \/ Opened

Spec == Init /\ [][Next]_vars

-----------------------------------------------------------------------------
(* Every variable keeps its type; a table, a run and a job hold only what was *)
(* written, and a commit has left no more batches unsynced than it may.       *)
TypeOK ==
    /\ phase \in {"up", "down"} /\ com \in 0..Len(hist) /\ prom \in Nat
    /\ Range(hist) \subseteq Write
    /\ mem.ord \in BOOLEAN /\ Range(mem.log) \subseteq Range(hist)
    /\ maxKey \in 0..MaxKey /\ walDur \in 0..Len(wal)
    /\ Len(frozen) <= FrozenCap
    /\ Cardinality(merges) <= MergeParallel /\ Cardinality(tier) <= 1
    /\ unsynced < SyncEvery

\* A read of the committed writes answers a key's values since its newest
\* tombstone, in the order they were written, wherever they are by then.
ReadsRight ==
    phase = "up" =>
        LET held == Append([i \in DOMAIN frozen |-> frozen[i].log],
                           Committed(mem.log))
            c == Chains(Committed(hist))
        IN \A k \in Key : Read(segs, held, k) = Live(c[k])

\* The partitions tile the key space after every landing and promotion.
Tiles == PartitionsTile(segs)

\* What a merge in flight takes is live until it lands, holds no key outside the
\* ranges it writes, and is no other merge's.
MergesWhole ==
    \A m \in merges \cup tier :
        /\ m.inputs \subseteq segs
        /\ \A o \in (merges \cup tier) \ {m} : m.inputs \cap o.inputs = {}
        /\ m \in merges /\ m.fences # {} =>
              \A s \in m.inputs : \A k \in Keys(s.c) :
                 \E f \in m.fences : f.lo <= k /\ k < f.hi

\* What a crash leaves is the history's first writes, and all that were promised.
PrefixKept ==
    /\ \A i \in DOMAIN hist : hist[i].n = i
    /\ prom <= Len(hist)
=============================================================================
