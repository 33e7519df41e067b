# supdb: a TLA+ model of the store

supdb is an embedded key-value store in one Rust crate (`src/src/`). One writer
appends batches to a write-ahead log and a memory table; background threads seal
tables into segment files, land them in a manifest and merge them; readers follow
one atomic pointer to a published state and take no lock. This directory models
the parts of it whose correctness depends on an order of steps: what is on the
device when the power fails, what a landing publishes and when, where a write is
after seals, merges and promotions have moved it, what a scan sees beside the writer
and its helpers, and what may be freed while a reader walks it.

Line numbers are those of `src/src/db.rs` unless another file is named.
`PROJECT.json` holds the same facts for tools: the component list, the runs, the
source lines of every definition, the hazards and the theorems.

## 1. The system

### Components

| component | state it keeps | operations | where |
|---|---|---|---|
| Write-ahead log | numbered `wal-` files, their header kind (chained or loose), the live file's sequence and synced length, closed and loose files, commits since the last sync | commit, sync, rotate (by size or by a seal), retire, recycle, replay | `Wal`, `Db::commit`, `Db::sync_wal`, `Db::rotate_wal`, `Db::open` |
| Seals, landings and the manifest | frozen tables, the queue of seal jobs, the manifest's two slots and sequence, an owed slot sync, the segment id counter, the wedge flag | seal, land readable, land durable, publish, drain, retire the log, open | `Db::seal_table`, `Maint::*`, `manifest_*` |
| Hand-over of tables | the published state (live table, frozen tables, segments), the handed table, the count of seals in flight, the wedge flag, the error left for the writer | put, commit, sync, seal, flush; freeze, hand, land | `Db::take_fresh_mem`, `hand_tail`, `land_seal`, `freeze_table`, `Maint::publish_segs_with` |
| Compaction | merges in flight, their inputs and outputs, fences of the ranges | plan, merge, tier, promote, land | `Maint::maybe_compact_at`, `promote_ranges`, `start_compact`, `join_merge`, `start_tier` |
| Readers, pins and reclamation | the epoch, one slot per handle, lists of replaced things | claim, pin, unpin, bump, retire, sweep | `Readers`, `RetireList`, `retire_state` |
| Direct ingest | an open run with its greatest key | put above the greatest key, close the run, recover it | `Db::commit_direct`, `close_run` |
| Memory table and staged batches | entries, their chains in an arena, an index, a write log, two marks and the number that names one | append, put, delete, commit | `MemTable` |
| Read path | a handle's bounds, snapshot of the unsealed keys and blocks; the state's shared snapshot, forms, their position and completeness | get, scan, snapshot, release; the upkeep thread's passes | `Reader`, `db/blocks.rs` |
| Compact page form | a second form of a segment's pages and whether it is attached | encode, attach, detach, decode | `db/zfile.rs`, `db/zpages.rs`, `db/zlz4.rs` |
| Its controller | per-range modes from measured rates | sample, switch | `db/zselect.rs` |
| Segment, block and index formats | bytes | build, search | `blob.rs`, `block.rs`, `flatindex.rs`, `ordindex.rs`, `index.rs` |
| Reserved address ranges, wasm binding, benchmarks | | | `reserve.rs`, `wasmapi.rs`, `bench/` |

### How they interact

The **writer** (`Db`, one thread at a time) appends a batch to the log, inserts it
in the live table and advances the watermark readers see. When the table is full,
or a `flush` asks, it swaps a new table in and hands the old one to a **seal
thread** with what the log files behind it are. The seal thread writes a segment
and reports twice: the file is named and readable, and later its fsyncs have
returned. The **segment work** (`Maint`, one thread) collects the reports in the
order of the seals, swaps the frozen table for its segment in the published state
(readable phase), writes and syncs a manifest slot once the segment is durable, and
then retires the log files the manifest covers. Merges run on their own threads
and end in a publish of the segment work. A `flush` sends a drain and parks until
it is answered. **Readers** pin an epoch in a slot, load the state and read; what a
publish replaces goes on a retire list under an epoch and is freed by whichever
thread sweeps, once no pin is older.

### What is hard, and what correctness means

- *Log.* A loose rotation makes no barrier, so a power loss may keep a later file's
  records and lose an earlier one's tail. The replay must tell that from a missing
  durable record. Correct: what a failure leaves is a prefix of the commits with
  nothing promised missing; no log is refused; a killed process loses nothing;
  the loss bound of the sync policy is the writer's own counter.
- *Landing.* Three threads and the device: a manifest must name only durable
  segments, though other seals and merges publish between a seal's two phases; the
  log is retired only behind a durable slot; every batch has one home in every
  published state; a flush is answered and a stalled writer let go whatever fails.
- *Hand-over.* The writer and the segment work replace tables in one pointer by
  compare-and-swap, and the writer tells a landing to come from one that failed by a
  count, a flag and an error it reads one after the other. Correct: every committed
  write has one home, a landing finds its table, no error is false, every call
  returns, a batch reported as committed is whole.
- *Reclamation.* The pin's store may reach the sweeping thread late; only one side
  fences. Correct: nothing held is freed, nothing retired is lost or freed twice.
- *Merges and direct ingest.* Segments are moved by merges, renamed by promotions and
  written past the log, each decided from a state that others change. Correct: a read
  sees for each key its committed values since the newest tombstone, wherever they
  are; the partitions tile; a merge in flight keeps what it took; a crash leaves a
  prefix of the writes with nothing promised missing.
- *Scans.* A handle bounds its reads by three words of a commit and shares sorted
  keys and built blocks with the writer's upkeep, which runs ahead of it. Correct:
  every read is of one commit, and of all of it, whoever built what it walks.

The hazards are listed one by one, at the line where they bite, in `PROJECT.json`.

## 2. Plan

Order: what decides whether data survives, then what decides whether memory is
safe, then what decides whether reads are right.

1. `Wal` with its abstract `DurableLog`, and its theorems in `WalProofs` (done).
2. `Landing`: seals, manifest, merges as publishes, flush, failures, open (done);
   its theorems in `LandingProofs` and `LandingSafe` (done).
3. `Readers`: pins and reclamation, and its theorems in `ReadersProofs` (done).
4. `Handoff`: how the writer takes and hands tables by compare-and-swap against
   the segment work's publishes, and its waits; its theorems in `HandoffProofs` (done).
5. `Shape` and `Ingest`: what segments hold and how reads, merges and promotions use
   it; the writes, direct runs, seals, merges and crashes that move it; their theorems
   in `IngestProofs` (done).
6. `Scans`: the memory table store by store, commits, scans through the block cache
   and the upkeep thread's forms; its theorems in `ScansProofs` and `ScansForms` (done).
7. The compact form's attach and detach protocol and the controller's modes.
8. Search structures (`flatindex`, `ordindex`, block search) as functions against a
   reference definition over bounded inputs.

Option settings are constants; stores that differ in them share a run through an
instance each, picked by `Init` (`MCWalAll`, `MCLandingAll`, `MCLandingKill`, `MCIngest`, `MCScans`).

Theorems next in line: of `Ingest`'s `ReadsRight` the part that can be told without
induction over sequences of writes, that no committed live value is missing from a read.

## 3. The modules

### Wal, DurableLog

A batch, its record frames and its commit frame, is written by one call and
replayed whole or not at all; it is one frame of the model, with the id of the file
whose checksum seed it was written under, its sequence and its content. A file has
what the page cache holds (`frames`, `hdr`) and what the device may hold (`dur`
frames, one of `hdrs`); its name has a directory entry that is durable or not, and a
removal that is durable or not (`lingers`).

| code | actions |
|---|---|
| `Db::commit` | `Commit`, then the steps of a sync and of a rotation where the policy or the size asks |
| `Db::sync`, `sync_wal` | `Sync`, `WalDirBarrier`, `SyncLoose`, `Chain`, `SyncLive`, or `SyncFails` at any of them |
| `Db::rotate_wal` | `RotateWal`, `NoRotation`, `NewDirBarrier` |
| `Db::seal_table` | `Seals`, `HandSeal` |
| `Maint::land_durable`, `retire_covered` | `LandDurable`, `RetireWal` (one file at a time; recycled or removed) |
| `Db::open`, `Wal::replay`, `Wal::open_append` | `OpenStart`, `ReplayFile` per file, `OpenEnd` |
| environment | `Kill` (page cache kept), `PowerLoss` (any part of what is not durable lost) |

`DurableLog` is the log with no files: commits append, a sync promises what is
there, a failure followed by recovery leaves a prefix with nothing promised
missing. `KeepsPromises` is that specification under `log <- hist`,
`promised <- acked`, `up <- (phase = "up")`.

### Landing

The log is the interval of batches it still holds; a segment is the set of batches
in it; a frozen table is named by the segment its seal will make. A slot has the
content the page cache holds and the set of contents the device may hold; a write
adds the new content (and a torn one, where tearing is allowed), an fsync leaves
one.

| code | actions |
|---|---|
| `Db::commit`, `seal_table`, `flush`, `land_seal` | `Write`, `SealTable`, `Flush`, `SealRefused` |
| the seal thread | `SealNames` (file written and named), `SealSyncs` (fsyncs returned), `SealThreadFails` |
| `Maint::land_readable` | `LandReadable`; `WritePending`, `LandPending` where names are pending; `LandFailed` for `land_front`'s error arm |
| `Maint::land_durable`, `publish`, `publish_unsynced` | `LandNamed`, `LandDurable`, `LandDeferred`, `PublishSync`, `PublishFails`; `SyncOwedSlot` |
| merges | `StartMerge`, `MergeDone`, `LandMerge` |
| a drain | `DrainTaken`, `DrainJoins`, `DrainAnswer` |
| `Maint::stop`, failures, `Db::open` | `Stop`, `Kill`, `PowerLoss`, `Open`, `OpenSyncs` |

`mpc` is where the one segment-work thread stands between a slot's write and its
fsync; its other handlers are one step each, since only that thread changes the
state they read, apart from the frozen list and the queue's reports, which the
writer and the seal threads change by steps of their own.

An open whose only valid slot has pending names that are not whole falls back to a
scan of the directory (phase `"scanned"`), as for a store older than manifests:
`NeverRefused` says it never comes to that.

### Handoff

`Landing` takes the landing's publish for one step of the segment work. `Handoff`
opens that step: loads and swaps of the state pointer are steps of their own, and so
is every read of `in_seal`, of the state, of `maint_err` and of `seal_wedged` in the
writer's two waits. A batch is two writes, so that one of them can be dropped. There
is no crash and no manifest in it.

| code | actions |
|---|---|
| `put`, `append`, `delete`, `writes_go` | `Put`, `PutGoes` |
| `commit`, `sync`, `seal`, `flush` | `Commit`, `Sync`, `Seal`, `SealCommits`, `Answered` |
| `take_fresh_mem`, `land_seal` | `ReadCount`, `ReadState`, `AskErr`, `AskWedged`, `LastErr` |
| `freeze_table`, `try_publish_writer_away` | `Freeze`, `FreezeSwap` |
| `seals_first_partition`, `hand_seal`, `hand_tail` | `FirstCount`, `HandSeal` |
| the seal thread | `SealNames`, `SealSyncs`, `SealThreadFails` |
| `land_front_readable`, `land_front`, `publish_segs_with` | `LandReadable`, `LandSwap`, `LandFails`, `FrontFailed`, `LandDurable`, `CountOut`, `SetWedged`, `PutErr` |
| `collect`'s merge error, `shape_if_read`, a drain | `MergeFails`, `Promote`, `DrainTaken`, `DrainAnswer` |

The seal queue and the channel to it are one sequence. A merge's publish makes a
state equal in what the model keeps of it, so it is not a step. The inline segment
work (`MaintHome::Here`), where nothing runs beside the writer, is left out.

### Readers

Each thread has a slot and a buffer of stores to it that have not reached memory. A
fenced store empties the buffer; a plain one is appended; `Drain` lets the oldest
out at any time; the sweep's `membarrier` empties each thread's buffer at a moment
between its call and its return (`SyncPins`). All other memory is sequentially
consistent. The module follows one pointer and its list: the state, a snapshot or a
canonical form, which differ in how they tag and bump (`style`); publishes of the
other pointers are bumps of the epoch (`BumpElsewhere`). `asym` is
`Options::asym_pins` as the kernel allows it. Both are chosen in `Init`.

| code | actions |
|---|---|
| `claim_in`, `release`, `pin`, `unpin` | `Claim`, `Release`, `PinLoad`, `PinStore`, `PinCheck`, `Unpin` |
| a pointer followed | `Load` |
| `publish_segs_with` and the like | `Swap`, then `BumpTag` (state) or `PeekTag` (snapshot, form), `Push`, `BumpAfter` |
| `RetireList::sweep` | `Sweep`, `Take`, `WalkPins` per slot, `OldestFor`, `SyncPins`, `FreeOld` |

### Shape, Ingest

`Landing` follows batches; these follow keys. `Shape` has no state: it says what a
table or a segment holds of a key (its chain of writes, tombstones among them), the
order segments are read in, how a read routes, what a seal cuts, what a merge takes
and leaves, and what a promotion renames. `Ingest` is the state machine over it: one
writer whose writes go through the log and a hashed table, or straight into a run
for keys above the store's greatest. A piece has its fence, its sequence and its id; a
run's fence is its name's and cuts nothing, which is what the code relies on.

| code | actions |
|---|---|
| `append_pinned`, `put`, `delete`, `leave_direct` | `Direct`, `Append1`, `Put`, `Delete` (`Hashed` closes the run) |
| `commit`, `commit_direct`, `commit_staged`, `sync` | `Commit`, `Sync` |
| `seal`, `seal_table`, `close_direct`, `close_run` | `SealTable`, `SealRun` |
| `land_front`, `retire_covered` | `LandSeal`, `Unlink` |
| `maybe_compact_at`, `promote_*`, `start_compact`, `join_merge` | `Plan`, `LandMerge` |
| `maybe_tier`, `start_tier`, `join_tier` | `StartTier`, `LandTier` |
| `Db::open`, `recover_direct`, `max_key_of` | `RecoverRun` per file, `Opened` |
| environment | `Crash` (the log as written, or as synced; a run's file at any synced length or whole) |

A landing's publish and its durable manifest are one step, `Landing` being about what
is between them; the unlinking of a run's file is a step after it, so that a crash
falls between. A commit's write and its sync are one step. Where a merge's output is
cut and how many due ranges it takes depend on bytes in the code and are any choice
here. A merge's outputs take the id 0: no run's file has it. The hand-over of a
partial table by `sync` is `Handoff`'s, and a seal here.

### Scans

One live table over one partition that is one block a key. The writer's stores that
another thread can see are a step each: the head of a chain, a new entry, a put's
second chunk, the index, the write log, and the three words and the number of a
commit; so are a handle's loads of them. A value is its place in the arena.

| code | actions |
|---|---|
| `MemTable::write`, `put`, `new_entry`, `index_insert`, `log_write` | `Link`, `Create`, `PutHead`, `IndexInsert`, `LogWrite` |
| `MemTable::commit`, `hand_over_upkeep` | `CommitStore` (a word each), `CommitMark` |
| `Reader::enter`, `snapshot`, `committed_at` | `Enter`, `LoadWord`, `CheckMark` |
| `Reader::scan`, `sync_log`, `refresh_snapshot_to`, `scan_blocks` | `Look`, `Snap`, `LoadAt`, `LoadComplete`, `Walk` per block, `Again`, `Leave` |
| `upkeep_pass`, `fill_forms`, `rebase_tables`, `complete_forms`, `publish_dirty` | `PassBegin`, `PassLook`, `PassSnap`, `PassFill`, `PassPublish` per block, `PassComplete`, `PassAt` |
| `publish_for_handle` | `Claim`, then the steps of a pass but the fill, the writer waiting |
| `drop_blocks`, from a failed settle, `abandon_forms` or a failed rebase | `GiveUp` |
| a scan through `Db`, `take_back_upkeep` | `WriterScan` |
| `carry_published`, `publish_segs_with` | `LandCarry` per block, `LandPublish` |

The options are the defaults but for `upkeep_yields`: shared snapshots, no runs in them,
forms made at commits on a background thread and not taken by the writer. How far behind
a snapshot may fall, when a pass is cut short, which forms it drops and how far a fill
gets follow measurements in the code and are any choice here. `Allowed` names what a store
of an instance does of this, by `Happenings`:

| | |
|---|---|
| `"behind"` | a snapshot is replaced before its blocks are |
| `"short"` | a pass stops before its commit, in the log or in the fill, and posts it again |
| `"drop"` | a pass drops forms of the blocks it reads writes for, leaving a mark in each |
| `"writer"` | the writer scans, walking some of the blocks |
| `"claim"` | handles are claimed, and a pass that finds none publishes nothing |
| `"rewrite"` | a landing rewrites the partition: sparse forms become marks in `carry_published`, and `rebase_tables` drops the writer's |
| `"ahead"` | a fill is left to the builder ahead, or to the budget, with some of it done |
| `"giveup"` | every form is dropped at once, with no mark |

A commit whose batch is filed inline, or not at all, is one posted whose pass is over at
once, or never begins (`CommitMark`). A table that is frozen leaves a handle's blocks to be
made again; the freeze is `Handoff`'s and not here, nor is the keeper, nor the builder
ahead beyond what it leaves unfilled.

## 4. The runs

| run | what it checks | bounds |
|---|---|---|
| `wal` | `TypesOK`, `NeverRefused`, `PowerLossCounted`, `KillLosesNothing`, the refinement `KeepsPromises`, `Reopens` | a store of 3 batches in 3 files with 2 power losses, and one of 4 batches in 4 files with seals that rotate and 2 kills; sync every 2 |
| `wal_kill` | `NeverRefused` fails | a kill and then a power loss |
| `landing` | `TypeOK`, `NeverRefused`, `OneHome`, `AckedKept`, `CrashSafe`, `PublishesDurable`, `FlushAnswered`, `NoStall`, `OwedPaid` | a store with its slots synced and one with pending names (2 batches, tearing), and one with the slot's sync deferred (3 batches, slots whole or not at all); 3 segments, 2 faults |
| `landing_kill` | `NeverRefused`, `OneHome`, `FlushAnswered` | a store whose drains defer the slot's sync and one whose drains wait; 2 batches, 3 segments, 2 faults of every kind but power loss |
| `landing_tear` | `NeverRefused` fails | one power loss that tears |
| `landing_fsync` | `NeverRefused` fails | an fsync error and a power loss |
| `handoff` | `TypeOK`, `OldestLands`, `OneHome`, `OkWhole`, `NoFalseAlarm`, `OnePartition`, `CallReturns` | 3 batches of 2 writes, 2 frozen tables, one fault of any kind |
| `handoff_err` | `AllOrNone` fails | the same, one error of a publish or a merge |
| `ingest` | `TypeOK`, `ReadsRight`, `Tiles`, `MergesWhole`, `PrefixKept` | 4 keys, sync always, 2 frozen tables, 2 merges; from an empty store 3 writes, or 2 and a crash; from one reopened over two partitions 3 writes and a crash |
| `ingest_gap` | `ReadsRight` fails | 3 keys, 3 writes on that store |
| `scans` | `TypeOK`, `OneCommit`, `PointRight`, `ScanRight`, `FormsRight`, `Named` | 2 keys, 2 chunks, 2 commits (1 in the third); seven stores: one handle beside a landing, beside passes cut short that drop forms, beside the writer's scans and the claims of others, and beside give-ups; the upkeep alone with all of `Happenings` but `"rewrite"` and `"giveup"`, beside landings that rewrite, and giving up beside those |
| `readers` | `TypeOK`, `NoUseAfterFree`, `RetiredOnce`, `PinsCover` | 3 threads, one replacement, epochs to 2, one buffered store |

**Why the bounds are enough to be interesting.** Three batches in three files put a
loose file before, at and behind a failure with a chained header after it, and the
second failure hits the store the first one's recovery made, the recycled file
included. Three segments are a seal, a second seal behind it and a merge's output,
so that a merge lands between a seal's phases, and `FrozenCap` 1 or 2 is reached.
Two faults put a failure on the recovery from another, or a crash on an error path.
Three batches are a frozen table, one handed behind it and one being written, with
the list full once the handed one is frozen too. Four keys put one partition's fence between written keys with room for a key on both
sides, and three writes over two partitions make a piece, a wide piece after a merge
moved the fences, and a second merge or a promotion beside them. Two commits and a key
that only the second has, over forms that the first has, are what a scan can mix; the
second state is one that a landing carried them to. Three threads are a reader, a publisher and a sweeper that are all different, with
each role taken by any; one replacement with one more epoch is what a late pin can
miss.

**Symmetry.** Only the threads of `Readers` are interchangeable, and that run checks
invariants only. **Deadlock** is checked in every run but those of `Ingest` and `Scans`,
where it is only the bound on writes or chunks reached with nothing in flight.

**Fairness.** `Wal`: weak fairness of the open's steps, which a caller that opens
the store runs in one thread. `Landing`: weak fairness of the segment work as a
whole, of a merge's end and of each seal thread. The segment work is one loop that
polls every report it waits for (`Maint::run`), and the threads run until their work
ends. `Handoff`: the same for the segment work and the seal threads, and weak fairness of a
writer inside a call, which polls and never blocks for good but on a drain's answer.
No call by the caller, no failure and no start of a merge is fair: nothing
makes a caller call. `Readers`, `Ingest` and `Scans` claim no liveness.

### What the violations show

- `wal_kill`. An open counts what it replayed as synced (4166). After a process kill
  that is the page cache, not the device: the older loose file is never synced, the
  next sync chains the live file's header over it, and a power loss then leaves a
  gap the open refuses as a missing durable record.
- `landing_tear`. Under the default options a drain answers with its slot not yet
  synced (37360), and the next publish overwrites the other slot, the only durable
  one. Where a device may tear a slot's write, one power loss can leave no manifest;
  the comment at 2938 says the other slot is the store as the publish before left
  it. On a device that writes the slot whole or not at all `landing` shows the same
  protocol safe.
- `landing_fsync`. A seal whose fsync fails after its segment was published stays
  live (36171), and the next publish names it. The comment at 35669 gives the reason
  no publish may do that.
- `handoff_err`. A write that finds its table handed and an error waiting is dropped
  (27147), and the batch's next write goes into the fresh table. The commit returns
  the error and leaves that write staged (27170); the next commit makes it permanent.
  The repository's README says of a transaction, at line 73, "all of it or none of
  it". `OkWhole` shows what does hold: no batch is reported as committed that is not
  whole. A table is handed only by a `sync` under `adaptive_shape` with the segment work
  on its own thread (28267), and that option is off by default.

- `ingest_gap`. A merge keeps the tiling with a last partition that holds nothing
  (12084). An open takes the greatest key held (27072), which is then below that
  partition; an append between the two goes direct, and the run is named over the last
  range, "above every partition's last key by construction" (27521). A read of the key
  routes to the partition before and the piece's own fence denies it.

### Disagreements met without a run of their own

Each is a hazard in `PROJECT.json`, is kept out of a passing run by the constant
named, and is found by TLC at once when that constant is changed.

- `Loose = {"del"}` in `MCIngest.cfg`: a delete of a key above the greatest does not
  raise it (27124), so a run can start at that key while the table with its tombstone
  is being sealed. After a crash the open makes the run a piece and replays the
  tombstone over it, and the committed value is gone: `ReadsRight` fails. The comment
  at 26942 says "the run's keys lie above the frozen table's".
- `SyncEvery = 2`: `sync` makes "everything written durable" (28239) by syncing the
  log; an ordered table's file is left to the policy (28249): `PrefixKept` fails.
- `Isolations = {"dirty"}` in `MCScans.cfg`: a dirty handle's position is `usize::MAX`
  (17386), as is that of a state no pass has reached, and "no log length equals" it
  (20924): a dirty scan takes forms a pass has half published or a landing carried,
  and misses committed writes: `ScanRight` fails.
- `Isolations = {"latest", "dirty"}`: `set_isolation` (17696) keeps the blocks a dirty
  scan settled staged writes into, and the log has been read past the new bound, so
  nothing settles them again: a latest scan shows "the batch the writer is still
  staging" (14944): `ScanRight` fails.
- `"giveup"` together with `"ahead"`, or with `"writer"` and `"claim"`, in one `Allowed` of
  `MCScans`: a settle that fails drops every table of the writer's (22957), and so does
  `abandon_forms` (20703), and neither marks what was published from them. A pass after it
  that fills every block replaces those forms. One that leaves the fill to the builder
  ahead (22297, the default), or a claim after a scan of the writer's that walked some
  blocks, publishes what is dirty and moves the position over the forms that stayed:
  `FormsRight` fails. The assertion at 23281 says "a block the writer holds no form for
  has none published as the block", and is not reached, for there is no table. `"giveup"`
  alone, with `"writer"` or with `"rewrite"` passes.

Two more are outside what is modelled: a run's file gets no directory fsync of its
own (27389) where the log's files do (27777), and a maintenance error met while a run
is open can leave the ordered table in place for a put or a delete, which assert that
it is not (10242, 10266).

## 5. The proofs

Checked by TLAPS, for every value of the constants that the modules' assumptions
(`WalAssumption`, `LandingAssumption`, `ReadersAssumption`, `HandoffAssumption`,
`IngestAssumption`, `ScansAssumption`) allow: any number of batches, log files, segments, tables, threads, slots, epochs and buffered stores, any caps, all
option settings. Where a theorem has a hypothesis on the constants, the table names it.

| module | theorem | states | hypothesis |
|---|---|---|---|
| `WalProofs` | `LogImplementsPromises` | `KeepsPromises` | `OneKind` |
| | `NoLogRefused` | `[]NeverRefused` | `OneKind` |
| | `PowerLossBounded` | `[]LossCounted` | `Failures = {"power"}` |
| | `KillsLoseNothing` | `[]NothingLost` | `"power" \notin Failures` |
| | `TypeCorrect` | `[]TypeOK` | `OneKind` |
| `LandingProofs` | `TypeCorrect` | `[]TypeOK` | |
| | `PublishesAreDurable` | `PublishesDurable` | `FsyncsReturn` |
| `LandingSafe` | `PowerLossSurvived` | `[]CrashSafe` | `Steady` |
| | `BatchesHaveOneHome` | `[]OneHome` | `Steady` |
| | `PromisesKept` | `[]AckedKept` | `Steady` |
| | `OpensAlways` | `[]NeverRefused` | `Steady` |
| `ReadersProofs` | `NothingFreedUnderAReader` | `[]NoUseAfterFree` | |
| | `PinsAlwaysCover` | `[]PinsCover` | |
| | `EverythingRetiredOnce` | `[]RetiredOnce` | |
| | `WordsStayInRange` | `[]TypeOK` | |
| `HandoffProofs` | `EveryWriteHasOneHome` | `[]OneHome` | |
| | `LandingsInOrder` | `[]OldestLands` | |
| | `OkMeansWhole` | `[]OkWhole` | |
| | `AlarmsAreTrue` | `[]NoFalseAlarm` | |
| | `PartitionsDisjoint` | `[]OnePartition` | |
| | `TypeCorrect` | `[]TypeOK` | |
| `IngestProofs` | `PartitionsAlwaysTile` | `[]Tiles` | |
| | `IngestTypeCorrect` | `[]TypeOK` | |
| | `MergesHoldTheirKeys` | `[]MergesWhole` | `Loose = {}` |
| | `CrashKeepsPromises` | `[]PrefixKept` | `SyncEvery = 1` |
| `ScansProofs` | `BoundsOfOneCommit` | `[]OneCommit` | |
| | `PointReadsRight` | `[]PointRight` | |
| | `TypesHold` | `[]TypeOK` | |
| `ScansForms` | `FormsHold` | `[]FormsRight` | `NoGiveUp` |
| | `ScansGiveTheirCommit` | `[]ScanRight` | `NoDirty`, `NoGiveUp` |
| | `EntriesNamedOnce` | `[]Named` | `NoDirty`, `NoGiveUp` |

Each module has one lemma per action, or per group of actions that leave the same
variables alone, and the invariants below are what they share. Each invariant was run
through TLC before it was proved.

### Wal: the log keeps its promises

`OneKind` says that a store loses power or is killed, and not both: a kill and then a
power loss is `wal_kill`, where `NeverRefused` fails. The policy, the rotation, the
recycling, the seals in flight and the number of failures are free. Run `wal` checks
`LossCounted` of its store that loses power and `NothingLost` of the one that is killed
(`PowerLossCounted`, `KillLosesNothing`), and `TypeOK` of each over its own bounds
(`TypesOK`); the theorems state them of `Wal`'s own `Spec`.

None of the properties is inductive: what an open finds is decided many steps before
the failure, by which barrier had been paid when a file was closed, retired or recycled.
`LogInv` is `TypeOK`, `NeverRefused` and:

| part | says | needed because |
|---|---|---|
| `FrameInv`, `OrderInv` | a file's frames are its own, of batches of the history, in order and past what is covered without a hole; a later file has later batches | a replay applies what it reads, in file order |
| `OldInv`, `HdrInv` | what a recycled file kept of its former life is of an older file; a file with no header has no frame | the replay stops at the first frame under another id's seed |
| `AnchorInv` | some file that outlives a power loss begins no later than what is covered, and everything retired, recycled or removed and not yet durably so is older than it | a removed name that comes back must hold only covered batches |
| `HistInv` | the manifest's segments are the history up to what is covered; promised and uncounted batches are in it | the open starts from the segments |
| `SealInv`, `QueueInv` | a seal ends where a file may begin, and retires only older files, each queued once | its landing moves the anchor there |
| `UpInv` | the live file is the last, and all the history past what is covered is in some file | a sync promises all of it |
| `PcInv` | what each barrier of `sync_wal` leaves paid when the next begins | the header is chained, and the batch promised, on the strength of the ones before |
| `DurInv` | of an open store the device holds all but the live file's tail, the files of `loose_wals` and the names the directory owes; before a file whose header may be chained it holds everything; a batch not counted in `unsynced` is on it | this is what a power loss leaves |
| `RestInv`, `DownInv` | after a failure the first gap is at a file whose header is loose, nothing promised is missing, and after a kill nothing at all | the replay ends the log there and does not refuse it |
| `ReplayInv` | the batches recovered are the history up to `from`, and the files read hold nothing past it | `Recover` of the abstract log |
| `KillInv` | without power losses the history is every batch in order | `NothingLost` |

The argument turns on `DurInv` and `DownInv`. A header says chained only where every
older file is whole on the device, so after a power loss a gap can only lie before a
loose header, and what is past it was never promised. Ending the log there removes the
later files without a barrier, and `Ended` carries what that owes until the open's own
fsync: should power be lost before it, any of them may be back.

The refinement maps `Commit` to the abstract commit, `Sync` and `SyncLive` to the
abstract sync, `Kill` and `PowerLoss` to its failure and `OpenEnd` to its recovery with
`from - 1` batches; every other step leaves the abstract log as it is.

### Landing: publishes are durable

`FsyncsReturn` says that names are not pending and that no fsync of a file or of a
directory reports an error. Both are needed: pending names are the option that gives
the rule up, and `landing_fsync` breaks it with one failed fsync.

The rule is not inductive. A publish names the live set less a segment between its
phases, so the invariant `DurableInv` says why every other live segment is durable:

| part | says | needed because |
|---|---|---|
| `SegsDurable` | a live segment is durable, unless it is that of the seal between its phases | this is what a publish names |
| `QueueInv` | what each seal's report says of its files, that only the front's table has retired, and that no two seals write one segment | the durable phase ends `Between` on the report alone |
| `MergeInv` | a merge works from live segments to one that is not; a finished output is durable; what a publish unlinks is nobody's | a merge's landing adds its output to the live set |
| `IdsUsed` | the id counter is past every id in use | a new seal or merge must not write a durable segment's file |
| `SlotInv` | the newest slot names durable segments; once down, either everything the page cache has is durable or that holds | an open makes the slot's names live again |
| `NoPending`, `FileNames` | no slot flags a name; a durable entry is a name | the open's choice of a slot, and the removal of files |

### Landing: a power loss is survived

`Steady` says that names are not pending, that the faults are power losses, torn slots,
failed writes and failed landings, and that a store that defers its slot syncs is one
that syncs every commit and tears no slot. These are the stores run `landing` has
under `"slots"` and `"defer"`, taken together and without their bounds. What it leaves
out breaks the properties or has its own run: a kill followed by an open leaves slots
and segments that only the page cache has, which a later power loss may take
(`landing_kill` has the kill alone), a failed fsync is `landing_fsync`, and a torn slot
under deferred syncs `landing_tear`.

`SafeInv` has `TypeOK` and `DurableInv` above, and:

| part | says | needed because |
|---|---|---|
| `LogInv` | the log's marks are in order; under `Always` all of it is durable; nothing durable is torn | an open replays from `walLow` to `logDur` |
| `RunInv` | the seals in flight take up the batches past what is covered, in order and without a gap, and the live table those past them | the front's landing moves `covered` to its own end |
| `ShareInv` | live table, frozen tables and segments share the batches out; a merge's output has what its inputs have | `OneHome`; and `Holds` of the next manifest |
| `DrainInv`, `RestInv` | what a drain waits for, and what a stopped process has under way | an answered drain promises all of the log |
| `NowInv` | the newest slot: its sequence, and that it covers what the store covers except between a seal's phases | the log is retired on its word |
| `SeqInv` | a sequence has a slot of its own, on the device as well | a write of the next manifest leaves the last one alone |
| `FloorInv` | there is a slot of which the device holds nothing older than some sequence, and every manifest from that sequence on, in either slot, is good | of what a power loss may leave, the open takes the newest |

The argument turns on `FloorInv`. A publish writes the slot that is not the floor, so
whatever becomes of the write the floor is still there to be taken; its sync makes the
new slot the floor; and only then does the log retire, and are the files of replaced
segments unlinked, on the strength of it. `CrashSafe` is the floor's goodness read off
at any instant.

### Readers

`NoUseAfterFree` says nothing of why a sweep that frees a thing has seen the pin of a
thread that holds it. `PinnedInv` does:

| part | says | needed because |
|---|---|---|
| `OwnInv` | a slot has one owner and is never free while it has; only an owner has stores on their way | a claim takes a slot by its value alone |
| `PinInv` | a thread inside an operation is pinned, in memory or by its last buffered store, at an epoch no later than the one that stands; without `asym`, in memory | the sweep compares a tag with the pin |
| `OldInv` | what is retired is older than what the pointer leads to | a load never adds a retired thing |
| `TagInv` | a thread that holds a retired thing is pinned below its tag, from the tagging to the sweep's hands | this is what a walk that reads the pin compares |
| `SweepInv` | a sweep past the barrier finds the pin of every holder in memory, and its walk has read it or has yet to | `FreeOld` trusts one walk |
| `HeldInv` | nothing held is freed | the property |

The argument turns on one lemma, `HoldsStill`: a thread that holds a replaced thing after
a step held it before, under the same pin, however many of its stores reached memory
meanwhile (`StillDrain`, `StillFlush`). A tag is the epoch after one that stood when the
thing was already out of the pointer, so it is above the pin of everyone who holds it,
whether or not the bump has happened yet.

`RetiredOnce` counts places, so it needs that no place counts a thing twice. `WayInv`:
`BusyInv`, where in its code a thread may have something swapped out or in hand (else a
step that starts over would drop it); `AloneInv`, one thread, one tag, one sweep per
thing; `ApartInv`, no thing in two kinds of place; `KeptInv`, every replaced thing in
one. The last step is that a set of tagged things with one tag each has the cardinality
the property counts.

`TypeOK` bounds the epoch, which several threads may owe a bump at once. `RoomInv` counts
them: the epoch and the bumps owed together are within `MaxEpoch`, since a step that
takes on a bump asks for room first. The rest of `TypeOK` follows from it and `PinInv`.

### Handoff

The writer and the landing swap one pointer (`st`) and read each other's counts and
flags a moment apart. `HandInv` is `TypeOK` and:

| part | says | needed because |
|---|---|---|
| `TabsInv` | every table made is exactly one of the live one, a frozen one and a segment | a swap moves a table from one to the next |
| `ContInv`, `RoomInv` | a write is in one table; a table is made only for one that has a write | `OneHome`; that the table numbers stay in their type |
| `JobsInv`, `SegInv` | the count of jobs, what each job's table is, and that a segment has its table's writes from its naming on | a landing puts a segment in the place of its table |
| `ChainInv` | the jobs yet to land are, in order, of the frozen tables and then of the live one where it is handed | this is `OldestLands` for all the queue and not the front alone |
| `WriterInv` | what the writer's place in its code says of the table it has handed, of the room it found and of the batch it is in | its own swap is made on a state it read earlier |
| `SaidInv` | the writes of the batch at hand are in the live table or committed, none dropped unsaid | `OkWhole` |
| `AlarmInv` | a wait that counted no seal met an empty queue, and gives up only where the queue has stopped | `NoFalseAlarm`, whose three reads straddle landings |
| `FirstInv` | a seal that names the first partition is the oldest one, over an empty store | `OnePartition` |

### Ingest: the partitions tile

A partition is added, widened, cut and replaced by steps that each read the segments
when they begin and change them when they land: `Tiles` holds because a merge's hold on
its ranges outlives whatever lands beside it. `ShapeInv` says how:

| part | says | needed because |
|---|---|---|
| `WriterInv`, `LogInv` | the writer's table, the log and the files of runs hold writes of the history; a run's file is within its table | what a seal or an open makes a segment of |
| `JobInv` | sealed tables cover the log in order; only the first, over an empty store, may name the first partition; a run's fence reaches the top | a landing must not add a second partition |
| `SegInv` | a segment's fence is a range, its name covers no more than the manifest, and the partitions tile | the property |
| `MergeInv` | a merge holds the partitions whose fences it took and no others; only a merge over a store without partitions has no fence, and it is alone; no two share an input | its outputs replace exactly those partitions |
| `TierInv` | a piece merge holds pieces, and none a partition merge has | its landing leaves the partitions alone |

The steps rest on lemmas about `Shape`'s operators. `TiledOrdered`: partitions that tile
lie in one order, each beginning where the one before ends. `Retiled`: partitions replaced
by others that tile the same ranges tile again, which is what a landing, a promotion and a
merge have in common. `SlicesTile`: an output cut at any of its keys tiles its range.
`Stairs`: pieces in a chain, each below the next, tile their range once renamed by
`apply_promotion`, whatever the partition they sit on holds below them. `Resolved`: the
fences `ResolveFences` settles on are partitions', those it was given among them.

### Ingest: what a merge holds

A merge deletes its inputs when it lands and writes only its ranges, so an input with a
key outside them would lose it. Pieces and partitions are cut at their fences, but the
file of a run is not: it is named for the last range as it stands when the run closes, or
when an open takes it up, and no key is looked at. That every segment's keys are inside its
fence thus rests on where runs may begin and on what moves the last range meanwhile.
`KeysInv` says it, beside `ShapeInv`:

| part | says | needed because |
|---|---|---|
| `InsideInv` | a segment holds no key outside its fence | a merge's inputs are picked by their fences |
| `GreatestInv` | `Db::max_key` is no less than any key of a segment, the live table or a sealed one | a run begins above it |
| `RunInv`, `FileInv` | a run, in its table and in its file, is above the segments, above every table sealed before it, and not below the last range; a file no job is about has landed | by the time it lands those tables have become segments, and a merge or a promotion has moved the last range to a key of one |
| `SealedInv` | a sealed run's keys are in the range it will be named for | `RunPiece` cuts nothing |
| `LeftInv` | nor has a file that an open will take up a key below the last range | the same piece made by an open |
| `CoverInv` | a merge's inputs hold no key outside its ranges | the property |

A step that moves the last range (a promotion, a merge's cut) moves it to 0, to where it
was, or to a key some segment holds, and a run that is above all of those is still in it
(`ClearOn`). `ResolvedClosed` is why a merge over such segments covers them: a piece that
reaches one of the merge's ranges has every partition it overlaps among them, and the
partition around any key of it is one of those. The hypothesis `Loose = {}` leaves out the
two calls section 4 tells of, a delete above the greatest key and a run begun below the
last range.

### Ingest: what a crash leaves

The writes of one history reach the device on two ways, the log and the files of runs,
and leave both again when a landing retires records and unlinks files. `PrefixKept` says
that the two together still give the history's first writes. The hypothesis
`SyncEvery = 1` is the policy of the run; with 2 the property fails, as section 4 tells.
Two invariants are needed beside `ShapeInv`.

`NamesInv` has the ids of files apart: those of the tables to land, of the open run, of a
piece merge and of the pieces (`Named`, `NamedApart`), and a run that has no file yet has
a write to commit (`Uncommitted`). Without it a commit's new file could replace the one a
sealed run waits in; and the segments of a merge lie in one order, each at a place of its
own (`InOrderOf`), only where no two have the same name.

`HomeInv` says where a write is:

| part | says | needed because |
|---|---|---|
| `SyncedInv` | the log and every run's file are synced to their end | a power loss takes nothing of them |
| `HistInv` | the history is as written; what is promised is committed; after a crash all that is left is committed | the property |
| `PastInv` | the log, the files, the segments and the sealed tables hold committed writes and no other | a crash takes every write not committed: none that is kept comes after one that is lost |
| `TailHome` | a write not committed is in the live table | the same |
| `MemHome` | a committed write of the live table is in its run's file, or in the log past the records that the sealed tables cover | the seal that comes keeps this home |
| `QueueHome` | a sealed run's writes are in its file; a sealed table's are in the log past what the tables before it cover | a landing retires the log's records up to its own end and no further |

The argument turns on `After`, where in the log a table's own records begin: a landing
moves every such place down by as many records as it retires (`LogRetired`), and an
unlink takes no file that the open run or a sealed one is about. A crash then loses exactly
the writes past the committed ones, and `SubsequencePrefix` reads off that what is left has
the places it had. That merges and promotions put no write into a segment that was not in
one (`PastInv`) takes lemmas about `Cut`, `Live`, `Chains`, `FlattenSeq` and `InOrder`.

### Scans: bounds and point reads

A handle's three words are loaded while the writer may store others, and what they
bound is read while the writer goes on. `CommitInv` is the types and:

| part | says | needed because |
|---|---|---|
| `TableInv` | one entry per key; a key's chunks ascend and are below the tail; what the writer's place says of the entry it writes | a watermark cuts a chain to a prefix of it, which later chunks do not touch |
| `EntryInv` | the log names the entries in the order they were made, all but that of the write under way | a commit's log and its count bound the same entries |
| `HistInv` | a commit is within the table, its entries indexed, and past the commit before | a commit's words are told apart from the next one's |
| `ValuesInv` | a commit's values are those below its watermark still; a key without an entry in it has the partition's | `PointRight` |
| `MarkInv` | the named mark has the last commit's words, the other those the next has stored so far | a load that races a commit stores into the other mark |
| `LoadInv` | the words a handle has loaded are the named mark's while the number it read stands | the second load of the number |

Values are read off a chain through the maximum of the offsets below the watermark, so
the proof has lemmas for it: a value set below the tail stands through any append to the
chain (`ValuesStand`), and above the tail every watermark gives the same (`ValuesAll`).

### Scans: forms and scans

The upkeep thread publishes a form at a time into a state that handles walk, then the
completeness, then the position; a landing carries what stands there to a new state
while it does. `UpInv` is `FormsRight` and:

| part | says | needed because |
|---|---|---|
| `PassInv` | a posted commit is the last; a pass is at a commit, the last unless one is posted past it; the writer's blocks have read no further, and what they filed is what they read less the snapshot; a claim is a pass over the whole of the last commit | what a pass brings to its commit is not past it |
| `OwnInv` | a form of the writer's is right for the table as it stands, for the posted commit and for the pass's, wherever the log past what it read is silent on its key; in a complete table every key read has a form | a form that was patched is right at the pass's commit, one that was not still is |
| `DirtyInv` | a key that is not dirty stands in the writer's state as the writer has it, or, where the writer has none, as a mark or not at all | publishing the dirty ones makes all of them right; this is what a give-up without marks breaks |
| `AtInv` | no state's position has reached the posted commit or the pass's, but a claim's, which may be there already; what a complete state has no form of is the partition's at every commit up to its position; once the completeness is told nothing is dirty | the position is told last |

`HandsInv` is about the handles: `BlocksAre` has a handle's blocks at some commit no
later than its own, and at its own once it has read the log (another state drops them
all, to the empty first commit); `MayWalk` keeps what it found when it read the position
and the completeness, though the upkeep goes on in the same state; `Given` is what it has
given so far. The one lemma all steps share is `OnwardNext`: a position only moves on, a
slot is not emptied, and a form put into one is stamped past the position. That is why
`canonical` may walk any form stamped at or before the handle's own commit.

`NoGiveUp` says that `"giveup"` is not among `Allowed`; the rest of `Happenings` is free, in
any combination. `NoDirty` says that no handle is set to dirty, as in the run. A handle's blocks outlive
its setting, and those a dirty scan brings past the last commit stay with it; section 4
has what comes of that. `FormsHold` does not need it: handles, dirty or not, only
offer a state their snapshots.

### What stays with TLC

Liveness under fairness (`Reopens`, `FlushAnswered`, `OwedPaid`, `NoStall`,
`CallReturns`) is out of the prover's reach. `ReadsRight` of `Ingest` is about what
sequences of writes come to once cut, joined and filtered by key, in their order, which
would need induction over them; that, forms given up without marks, the log with kills and power losses in one behaviour, and
the landing's properties outside `Steady` are checked on the instances above and not
proved.

## 6. Assumptions

- A file's fsync makes durable the removals made before it (a journaling
  filesystem). A new name needs its directory's fsync.
- A power loss keeps any prefix of the frames past the last barrier of each log
  file, each file on its own; a segment whose data is not durable is torn; a slot
  whose write is not synced holds the old content, the new one, or, with `"tear"` in
  `Faults`, neither.
- A write to the log succeeds (`Append` has no failing `wal.write()`), and an fsync that
  failed leaves what it was to cover to a later one, which covers it.
- A thread that is joined without a look at its result has done its work: the seal's fsyncs
  where a failed landing wedges the queue (35793), and every seal and merge where a store
  is dropped (35889).
- A publish that fails does so after its slot's write, which is the harder case: a failure
  before it leaves the device as it was.
- A log header that is zeroed, or not a prefix of one, is no header to `Replay`, and an
  error in the code.
- A checksum mismatch is always seen. A frame of a recycled file's former life never
  passes the new life's seed.
- Memory other than a thread's own slot is sequentially consistent; in `Scans` every
  store another thread reads is a release and every load of it an acquire.
- In `Ingest` a file's name is durable with the file, and keys are whole: a fence is a
  key and not its first bytes.
- Calls on one handle do not nest: a read's callback makes no call on the same
  handle.

## 7. What is not modelled

Of the modelled parts: the single-file manifest (`manifest_slots` off), the directory
scan of an open with no manifest, the inline segment work (`MaintHome::Here`, in `Landing`
as in `Handoff`), scans without the block cache, the keeper and what the builder ahead does
on its own thread, the arenas' growth, streamed tables, read advice and prefetch.

Two error paths of a merge are left out, since what is modelled does not come to them. A merge
that meets a key outside its fences ends in an error (11995, 12015), where `Held`
leaves the key out: `MergesWhole`, proved for `Loose = {}`, says there is none. A merge whose
inputs hold no key at all has no output (11749, 12180).

Of the rest: the compact page form's attach and detach and the controller's mode
transitions, and the search structures, are planned (section 2). The codecs
(`zfile.rs`, `zpages.rs`, `zlz4.rs`) and the byte formats (`blob.rs`, `block.rs`, `flatindex.rs`,
`ordindex.rs`) are encodings of bytes, where what can go wrong is a value and not an
order of steps: the repository's round-trip and fuzz tests reach it and a bounded
model would only repeat them. The controller's floating-point arithmetic and its clock
are beyond TLC. `reserve.rs` (system calls with no protocol of their own), the wasm
binding (one thread over the read path) and the benchmarks are left out for good.
These are more than half of the repository's lines, and most of what remains of
`db.rs` is options, counters, measurement and experiments: the models cover the code
whose correctness depends on an order of steps, which is a small share of the lines.
