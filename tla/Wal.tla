-------------------------------- MODULE Wal --------------------------------
(***************************************************************************)
(* The write-ahead log of src/src/db.rs: numbered files of batches, the     *)
(* sync policy, loose and chained rotation, retirement behind a durable     *)
(* manifest, recycling of retired files, power loss and process kill, and   *)
(* the replay an open makes file by file.                                   *)
(*                                                                         *)
(* A batch -- its record frames and its commit frame -- is one frame here:  *)
(* it is written by one write call and replay applies it whole or not at    *)
(* all, so `seq' counts batches.  A frame carries the id of the file whose  *)
(* CRC seed it was written under (`life'), its sequence and its content, a  *)
(* batch number never used twice.                                           *)
(***************************************************************************)
EXTENDS Naturals, Sequences, FiniteSets, FiniteSetsExt

CONSTANTS
    SyncEvery,        \* SyncPolicy: a sync every n commits; Always is 1
    SealRotatesWal,   \* Options::seal_rotates_wal
    RecycleWal,       \* Options::recycle_wal
    FrozenCap,        \* FROZEN_CAP, the seals in flight
    Failures,         \* of "kill" (the page cache kept) and "power" (not kept)
    MaxBatch,         \* bound: the batches ever committed
    MaxFile,          \* bound: the greatest WAL file id
    MaxFail           \* bound: the failures of a behaviour

ASSUME WalAssumption ==
    /\ SyncEvery \in Nat \ {0}
    /\ FrozenCap \in Nat /\ MaxBatch \in Nat /\ MaxFile \in Nat
    /\ MaxFail \in Nat
    /\ SealRotatesWal \in BOOLEAN /\ RecycleWal \in BOOLEAN
    /\ Failures \subseteq {"kill", "power"}

File   == 0..MaxFile
Batch  == 1..MaxBatch
Seqno  == 1..(MaxBatch + 1)
Frame  == [life : File, seq : Seqno, b : Batch]
Kind   == {"chained", "loose", "none"}     \* "none": no whole header
Seal   == [end : Seqno, wals : SUBSET File]

VARIABLES
    \* The device, and the page cache over it.
    present,     \* wal- names in the directory
    entered,     \* those whose directory entry is durable
    lingers,     \* names removed, the removal not yet durable
    hdr,         \* the header's kind, as the page cache has it
    hdrs,        \* the kinds the device may hold of it
    frames,      \* this life's frames, as the page cache has them
    dur,         \* how many of them a barrier has covered
    old,         \* a recycled file's frames of its previous life
    spare,       \* the retired file waiting to be recycled, if any: its frames
    covered,     \* the sequence the durable manifest covers
    segLog,      \* the batches the manifest's segments hold
    \* The writer: Db and Wal.
    phase,       \* "up", "down", "replay" or "refused"
    pc,          \* where the writer stands in the call it makes
    why,         \* that call: "commit", "sync" or "seal"
    wid,         \* wal_id
    seq,         \* wal.seq
    synced,      \* wal.synced, in frames
    loose,       \* wal.loose
    closed,      \* closed_wals
    looseWals,   \* loose_wals
    unsynced,    \* commits since the last sync
    dirUnsynced, \* wal_dir_unsynced
    \* The segment work: Maint.
    sealing,     \* the seals in flight, oldest first
    retiring,    \* retiring_wals, waiting for a landing
    due,         \* those a durable manifest covers, being retired
    \* An open's replay loop.
    todo,        \* the files still to replay
    valid,       \* the last replayed file's frames up to its last commit
    from,        \* the next sequence to apply
    rec,         \* the batches recovered so far
    \* History.
    hist,        \* the batches committed, by sequence
    acked,       \* how many of them a returned sync promised
    next,        \* the next batch number
    fails        \* the failures so far

names  == <<present, entered, lingers, spare>>
bytes  == <<hdr, hdrs, frames, dur, old>>
store  == <<covered, segLog>>
call   == <<phase, pc, why>>
live   == <<wid, seq, synced, loose>>
queues == <<closed, looseWals, unsynced, dirUnsynced>>
maint  == <<sealing, retiring, due>>
replay == <<todo, valid, from, rec>>
ghost  == <<hist, acked, next>>
vars   == <<names, bytes, store, call, live, queues, maint, replay, ghost, fails>>

TypeOK ==
    /\ present \subseteq File /\ entered \subseteq File /\ lingers \subseteq File
    /\ hdr \in [File -> Kind] /\ hdrs \in [File -> SUBSET Kind]
    /\ frames \in [File -> Seq(Frame)] /\ old \in [File -> Seq(Frame)]
    /\ dur \in [File -> Nat]
    /\ spare \in Seq(Seq(Frame))
    /\ covered \in Seqno /\ segLog \in Seq(Batch)
    /\ phase \in {"up", "down", "replay", "refused"}
    /\ pc \in {"idle", "dir", "loose", "live", "rotate", "newdir", "hand"}
    /\ why \in {"commit", "sync", "seal"}
    /\ wid \in File /\ seq \in Seqno /\ synced \in Nat
    /\ loose \in BOOLEAN /\ dirUnsynced \in BOOLEAN
    /\ closed \subseteq File /\ looseWals \subseteq File /\ unsynced \in Nat
    /\ sealing \in Seq(Seal)
    /\ retiring \subseteq File /\ due \subseteq File
    /\ todo \subseteq File /\ valid \in Nat /\ from \in Seqno
    /\ rec \in Seq(Batch) /\ hist \in Seq(Batch) /\ acked \in Nat
    /\ next \in 1..(MaxBatch + 1) /\ fails \in 0..MaxFail

-----------------------------------------------------------------------------
(***************************************************************************)
(* Db::create: the first file, and the directory synced with the manifest's *)
(* slots before the call returns.  Under recycle_wal a spare of zeros is     *)
(* made with it.                                                            *)
(***************************************************************************)
Init ==
    /\ present = {0} /\ entered = {0} /\ lingers = {}
    /\ hdr = [f \in File |-> IF f = 0 THEN "chained" ELSE "none"]
    /\ hdrs = [f \in File |-> IF f = 0 THEN {"chained", "none"} ELSE {"none"}]
    /\ frames = [f \in File |-> <<>>] /\ old = [f \in File |-> <<>>]
    /\ dur = [f \in File |-> 0]
    /\ spare = IF RecycleWal THEN << <<>> >> ELSE <<>>
    /\ covered = 1 /\ segLog = <<>>
    /\ phase = "up" /\ pc = "idle" /\ why = "commit"
    /\ wid = 0 /\ seq = 1 /\ synced = 0 /\ loose = FALSE
    /\ closed = {} /\ looseWals = {} /\ unsynced = 0 /\ dirUnsynced = FALSE
    /\ sealing = <<>> /\ retiring = {} /\ due = {}
    /\ todo = {} /\ valid = 0 /\ from = 1 /\ rec = <<>>
    /\ hist = <<>> /\ acked = 0 /\ next = 1 /\ fails = 0

-----------------------------------------------------------------------------
(* The writer.                                                              *)

\* Wal::frames_unsynced, by the writer's own count.
FramesUnsynced == Len(frames[wid]) > synced

\* A mutant of SyncOwed that forgets the files a loose rotation closed.
SyncOwedLive == FramesUnsynced \/ dirUnsynced

\* What Db::sync looks at before it pays a barrier.
SyncOwed == FramesUnsynced \/ looseWals # {} \/ dirUnsynced

\* A durable directory: every name in it, and every removal from it.
DirSynced == entered' = present /\ lingers' = {}

\* An fsync of a file, on a filesystem that journals removals in order.
UnlinksReached == lingers' = {}

(***************************************************************************)
(* Db::commit up to its barrier: the batch framed, marked and written, the  *)
(* counter moved, and the sync begun when the policy is due.                *)
(***************************************************************************)
Commit ==
    /\ phase = "up" /\ pc = "idle" /\ next <= MaxBatch
    /\ frames' = [frames EXCEPT
                    ![wid] = Append(@, [life |-> wid, seq |-> seq, b |-> next])]
    /\ seq' = seq + 1
    /\ hist' = Append(hist, next) /\ next' = next + 1
    /\ unsynced' = unsynced + 1
    /\ why' = "commit"
    /\ pc' = IF unsynced + 1 >= SyncEvery THEN "dir" ELSE "rotate"
    /\ UNCHANGED <<names, hdr, hdrs, dur, old, store, phase, wid, synced, loose,
                   closed, looseWals, dirUnsynced, maint, replay, acked, fails>>

\* Db::sync: a barrier where one is owed, and otherwise nothing but the answer.
Sync ==
    /\ phase = "up" /\ pc = "idle"
    /\ why' = "sync"
    /\ \/ SyncOwed /\ pc' = "dir" /\ UNCHANGED <<unsynced, acked>>
       \/ ~SyncOwed /\ pc' = "idle" /\ unsynced' = 0 /\ acked' = Len(hist)
    /\ UNCHANGED <<names, bytes, store, phase, live, closed, looseWals,
                   dirUnsynced, maint, replay, hist, next, fails>>

\* A mutant of WalDirBarrier that clears the debt and does not pay it.
WalDirForgotten ==
    /\ phase = "up" /\ pc = "dir"
    /\ dirUnsynced' = FALSE /\ pc' = "loose"
    /\ UNCHANGED <<names, bytes, store, phase, why, live, closed, looseWals,
                   unsynced, maint, replay, ghost, fails>>

\* Db::wal_dir_barrier, the first step of Db::sync_wal.
WalDirBarrier ==
    /\ phase = "up" /\ pc = "dir"
    /\ IF dirUnsynced THEN DirSynced ELSE UNCHANGED <<entered, lingers>>
    /\ dirUnsynced' = FALSE
    /\ pc' = "loose"
    /\ UNCHANGED <<present, spare, bytes, store, phase, why, live, closed,
                   looseWals, unsynced, maint, replay, ghost, fails>>

\* Db::sync_wal's loop: the oldest file a loose rotation closed is synced and
\* forgotten; one a landing has retired meanwhile is forgotten alone.
SyncLoose ==
    /\ phase = "up" /\ pc = "loose" /\ looseWals # {}
    /\ LET f == Min(looseWals) IN
        /\ IF f \in present
           THEN /\ dur' = [dur EXCEPT ![f] = Len(frames[f])]
                /\ hdrs' = [hdrs EXCEPT ![f] = {hdr[f]}]
                /\ UnlinksReached
           ELSE UNCHANGED <<dur, hdrs, lingers>>
        /\ looseWals' = looseWals \ {f}
    /\ UNCHANGED <<present, entered, spare, hdr, frames, old, store, call, live,
                   closed, unsynced, dirUnsynced, maint, replay, ghost, fails>>

\* Wal::chain: the header rewritten in the page cache.
Chain ==
    /\ phase = "up" /\ pc = "loose" /\ looseWals = {}
    /\ IF loose
       THEN /\ hdr' = [hdr EXCEPT ![wid] = "chained"]
            /\ hdrs' = [hdrs EXCEPT ![wid] = @ \cup {"chained"}]
       ELSE UNCHANGED <<hdr, hdrs>>
    /\ loose' = FALSE
    /\ pc' = "live"
    /\ UNCHANGED <<names, frames, dur, old, store, phase, why, wid, seq, synced,
                   queues, maint, replay, ghost, fails>>

\* Wal::sync of the live file, the end of Db::sync_wal.  What is left of the
\* call: a commit's rotation, a seal's, or for a sync its answer.
SyncLive ==
    /\ phase = "up" /\ pc = "live"
    /\ dur' = [dur EXCEPT ![wid] = Len(frames[wid])]
    /\ hdrs' = [hdrs EXCEPT ![wid] = {hdr[wid]}]
    /\ UnlinksReached
    /\ synced' = Len(frames[wid])
    /\ unsynced' = 0
    /\ acked' = Len(hist)
    /\ pc' = IF why = "sync" THEN "idle" ELSE "rotate"
    /\ UNCHANGED <<present, entered, spare, hdr, frames, old, store, phase, why,
                   wid, seq, loose, closed, looseWals, dirUnsynced, maint,
                   replay, hist, next, fails>>

\* A barrier of Db::sync_wal that fails: the call returns its error with the
\* batch written, and the next sync by policy starts over.
SyncFails ==
    /\ phase = "up" /\ pc \in {"dir", "loose", "live"}
    /\ pc' = "idle"
    /\ UNCHANGED <<names, bytes, store, phase, why, live, queues, maint, replay,
                   ghost, fails>>

\* What a file of frames reads as: its own, then what a previous life left
\* behind them.
Visible(f) == frames[f] \o SubSeq(old[f], Len(frames[f]) + 1, Len(old[f]))

\* Whether the call may rotate here: a commit once the file has passed
\* seal_bytes, batches being of any size, and a seal where seals rotate.
MayRotate == \/ why = "commit" /\ ~SealRotatesWal /\ frames[wid] # <<>>
             \/ why = "seal"

\* A mutant of NextKind: every header says chained.
KindChained == "chained"

\* The header Db::rotate_wal gives the next file: loose where the one before is
\* left with frames no sync has covered.
NextKind == IF FramesUnsynced THEN "loose" ELSE "chained"

(***************************************************************************)
(* Db::rotate_wal with Db::next_wal: the new file's header says whether the *)
(* one before it was left with frames no sync had covered.                   *)
(***************************************************************************)
RotateWal ==
    /\ phase = "up" /\ pc = "rotate" /\ MayRotate /\ wid < MaxFile
    /\ LET n    == wid + 1
           kind == NextKind
       IN /\ present' = present \cup {n}
          /\ entered' = entered \ {n}
          /\ lingers' = lingers \ {n}
          /\ hdr' = [hdr EXCEPT ![n] = kind]
          /\ hdrs' = [hdrs EXCEPT ![n] = {kind, "none"}]
          /\ frames' = [frames EXCEPT ![n] = <<>>]
          /\ dur' = [dur EXCEPT ![n] = 0]
          /\ old' = [old EXCEPT ![n] = IF spare = <<>> THEN <<>> ELSE Head(spare)]
          /\ spare' = <<>>
          /\ wid' = n /\ synced' = 0 /\ loose' = (kind = "loose")
          /\ closed' = closed \cup {wid}
          /\ looseWals' = IF kind = "loose"
                          THEN (looseWals \cap present) \cup {wid}
                          ELSE looseWals
          /\ dirUnsynced' = TRUE
          /\ pc' = IF kind = "chained" THEN "newdir"
                   ELSE IF why = "seal" THEN "hand" ELSE "idle"
    /\ UNCHANGED <<store, phase, why, seq, unsynced, maint, replay, ghost, fails>>

\* The file short of seal_bytes, or the new one not made: the call goes on
\* without a rotation.
NoRotation ==
    /\ phase = "up" /\ pc = "rotate"
    /\ pc' = IF why = "seal" THEN "hand" ELSE "idle"
    /\ UNCHANGED <<names, bytes, store, phase, why, live, queues, maint, replay,
                   ghost, fails>>

\* The directory barrier of a chained rotation, or its failure, which stays
\* owed (wal_dir_unsynced).
NewDirBarrier ==
    /\ phase = "up" /\ pc = "newdir"
    /\ \/ DirSynced /\ dirUnsynced' = FALSE
       \/ UNCHANGED <<entered, lingers, dirUnsynced>>
    /\ pc' = IF why = "seal" THEN "hand" ELSE "idle"
    /\ UNCHANGED <<present, spare, bytes, store, phase, why, live, closed,
                   looseWals, unsynced, maint, replay, ghost, fails>>

\* The sequence every seal handed so far ends at.
SealedTo == Max({covered} \cup {sealing[i].end : i \in DOMAIN sealing})

\* Db::seal with a table that holds something, and room in the frozen list.
Seals ==
    /\ phase = "up" /\ pc = "idle"
    /\ seq > SealedTo /\ Len(sealing) < FrozenCap
    /\ why' = "seal"
    /\ pc' = IF SealRotatesWal THEN "dir" ELSE "hand"
    /\ UNCHANGED <<names, bytes, store, phase, live, queues, maint, replay, ghost, fails>>

\* A mutant of HandSeal that retires the live file with the closed ones.
HandSealLive ==
    /\ phase = "up" /\ pc = "hand"
    /\ sealing' = Append(sealing, [end |-> seq, wals |-> closed \cup {wid}])
    /\ closed' = {} /\ pc' = "idle"
    /\ UNCHANGED <<names, bytes, store, phase, why, live, looseWals, unsynced,
                   dirUnsynced, retiring, due, replay, ghost, fails>>

\* Db::seal_table past the rotation: the seal takes the closed files to retire
\* and ends at the live file's sequence.
HandSeal ==
    /\ phase = "up" /\ pc = "hand"
    /\ sealing' = Append(sealing, [end |-> seq, wals |-> closed])
    /\ closed' = {}
    /\ pc' = "idle"
    /\ UNCHANGED <<names, bytes, store, phase, why, live, looseWals, unsynced,
                   dirUnsynced, retiring, due, replay, ghost, fails>>

-----------------------------------------------------------------------------
(* The segment work.  Its phases and its manifest are the Landing module's.  *)

\* The oldest seal landed durable: segments synced, the directory with them,
\* and the manifest that covers its sequence.  What it retires includes what
\* an open left.
LandDurable ==
    /\ phase = "up" /\ sealing # <<>> /\ due = {}
    /\ covered' = Head(sealing).end
    /\ segLog' = SubSeq(hist, 1, Head(sealing).end - 1)
    /\ DirSynced
    /\ due' = retiring \cup Head(sealing).wals
    /\ retiring' = {}
    /\ sealing' = Tail(sealing)
    /\ UNCHANGED <<present, spare, bytes, call, live, queues, replay, ghost, fails>>

\* Maint::retire_covered of one file: removed, or kept as the spare.
RetireWal(f) ==
    /\ phase = "up" /\ f \in due
    /\ due' = due \ {f}
    /\ present' = present \ {f} /\ entered' = entered \ {f}
    /\ lingers' = lingers \cup {f}
    /\ spare' = IF RecycleWal /\ spare = <<>> THEN << Visible(f) >> ELSE spare
    /\ UNCHANGED <<bytes, store, call, live, queues, sealing, retiring, replay,
                   ghost, fails>>

-----------------------------------------------------------------------------
(* Failures.                                                                *)

\* Everything the process held is gone.
Forget ==
    /\ fails < MaxFail /\ fails' = fails + 1
    /\ phase' = "down" /\ pc' = "idle" /\ why' = "commit"
    /\ wid' = 0 /\ seq' = 1 /\ synced' = 0 /\ loose' = FALSE
    /\ closed' = {} /\ looseWals' = {} /\ unsynced' = 0 /\ dirUnsynced' = FALSE
    /\ sealing' = <<>> /\ retiring' = {} /\ due' = {}
    /\ todo' = {} /\ valid' = 0 /\ from' = 1 /\ rec' = <<>>
    /\ UNCHANGED <<store, ghost>>

\* The process dies and the machine does not: the page cache stands.
Kill ==
    /\ "kill" \in Failures /\ phase \in {"up", "replay"}
    /\ Forget
    /\ UNCHANGED <<names, bytes>>

\* The headers the device may hold of f once its frames are cut to n: one
\* written in this life, or, with every frame gone, what was there before.
HeadersLeft(f, n) ==
    (hdrs[f] \ {"none"}) \cup
    (IF n = 0 /\ "none" \in hdrs[f]
     THEN IF old[f] = <<>> THEN {"none"} ELSE {"chained", "loose"}
     ELSE {})

(***************************************************************************)
(* The machine loses power.  Of each file any prefix of the frames no        *)
(* barrier covered may be left -- what lies past the first frame lost is     *)
(* never read -- and a name, or a removal, the directory's barrier had not   *)
(* covered may be lost.                                                      *)
(***************************************************************************)
PowerLoss ==
    /\ "power" \in Failures /\ phase \in {"up", "replay"}
    /\ \E lost \in SUBSET (present \ entered), back \in SUBSET lingers :
        /\ present' = (present \ lost) \cup back
        /\ entered' = present'
        /\ \E cut \in [present' -> 0..MaxBatch] :
            /\ \A f \in present' : cut[f] \in dur[f]..Len(frames[f])
            /\ frames' = [f \in File |-> IF f \in present'
                                         THEN SubSeq(frames[f], 1, cut[f])
                                         ELSE frames[f]]
            /\ dur' = [f \in File |-> IF f \in present' THEN cut[f] ELSE dur[f]]
            /\ \E kind \in [present' -> Kind] :
                /\ \A f \in present' : kind[f] \in HeadersLeft(f, cut[f])
                /\ hdr' = [f \in File |-> IF f \in present' THEN kind[f] ELSE hdr[f]]
                /\ hdrs' = [f \in File |-> IF f \in present' THEN {kind[f]}
                                           ELSE hdrs[f]]
    /\ lingers' = {}
    /\ Forget
    /\ UNCHANGED <<old, spare>>

-----------------------------------------------------------------------------
(* Db::open.                                                                *)

\* A mutant of OpenStart that starts one batch early.
OpenEarly ==
    /\ phase = "down" /\ phase' = "replay"
    /\ todo' = present /\ valid' = 0
    /\ from' = covered - 1 /\ rec' = segLog
    /\ UNCHANGED <<names, bytes, store, pc, why, live, queues, maint, ghost, fails>>

\* The manifest read: the segments are the store up to what it covers, and
\* the WAL files in id order the rest.
OpenStart ==
    /\ phase = "down"
    /\ phase' = "replay"
    /\ todo' = present /\ valid' = 0
    /\ from' = covered /\ rec' = segLog
    /\ UNCHANGED <<names, bytes, store, pc, why, live, queues, maint, ghost, fails>>

\* The frames of f replay reads: up to the first whose CRC does not verify
\* under this file's id.
Readable(f) ==
    LET v == Visible(f)
        whole == {n \in 0..Len(v) : \A i \in 1..n : v[i].life = f}
    IN IF hdr[f] = "none" THEN <<>> ELSE SubSeq(v, 1, Max(whole))

\* Those replay applies, by their place in f: not covered by a segment or a
\* file before.
Applied(f) == {i \in DOMAIN Readable(f) : Readable(f)[i].seq >= from}

\* Whether their sequence runs on from the file before without a gap.
Continuous(f) ==
    \A i \in Applied(f) :
        Readable(f)[i].seq = from + Cardinality({j \in Applied(f) : j < i})

\* The batch that f has at sequence s.
BatchAt(f, s) == LET r == Readable(f) IN
                 r[CHOOSE i \in Applied(f) : r[i].seq = s].b

\* A mutant of EndsAt that takes every gap for a missing record.
EndsNever(f) == FALSE

\* Whether the log ends at the start of f: a gap at its first record, where
\* its header says the file before it, still in the chain, was left loose.
EndsAt(f) ==
    /\ hdr[f] = "loose" /\ todo # present
    /\ Applied(f) # {} /\ Readable(f)[Min(Applied(f))].seq # from

\* Wal::replay of the next file, as Db::open's loop takes its answer.
ReplayFile ==
    /\ phase = "replay" /\ todo # {}
    /\ LET f == Min(todo) IN
       \/ /\ EndsAt(f)
          /\ present' = {g \in present : g <= f}
          /\ entered' = entered \cap present'
          /\ lingers' = lingers \cup (present \ present')
          /\ todo' = {} /\ valid' = 0
          /\ UNCHANGED <<from, rec, phase>>
       \/ /\ ~EndsAt(f) /\ Continuous(f)
          /\ todo' = todo \ {f}
          /\ valid' = Len(Readable(f))
          /\ from' = from + Cardinality(Applied(f))
          /\ rec' = rec \o [n \in 1..Cardinality(Applied(f)) |-> BatchAt(f, from + n - 1)]
          /\ UNCHANGED <<present, entered, lingers, phase>>
       \/ /\ ~EndsAt(f) /\ ~Continuous(f)
          /\ phase' = "refused"
          /\ UNCHANGED <<present, entered, lingers, todo, valid, from, rec>>
    /\ UNCHANGED <<spare, bytes, store, pc, why, live, queues, maint, ghost, fails>>

(***************************************************************************)
(* The end of Db::open: the live file cut to its last commit and synced      *)
(* where it was longer, Wal::open_append taking what is left for synced,     *)
(* and the older files left for the next landing to retire.                  *)
(***************************************************************************)
OpenEnd ==
    /\ phase = "replay" /\ todo = {}
    /\ LET f     == IF present = {} THEN 0 ELSE Max(present)
           cut   == Len(Visible(f)) > valid
           fresh == hdr[f] = "none"
           kind  == IF fresh THEN "chained" ELSE hdr[f]
       IN /\ present' = present \cup {f}
          /\ frames' = [frames EXCEPT ![f] = SubSeq(Visible(f), 1, valid)]
          /\ old' = [old EXCEPT ![f] = <<>>]
          /\ dur' = [dur EXCEPT ![f] = IF cut THEN valid ELSE @]
          /\ hdr' = [hdr EXCEPT ![f] = kind]
          /\ hdrs' = [hdrs EXCEPT ![f] = IF fresh THEN {kind, "none"}
                                         ELSE IF cut THEN {kind} ELSE @]
          /\ IF cut THEN UnlinksReached ELSE UNCHANGED lingers
          /\ wid' = f /\ synced' = valid /\ loose' = (kind = "loose")
          /\ retiring' = present \ {f}
    /\ seq' = from /\ hist' = rec
    /\ phase' = "up"
    /\ UNCHANGED <<entered, spare, store, pc, why, queues, sealing, due, replay,
                   acked, next, fails>>

-----------------------------------------------------------------------------
Writer == \/ Commit \/ Sync \/ WalDirBarrier \/ SyncLoose \/ Chain \/ SyncLive
          \/ SyncFails \/ RotateWal \/ NoRotation \/ NewDirBarrier
          \/ Seals \/ HandSeal
Maint  == LandDurable \/ \E f \in File : RetireWal(f)
Opens  == OpenStart \/ ReplayFile \/ OpenEnd
Fails  == Kill \/ PowerLoss

Next == Writer \/ Maint \/ Opens \/ Fails

Spec == Init /\ [][Next]_vars /\ WF_vars(Opens)

-----------------------------------------------------------------------------
(* Properties.                                                              *)

\* The open's contract: whatever the failure, the log is not refused for a
\* sequence gap (`wal sequence gap: a durable record is missing').
NeverRefused == phase # "refused"

\* SyncPolicy::EveryN(n) bounds loss at n batches: the writer's count of
\* commits since its last barrier, which a commit that returns keeps below n,
\* is never less than the batches the device may not hold -- those in no
\* durable segment and in no part of a log file a barrier has covered.
Kept(s) ==
    \/ s < covered
    \/ \E f \in present \cap entered :
         \E i \in 1..dur[f] : frames[f][i].seq = s
LossCounted ==
    phase = "up" => Cardinality({s \in 1..(seq - 1) : ~Kept(s)}) <= unsynced

\* The log as its caller sees it: every behaviour of the files is a behaviour
\* of the abstract log, failures and recovery included.
Log == INSTANCE DurableLog WITH
          log <- hist, promised <- acked, up <- (phase = "up")
KeepsPromises == Log!Spec

\* A process that dies loses nothing it committed, synced or not, and its
\* store's next open replays every batch once and in order, at whatever step of
\* a rotation, a seal, a retirement or a replay it died.
NothingLost == phase = "up" => hist = [i \in 1..(next - 1) |-> i]

\* A failed store comes back: once failures stop, the open ends with the store
\* up, whatever the failures left of the files.
Reopens == phase # "up" ~> phase = "up"
=============================================================================
