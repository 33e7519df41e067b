------------------------------ MODULE Landing ------------------------------
(***************************************************************************)
(* How a sealed table becomes the store: src/src/db.rs's seal threads, the   *)
(* segment work that lands them in two phases (readable, durable), the      *)
(* manifest's two slots, the retirement of the log behind them, merges and   *)
(* promotions, the drain a flush waits for, failures and the open.           *)
(*                                                                         *)
(* A batch is a number, the log holds the batches past `walLow' in order,    *)
(* and a segment is the set of batches its records came from.  A frozen      *)
(* table is named by the segment its seal is to make of it.                  *)
(***************************************************************************)
EXTENDS Naturals, Sequences, FiniteSets, FiniteSetsExt

CONSTANTS
    Always,      \* SyncPolicy::Always: every commit syncs the log
    Defers,      \* ~Options::flush_waits_manifest: a drain's slot synced late
    Pending,     \* Options::manifest_pending
    FrozenCap,   \* FROZEN_CAP
    Faults,      \* what may go wrong, of the kinds below
    MaxBatch,    \* bound: batches ever written
    MaxSeg,      \* bound: segment ids
    MaxFail      \* bound: faults of a behaviour

FaultKind == {"write", "land", "fsync", "dirsync", "publish",
              "power", "tear", "kill"}

ASSUME LandingAssumption ==
    /\ Always \in BOOLEAN /\ Defers \in BOOLEAN /\ Pending \in BOOLEAN
    /\ FrozenCap \in Nat \ {0} /\ Faults \subseteq FaultKind
    /\ MaxBatch \in Nat /\ MaxSeg \in Nat /\ MaxFail \in Nat

Batch == 1..MaxBatch
Seg   == 1..MaxSeg
Slots == {0, 1}

\* A slot's content: its publish sequence, the batches it covers, the segments
\* it names and which of them it flags pending.  A slot made and never written
\* and one that fails its CRC hold none of it.
Manifest == [seq : Nat, covered : 0..MaxBatch, names : SUBSET Seg,
             pending : SUBSET Seg]
Blank    == [seq |-> 0, covered |-> 0, names |-> {}, pending |-> {}]
Content  == [ok : BOOLEAN, m : Manifest]
Empty    == [ok |-> FALSE, m |-> Blank]
Torn     == [ok |-> FALSE, m |-> Blank]

\* A seal in flight (SealJob): the segment its thread writes and the sequence
\* in its name, how far the thread is, and what the writer knew when it handed
\* the table.
Job == [seg : Seg, end : 0..MaxBatch, draining : BOOLEAN, walUnsynced : BOOLEAN,
        st : {"writing", "named", "synced", "failed"}]

VARIABLES
    \* The log.
    last,      \* the last batch written
    walLow,    \* the log holds walLow+1 .. last
    logDur,    \* the batches of it a barrier covered end here
    logSync,   \* and end here by the writer's own count
    \* Segment files.
    holds,     \* the batches of each
    files,     \* names in the directory
    fent,      \* names whose entry is durable
    fdur,      \* segments whose data is durable
    torn,      \* segments a power loss left torn
    \* The manifest's slots.
    slot,      \* as the page cache has them
    device,    \* what the device may hold of them
    \* The published state: the live table, the frozen ones, the segments.
    mem, frozen, segs,
    \* The segment work (Maint).
    queue,     \* sealing, oldest first
    covered,   \* covered_seq
    mseq,      \* manifest_seq
    owed,      \* slot_sync_due: the slot, if any
    pending,   \* the names the newest slot flags
    retireTo,  \* retiring_wals: the log up to here waits to retire
    merge,     \* the merge in flight
    wedged,    \* seal_wedged
    nextSeg,   \* next_seg
    mpc,       \* where the segment work stands
    drop,      \* the merge inputs to unlink behind the publish
    land,      \* the end of the seal the publish lands; 0 for a merge
    err,       \* maint_err: an error its next asker takes
    \* The writer's drain: none, sent, taken up, its seals and merges joined,
    \* or failed.
    asked,
    \* The process, and history.
    phase,     \* "up", "down", "opening", "refused" or "scanned"
    acked,     \* the batches up to here are promised
    fails      \* the faults so far

log    == <<last, walLow, logDur, logSync>>
segf   == <<holds, files, fent, fdur, torn>>
slots  == <<slot, device>>
state  == <<mem, frozen, segs>>
work   == <<covered, mseq, owed, pending, retireTo>>
flight == <<queue, merge, wedged, nextSeg>>
step   == <<mpc, drop, land, err>>
vars   == <<log, segf, slots, state, work, flight, step, asked, phase, acked,
            fails>>

NoMerge == [in |-> {}, out |-> {}, done |-> FALSE]

TypeLog ==
    /\ last \in 0..MaxBatch /\ walLow \in 0..MaxBatch
    /\ logDur \in 0..MaxBatch /\ logSync \in 0..MaxBatch
TypeFiles ==
    /\ holds \in [Seg -> SUBSET Batch]
    /\ files \subseteq Seg /\ fent \subseteq Seg /\ fdur \subseteq Seg
    /\ torn \subseteq Seg
TypeSlots ==
    /\ slot \in [Slots -> Content] /\ device \in [Slots -> SUBSET Content]
TypeState ==
    /\ mem \subseteq Batch /\ frozen \subseteq Seg /\ segs \subseteq Seg
TypeWork ==
    /\ covered \in 0..MaxBatch /\ mseq \in Nat /\ owed \subseteq Slots
    /\ pending \subseteq Seg /\ retireTo \in 0..MaxBatch
TypeFlight ==
    /\ queue \in Seq(Job)
    /\ merge \in [in : SUBSET Seg, out : SUBSET Seg, done : BOOLEAN]
    /\ nextSeg \in 1..(MaxSeg + 1)
TypeStep ==
    /\ mpc \in {"idle", "pend", "sync", "owed"}
    /\ drop \subseteq Seg /\ land \in 0..MaxBatch
TypeFlags == wedged \in BOOLEAN /\ err \in BOOLEAN
TypeRest ==
    /\ asked \in {"no", "sent", "taken", "joined", "failed"}
    /\ phase \in {"up", "down", "opening", "refused", "scanned"}
    /\ acked \in 0..MaxBatch /\ fails \in 0..MaxFail

\* Every variable holds what the code's fields can.
TypeOK == /\ TypeLog /\ TypeFiles /\ TypeSlots /\ TypeState /\ TypeWork
          /\ TypeFlight /\ TypeStep /\ TypeFlags /\ TypeRest

-----------------------------------------------------------------------------
\* Db::create: the slot of sequence zero written and synced, the other made.
Init ==
    /\ last = 0 /\ walLow = 0 /\ logDur = 0 /\ logSync = 0
    /\ holds = [s \in Seg |-> {}]
    /\ files = {} /\ fent = {} /\ fdur = {} /\ torn = {}
    /\ slot = [i \in Slots |-> [ok |-> i = 0, m |-> Blank]]
    /\ device = [i \in Slots |-> {[ok |-> i = 0, m |-> Blank]}]
    /\ mem = {} /\ frozen = {} /\ segs = {} /\ queue = <<>>
    /\ covered = 0 /\ mseq = 0 /\ owed = {} /\ pending = {} /\ retireTo = 0
    /\ merge = NoMerge /\ wedged = FALSE /\ nextSeg = 1
    /\ mpc = "idle" /\ drop = {} /\ land = 0 /\ err = FALSE
    /\ asked = "no" /\ phase = "up" /\ acked = 0 /\ fails = 0

\* A fault of one of the kinds allowed, counted.
Fault(kind) ==
    /\ kind \in Faults /\ fails < MaxFail
    /\ fails' = fails + 1

Larger(a, b) == IF a > b THEN a ELSE b

\* An error of the segment work's: the answer of the drain it is in, or left
\* for the writer's next look.
Errs == /\ err' = TRUE
        /\ asked' = IF asked \in {"taken", "joined"} THEN "failed" ELSE asked
NoErr == UNCHANGED <<err, asked, fails>>

Landed(j) == j.seg \notin frozen

\* A mutant of Between: the segment work never asks it.
NeverBetween == FALSE

\* seal_between_phases: the front's segment published and not yet durable.
Between == queue # <<>> /\ Landed(Head(queue))

-----------------------------------------------------------------------------
(* The writer.                                                              *)

\* A commit, and whether the policy syncs the log with it.
Write ==
    /\ phase = "up" /\ asked = "no" /\ last < MaxBatch
    /\ last' = last + 1
    /\ mem' = mem \cup {last + 1}
    /\ \/ logDur' = last + 1 /\ logSync' = last + 1 /\ acked' = last + 1
       \/ ~Always /\ UNCHANGED <<logDur, logSync, acked>>
    /\ UNCHANGED <<walLow, segf, slots, frozen, segs, work, flight, step, asked,
                   phase, fails>>

\* Db::land_seal, Db::seal_table and Db::hand_seal: room in the frozen list,
\* and no error to take first; the table frozen and its seal queued.
Hand(draining) ==
    /\ mem # {} /\ ~err /\ nextSeg <= MaxSeg
    /\ Cardinality(frozen) < FrozenCap
    /\ queue' = Append(queue, [seg |-> nextSeg, end |-> last,
                               draining |-> draining,
                               walUnsynced |-> logSync < last,
                               st |-> "writing"])
    /\ holds' = [holds EXCEPT ![nextSeg] = mem]
    /\ frozen' = frozen \cup {nextSeg}
    /\ nextSeg' = nextSeg + 1
    /\ mem' = {}

SealTable ==
    /\ phase = "up" /\ asked = "no"
    /\ Hand(FALSE)
    /\ UNCHANGED <<log, files, fent, fdur, torn, slots, segs, work, merge, wedged,
                   step, asked, phase, acked, fails>>

\* Db::flush: what is unsealed handed over, and the drain asked for.
Flush ==
    /\ phase = "up" /\ asked = "no"
    /\ \/ Hand(TRUE)
       \/ mem = {} /\ UNCHANGED <<queue, holds, frozen, nextSeg, mem>>
    /\ asked' = "sent"
    /\ UNCHANGED <<log, files, fent, fdur, torn, slots, segs, work, merge, wedged,
                   step, phase, acked, fails>>

\* A seal or a flush that Db::land_seal turns away: with an error to take, or
\* with the list full and no landing to come.
SealRefused ==
    /\ phase = "up" /\ asked = "no" /\ mem # {}
    /\ \/ err
       \/ Cardinality(frozen) >= FrozenCap /\ (wedged \/ queue = <<>>)
    /\ err' = FALSE
    /\ UNCHANGED <<log, segf, slots, state, work, flight, mpc, drop, land, asked,
                   phase, acked, fails>>

-----------------------------------------------------------------------------
(* The seal threads, each writing its own table's segment.                   *)

SetSt(i, st) == queue' = [queue EXCEPT ![i].st = st]

\* Phase R reached: the segment written, renamed into place and named.
SealNames(i) ==
    /\ phase = "up" /\ queue[i].st = "writing"
    /\ SetSt(i, "named")
    /\ files' = files \cup {queue[i].seg}
    /\ torn' = torn \ {queue[i].seg}
    /\ UNCHANGED <<log, holds, fent, fdur, slots, state, work, merge, wedged,
                   nextSeg, step, asked, phase, acked, fails>>

\* Phase D reached: the fsyncs paid, and the thread returns.
SealSyncs(i) ==
    /\ phase = "up" /\ queue[i].st = "named"
    /\ SetSt(i, "synced")
    /\ fdur' = fdur \cup {queue[i].seg}
    /\ UNCHANGED <<log, holds, files, fent, torn, slots, state, work, merge,
                   wedged, nextSeg, step, asked, phase, acked, fails>>

\* The thread returns an error, before its names or at its fsyncs.
SealThreadFails(i) ==
    /\ phase = "up"
    /\ \/ queue[i].st = "writing" /\ Fault("write")
       \/ queue[i].st = "named" /\ Fault("fsync")
    /\ SetSt(i, "failed")
    /\ UNCHANGED <<log, segf, slots, state, work, merge, wedged, nextSeg, step,
                   asked, phase, acked>>

-----------------------------------------------------------------------------
(* The manifest.                                                            *)

\* A mutant of WriteSlot that writes the one slot every time.
WriteOneSlot(m) ==
    LET new == [ok |-> TRUE, m |-> m]
    IN /\ slot' = [slot EXCEPT ![0] = new]
       /\ device' = [device EXCEPT ![0] = @ \cup {new} \cup
                        (IF "tear" \in Faults THEN {Torn} ELSE {})]

\* manifest_write_slot_unsynced: the next sequence's slot written in place.
WriteSlot(m) ==
    LET i   == m.seq % 2
        new == [ok |-> TRUE, m |-> m]
    IN /\ slot' = [slot EXCEPT ![i] = new]
       /\ device' = [device EXCEPT ![i] = @ \cup {new} \cup
                        (IF "tear" \in Faults THEN {Torn} ELSE {})]

\* A write of the slot that the device turned down, or took in part.
WriteSlotFails(m) ==
    \/ UNCHANGED slots
    \/ WriteSlot(m)

SyncSlot(i) == device' = [device EXCEPT ![i] = {slot[i]}]

\* A mutant of Retire that takes the live log with the covered one.
RetireAll(to) == walLow' = last

\* Maint::retire_covered of everything that waits.
Retire(to) == walLow' = Larger(walLow, to)

\* A mutant of LiveSet that counts one batch too many as covered.
LiveSetPast(live, c) == [seq |-> mseq + 1, covered |-> c + 1, names |-> live,
                         pending |-> {}]

\* What a publish of the live set names.
LiveSet(live, c) == [seq |-> mseq + 1, covered |-> c, names |-> live,
                     pending |-> {}]

-----------------------------------------------------------------------------
(* The segment work: a seal's landing.                                       *)

MaintReady == phase = "up" /\ mpc = "idle"
FrontIs(sts) == queue # <<>> /\ Head(queue).st \in sts

\* Mutants of Publish: the table left in the frozen list beside its segment, and
\* the covered sequence left where it was.
PublishKeeps(j) ==
    /\ segs' = segs \cup {j.seg} /\ covered' = Larger(covered, j.end)
    /\ UNCHANGED frozen
PublishUncovered(j) ==
    /\ segs' = segs \cup {j.seg} /\ frozen' = frozen \ {j.seg}
    /\ UNCHANGED covered

\* The segment published and its table retired, as one state, and its end
\* taken as covered.
Publish(j) ==
    /\ segs' = segs \cup {j.seg}
    /\ frozen' = frozen \ {j.seg}
    /\ covered' = Larger(covered, j.end)

\* A readable landing that fails: the thread joined, the seal counted out, and
\* no seal behind it lands.
Wedge ==
    /\ queue' = Tail(queue)
    /\ fdur' = fdur \cup {Head(queue).seg}
    /\ wedged' = TRUE /\ Errs

Readable == MaintReady /\ ~wedged /\ FrontIs({"named", "synced"})
            /\ ~Landed(Head(queue))

(***************************************************************************)
(* Maint::land_readable without pending names: the segments opened and       *)
(* published, then the directory fsynced.                                    *)
(***************************************************************************)
LandReadable ==
    /\ Readable /\ ~Pending
    /\ \/ /\ Publish(Head(queue))
          /\ fent' = files
          /\ NoErr /\ UNCHANGED <<queue, fdur, wedged>>
       \/ /\ Fault("land") /\ Wedge
          /\ UNCHANGED <<segs, frozen, covered, fent>>
       \/ /\ Fault("dirsync") /\ Publish(Head(queue)) /\ Wedge
          /\ UNCHANGED fent
    /\ UNCHANGED <<log, holds, files, torn, slots, mem, mseq, owed, pending,
                   retireTo, merge, nextSeg, mpc, drop, land, phase, acked>>

\* With them: the slot that names the front's segment pending is written first.
WritePending ==
    /\ Readable /\ Pending
    /\ LET s == Head(queue).seg
           m == [LiveSet(segs \cup {s}, Larger(covered, Head(queue).end))
                    EXCEPT !.pending = {s}]
       IN \/ /\ WriteSlot(m) /\ mpc' = "pend"
             /\ NoErr /\ UNCHANGED <<queue, fdur, wedged>>
          \/ /\ Fault("publish") /\ WriteSlotFails(m) /\ Wedge
             /\ UNCHANGED mpc
    /\ mseq' = mseq + 1
    /\ UNCHANGED <<log, holds, files, fent, torn, state, covered, owed, pending,
                   retireTo, merge, nextSeg, drop, land, phase, acked>>

\* Then the segment is published, the slot and the directory made durable by
\* the sync helper, and what the slot before left to retire is retired.
LandPending ==
    /\ phase = "up" /\ mpc = "pend" /\ queue # <<>>
    /\ \/ /\ Publish(Head(queue))
          /\ fent' = files /\ SyncSlot(mseq % 2)
          /\ pending' = {Head(queue).seg} /\ Retire(retireTo)
          /\ NoErr /\ UNCHANGED <<queue, fdur, wedged>>
       \/ /\ Fault("land") /\ Wedge
          /\ UNCHANGED <<segs, frozen, covered, fent, device, pending, walLow>>
       \/ /\ Fault("dirsync") /\ Publish(Head(queue)) /\ Wedge
          /\ UNCHANGED <<fent, device, pending, walLow>>
    /\ mpc' = "idle"
    /\ UNCHANGED <<last, logDur, logSync, holds, files, torn, slot, mem, mseq,
                   owed, retireTo, merge, nextSeg, drop, land, phase, acked>>

\* A mutant of LandFailed that leaves the failed seal at the front.
LandFailedStuck ==
    /\ MaintReady /\ ~wedged /\ FrontIs({"failed"})
    /\ Errs
    /\ UNCHANGED <<log, segf, slots, state, work, flight, mpc, drop, land, phase,
                   acked, fails>>

\* Maint::land_front of a seal whose thread failed: the queue stops unless the
\* segment was published already, which then stays live and covered.
LandFailed ==
    /\ MaintReady /\ ~wedged /\ FrontIs({"failed"})
    /\ queue' = Tail(queue)
    /\ wedged' = ~Landed(Head(queue))
    /\ Errs
    /\ UNCHANGED <<log, segf, slots, state, work, merge, nextSeg, mpc, drop, land,
                   phase, acked, fails>>

Durable == MaintReady /\ ~wedged /\ FrontIs({"synced"}) /\ Landed(Head(queue))

\* Whether the landing leaves its slot's sync for after the drain's answer: in
\* a drain, or of a drain's seal landed before the drain was taken up.
Defer == Defers /\ ~Pending /\ ~Head(queue).walUnsynced
         /\ (asked = "taken" \/ Head(queue).draining)

\* Maint::land_durable where the pending slot names the segment already.
LandNamed ==
    /\ Durable /\ Pending /\ pending # {}
    /\ queue' = Tail(queue)
    /\ retireTo' = Larger(retireTo, Head(queue).end)
    /\ UNCHANGED <<log, segf, slots, state, covered, mseq, owed, pending, merge,
                   wedged, nextSeg, step, asked, phase, acked, fails>>

\* Maint::publish_unsynced: the slot written, its sync and the retirement owed.
LandDeferred ==
    /\ Durable /\ Defer
    /\ LET m == LiveSet(segs, covered) IN
       \/ /\ WriteSlot(m)
          /\ owed' = {m.seq % 2}
          /\ retireTo' = Larger(retireTo, Head(queue).end)
          /\ NoErr
       \/ /\ Fault("publish") /\ WriteSlotFails(m) /\ Errs
          /\ UNCHANGED <<owed, retireTo>>
    /\ mseq' = mseq + 1
    /\ queue' = Tail(queue)
    /\ UNCHANGED <<log, segf, state, covered, pending, merge, wedged, nextSeg, mpc,
                   drop, land, phase, acked>>

\* Maint::publish, up to its fsync, of a seal's landing.
LandDurable ==
    /\ Durable /\ ~Defer /\ pending = {}
    /\ WriteSlot(LiveSet(segs, covered))
    /\ mseq' = mseq + 1
    /\ queue' = Tail(queue)
    /\ mpc' = "sync" /\ land' = Head(queue).end
    /\ UNCHANGED <<log, segf, state, covered, owed, pending, retireTo, merge,
                   wedged, nextSeg, drop, err, asked, phase, acked, fails>>

\* Its fsync, with what follows: what waited for a durable slot retired, and a
\* merge's inputs unlinked.
PublishSync ==
    /\ phase = "up" /\ mpc = "sync"
    /\ SyncSlot(mseq % 2)
    /\ owed' = {} /\ pending' = {}
    /\ retireTo' = Larger(retireTo, land)
    /\ IF land > 0 \/ owed # {} \/ pending # {}
       THEN Retire(retireTo') ELSE UNCHANGED walLow
    /\ files' = files \ drop /\ fent' = fent \ drop /\ fdur' = fdur \ drop
    /\ mpc' = "idle" /\ drop' = {} /\ land' = 0
    /\ UNCHANGED <<last, logDur, logSync, holds, torn, slot, state, covered, mseq,
                   flight, err, asked, phase, acked, fails>>

\* The publish fails, at its write or at its fsync: nothing is retired, and
\* the next publish takes the sequence after.
PublishFails ==
    /\ phase = "up" /\ mpc = "sync" /\ Fault("publish")
    /\ mpc' = "idle" /\ drop' = {} /\ land' = 0 /\ Errs
    /\ UNCHANGED <<log, segf, slots, state, work, flight, phase, acked>>

-----------------------------------------------------------------------------
(* Merges and promotions: a promotion is a merge of one segment.             *)

StartMerge ==
    /\ MaintReady /\ ~Between /\ merge = NoMerge /\ nextSeg <= MaxSeg
    /\ \E in \in SUBSET segs \ {{}} :
        /\ merge' = [in |-> in, out |-> {nextSeg}, done |-> FALSE]
        /\ holds' = [holds EXCEPT ![nextSeg] = UNION {holds[s] : s \in in}]
    /\ nextSeg' = nextSeg + 1
    /\ UNCHANGED <<log, files, fent, fdur, torn, slots, state, work, queue, wedged,
                   step, asked, phase, acked, fails>>

\* The merge's thread returns, its output written and it and its directory
\* entry synced.
MergeDone ==
    /\ phase = "up" /\ merge # NoMerge /\ ~merge.done
    /\ merge' = [merge EXCEPT !.done = TRUE]
    /\ files' = files \cup merge.out
    /\ fdur' = fdur \cup merge.out
    /\ fent' = files'
    /\ torn' = torn \ merge.out
    /\ UNCHANGED <<log, holds, slots, state, work, queue, wedged, nextSeg, step,
                   asked, phase, acked, fails>>

\* Maint::join_merge up to its publish's fsync, held back while a seal is
\* between its phases; or the merge's error, which leaves its inputs live.
LandMerge ==
    /\ MaintReady /\ merge.done /\ ~Between
    /\ asked = "taken" => queue = <<>>
    /\ merge' = NoMerge
    /\ \/ /\ segs' = (segs \ merge.in) \cup merge.out
          /\ WriteSlot(LiveSet(segs', covered))
          /\ mseq' = mseq + 1
          /\ drop' = merge.in /\ mpc' = "sync"
          /\ NoErr
       \/ /\ Fault("land") /\ Errs
          /\ UNCHANGED <<segs, slots, mseq, drop, mpc>>
    /\ UNCHANGED <<log, segf, mem, frozen, covered, owed, pending, retireTo, queue,
                   wedged, nextSeg, land, phase, acked>>

-----------------------------------------------------------------------------
(* The drain.                                                               *)

\* A mutant of DrainTaken that waits for a landing where none is to come.
DrainTakenWedged ==
    /\ MaintReady /\ asked = "sent" /\ asked' = "taken"
    /\ UNCHANGED <<log, segf, slots, state, work, flight, step, phase, acked,
                   fails>>

DrainTaken ==
    /\ MaintReady /\ asked = "sent"
    /\ asked' = IF wedged THEN "failed" ELSE "taken"
    /\ UNCHANGED <<log, segf, slots, state, work, flight, step, phase, acked,
                   fails>>

\* Maint::answer: every seal landed and the merges in flight joined.
DrainJoins ==
    /\ MaintReady /\ asked = "taken" /\ queue = <<>> /\ merge = NoMerge
    /\ asked' = "joined"
    /\ UNCHANGED <<log, segf, slots, state, work, flight, step, phase, acked,
                   fails>>

\* Mutants of DrainAnswer: a failed drain never answered, and the slot a drain
\* left unsynced forgotten behind the answer.
DrainAnswersWell ==
    /\ MaintReady /\ asked = "joined"
    /\ acked' = IF err THEN acked ELSE last
    /\ asked' = "no" /\ err' = FALSE /\ mpc' = "owed"
    /\ UNCHANGED <<log, segf, slots, state, work, flight, drop, land, phase, fails>>
DrainForgets ==
    /\ MaintReady /\ asked \in {"joined", "failed"}
    /\ acked' = IF err \/ asked = "failed" THEN acked ELSE last
    /\ asked' = "no" /\ err' = FALSE
    /\ UNCHANGED <<log, segf, slots, state, work, flight, mpc, drop, land, phase,
                   fails>>

\* The drain answered, and the writer taking an error left meanwhile.
DrainAnswer ==
    /\ MaintReady /\ asked \in {"joined", "failed"}
    /\ acked' = IF err \/ asked = "failed" THEN acked ELSE last
    /\ asked' = "no" /\ err' = FALSE
    /\ mpc' = "owed"
    /\ UNCHANGED <<log, segf, slots, state, work, flight, drop, land, phase, fails>>

\* Maint::sync_owed_slot, behind the answer.
SyncOwedSlot ==
    /\ phase = "up" /\ mpc = "owed"
    /\ mpc' = "idle" /\ owed' = {}
    /\ \/ /\ owed # {}
          /\ \E i \in owed : SyncSlot(i)
          /\ Retire(retireTo)
          /\ UNCHANGED <<err, fails>>
       \/ /\ owed = {} /\ UNCHANGED <<device, walLow, err, fails>>
       \/ /\ owed # {} /\ Fault("publish") /\ err' = TRUE
          /\ UNCHANGED <<device, walLow>>
    /\ UNCHANGED <<last, logDur, logSync, segf, slot, state, covered, mseq, pending,
                   retireTo, flight, drop, land, asked, phase, acked>>

-----------------------------------------------------------------------------
(* The close, and failures.                                                 *)

\* Everything the process held is gone.
Forget ==
    /\ phase' = "down" /\ asked' = "no" /\ logSync' = 0
    /\ mem' = {} /\ frozen' = {} /\ segs' = {} /\ queue' = <<>>
    /\ covered' = 0 /\ mseq' = 0 /\ owed' = {} /\ pending' = {} /\ retireTo' = 0
    /\ merge' = NoMerge /\ wedged' = FALSE /\ nextSeg' = 1
    /\ mpc' = "idle" /\ drop' = {} /\ land' = 0 /\ err' = FALSE
    /\ UNCHANGED <<holds, acked>>

\* Maint::stop as the store is dropped: the threads joined and nothing landed,
\* and the slot made to say what is durable.
Stop ==
    /\ MaintReady /\ asked = "no"
    /\ LET made == {queue[i].seg : i \in {j \in DOMAIN queue :
                                            queue[j].st # "failed"}}
                   \cup merge.out
       IN files' = files \cup made /\ fdur' = fdur \cup made /\ torn' = torn \ made
    /\ \/ /\ pending # {}
          /\ LET m == LiveSet(segs, covered)
                 i == m.seq % 2
             IN /\ slot' = [slot EXCEPT ![i] = [ok |-> TRUE, m |-> m]]
                /\ device' = [device EXCEPT ![i] = {[ok |-> TRUE, m |-> m]}]
          /\ Retire(retireTo)
       \/ /\ pending = {} /\ owed # {}
          /\ \E i \in owed : SyncSlot(i)
          /\ Retire(retireTo) /\ UNCHANGED slot
       \/ pending = {} /\ owed = {} /\ UNCHANGED <<slots, walLow>>
    /\ Forget
    /\ UNCHANGED <<last, logDur, fent, fails>>

\* The process dies and the machine does not: the page cache stands.
Kill ==
    /\ phase \in {"up", "opening"} /\ Fault("kill")
    /\ Forget
    /\ UNCHANGED <<last, walLow, logDur, files, fent, fdur, torn, slots>>

(***************************************************************************)
(* The machine loses power: of the log any prefix past what a barrier        *)
(* covered is left, of the names any the directory's barrier had not covered *)
(* may be gone, of the segments any not fsynced may be torn, and each slot   *)
(* is one of what the device may hold.                                       *)
(***************************************************************************)
PowerLoss ==
    /\ phase \in {"up", "down", "opening"} /\ Fault("power")
    /\ \E k \in Larger(logDur, walLow)..last : last' = k /\ logDur' = k
    /\ \E gone \in SUBSET (files \ fent) :
        /\ files' = files \ gone
        /\ \E ruin \in SUBSET (files' \ fdur) :
            /\ torn' = (torn \cap files') \cup ruin
            /\ fdur' = files' \ torn'
    /\ fent' = files'
    /\ \E c0 \in device[0], c1 \in device[1] :
        slot' = [i \in Slots |-> IF i = 0 THEN c0 ELSE c1]
    /\ device' = [i \in Slots |-> {slot'[i]}]
    /\ Forget
    /\ UNCHANGED walLow

-----------------------------------------------------------------------------
(* Db::open.                                                                *)

Valid   == {slot[i].m : i \in {j \in Slots : slot[j].ok}}
\* A mutant of Newest: the older slot taken.
Oldest(ms) == CHOOSE m \in ms : \A n \in ms : n.seq >= m.seq

Newest(ms) == CHOOSE m \in ms : \A n \in ms : n.seq <= m.seq

\* pending_whole: the pending names read back.
Whole(names) == names \subseteq files \ torn

\* The slots the open chooses among: the newest is out of it where its pending
\* segments are not whole.
Skipped == Valid # {} /\ ~Whole(Newest(Valid).pending)
Candidates == IF Skipped THEN Valid \ {Newest(Valid)} ELSE Valid

\* The one valid slot skipped leaves no manifest, and the open scans the
\* directory as for a store from before manifests, trusting every name in it:
\* what it makes of them is not modelled.
Scans == Skipped /\ Candidates = {}

\* The manifest cannot be opened: no slot is left, a segment it names is missing
\* or torn, or the log starts past what it covers.
Refuses ==
    \/ Candidates = {}
    \/ LET m == Newest(Candidates) IN
         ~Whole(m.names) \/ (walLow > m.covered /\ last > walLow)

\* The orphans swept, the segments opened, the rest of the log replayed into
\* the live table, and the slot rewritten where a pending name was in it.
Open ==
    /\ phase = "down"
    /\ IF Refuses
       THEN /\ phase' = IF Scans THEN "scanned" ELSE "refused"
            /\ UNCHANGED <<log, segf, slots, mem, segs, covered, mseq, retireTo, nextSeg>>
       ELSE LET m    == Newest(Candidates)
                had  == Skipped \/ m.pending # {}
                lost == m.covered > last
            IN /\ segs' = m.names /\ covered' = m.covered
               /\ files' = files \cap m.names /\ fent' = fent \cap m.names
               /\ fdur' = fdur \cap m.names /\ torn' = {}
               /\ last' = IF last > walLow THEN Larger(last, m.covered) ELSE m.covered
               /\ mem' = (m.covered + 1)..last'
               /\ walLow' = IF lost THEN m.covered ELSE walLow
               /\ logDur' = IF lost THEN m.covered ELSE logDur
               /\ logSync' = last' /\ retireTo' = walLow'
               /\ nextSeg' \in {n \in 1..(MaxSeg + 1) :
                                   /\ \A s \in m.names : s < n
                                   /\ n = 1 \/ n - 1 \in m.names}
               /\ mseq' = IF had THEN m.seq + 1 ELSE m.seq
               /\ IF had
                  THEN WriteSlot([m EXCEPT !.seq = mseq', !.pending = {}])
                  ELSE UNCHANGED slots
               /\ phase' = IF had THEN "opening" ELSE "up"
               /\ UNCHANGED holds
    /\ UNCHANGED <<frozen, owed, pending, queue, merge, wedged, step, asked, acked,
                   fails>>

\* That slot's fsync.
OpenSyncs ==
    /\ phase = "opening"
    /\ SyncSlot(mseq % 2)
    /\ phase' = "up"
    /\ UNCHANGED <<log, segf, slot, state, work, flight, step, asked, acked, fails>>

-----------------------------------------------------------------------------
Writer == Write \/ SealTable \/ Flush \/ SealRefused
Thread(s) == \E i \in DOMAIN queue :
                /\ queue[i].seg = s
                /\ SealNames(i) \/ SealSyncs(i) \/ SealThreadFails(i)
Maint == \/ LandReadable \/ WritePending \/ LandPending \/ LandFailed
         \/ LandNamed \/ LandDeferred \/ LandDurable \/ PublishSync
         \/ PublishFails \/ LandMerge \/ DrainTaken \/ DrainJoins \/ DrainAnswer
         \/ SyncOwedSlot
Opens == Open \/ OpenSyncs

Next == \/ Writer \/ (\E s \in Seg : Thread(s)) \/ Maint \/ StartMerge
        \/ MergeDone \/ Stop \/ Kill \/ PowerLoss \/ Opens

\* Every thread runs and the segment work's loop polls what finished.
Spec == /\ Init /\ [][Next]_vars
        /\ WF_vars(Maint) /\ WF_vars(MergeDone)
        /\ \A s \in Seg : WF_vars(Thread(s))

-----------------------------------------------------------------------------
(* Properties.                                                              *)

\* Whatever the failure, the store opens: a slot reads whole, its segments are
\* there and whole, the log reaches back to what it covers, and the directory is
\* never scanned for want of a manifest.
NeverRefused == phase \notin {"refused", "scanned"}

\* Each batch has one home: the live table, one frozen table or one live
\* segment.  None is unreachable, and none is read twice, through a landing, a
\* merge, a failed landing or a replay.
Homes(b) == Cardinality({s \in frozen \cup segs : b \in holds[s]})
            + (IF b \in mem THEN 1 ELSE 0)
OneHome == phase = "up" => \A b \in 1..last : Homes(b) = 1

\* What a synced commit or an answered flush promised is still in the store.
AckedKept == phase = "up" => acked <= last

\* At every instant a power loss is survived: whatever the device holds of the
\* two slots, the slot the open would take names durable segments that hold
\* every batch it covers, the log reaches back to it, and no promised batch is
\* past both.
OnDevice(names) == names \subseteq fent \cap fdur
Holds(m) == UNION {holds[s] : s \in m.names} = 1..m.covered
Safe(m) ==
    /\ OnDevice(m.names \ m.pending) /\ Holds(m)
    /\ walLow <= m.covered /\ acked <= Larger(m.covered, logDur)
CrashSafe ==
    phase \in {"up", "down", "opening"} =>
      \A c0 \in device[0], c1 \in device[1] :
        LET ms == {c.m : c \in {d \in {c0, c1} : d.ok}} IN
          /\ ms # {}
          /\ Safe(Newest(ms))
          /\ OnDevice(Newest(ms).pending) \/
                /\ ms # {Newest(ms)}
                /\ Safe(Newest(ms \ {Newest(ms)}))

\* A manifest written while the store is up names, but for what it flags
\* pending, only segments whose data and directory entry are durable: none of a
\* seal between its phases, of a merge still writing, or unlinked behind a
\* publish.
PublishesDurable ==
    [][\A i \in Slots :
         phase = "up" /\ phase' = "up" /\ slot'[i] # slot[i] =>
            OnDevice(slot'[i].m.names \ slot'[i].m.pending)]_vars

\* A flush is answered, with an error or without.
FlushAnswered == asked # "no" ~> asked = "no"

\* A slot a drain left unsynced is synced or superseded.
OwedPaid == owed # {} ~> owed = {}

\* A writer waiting for room in the frozen list is let go.
Stalled == phase = "up" /\ Cardinality(frozen) >= FrozenCap /\ ~wedged
           /\ queue # <<>>
NoStall == Stalled ~> ~Stalled
=============================================================================
