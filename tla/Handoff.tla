------------------------------ MODULE Handoff ------------------------------
(***************************************************************************)
(* How tables pass from the writer to the store in src/src/db.rs: the live   *)
(* table frozen under a fresh one or handed to a seal as it is, the landing   *)
(* that retires it, both by compare-and-swap of the one state pointer, and   *)
(* the writer's waits, which tell a landing to come from one that failed by   *)
(* a count, a flag and an error kept beside that pointer.                    *)
(*                                                                         *)
(* A caller writes batches of two writes.  A write is <<batch, 1>> or         *)
(* <<batch, 2>>, and a table and the segment its seal makes have one name.    *)
(* Crashes and the manifest are Landing's subject.                           *)
(***************************************************************************)
EXTENDS Naturals, Sequences, FiniteSets, FiniteSetsExt

CONSTANTS
    FrozenCap,   \* FROZEN_CAP
    Faults,      \* what may go wrong, of the kinds below
    MaxBatch,    \* bound: the batches a caller makes
    MaxFail      \* bound: the faults of a behaviour

\* A seal thread's failure, its landing's before and after the publish, and a
\* merge's.
FaultKind == {"seal", "land", "publish", "merge"}

ASSUME HandoffAssumption ==
    /\ FrozenCap \in Nat \ {0} /\ Faults \subseteq FaultKind
    /\ MaxBatch \in Nat /\ MaxFail \in Nat

Batch == 1..MaxBatch
Op    == Batch \X {1, 2}
Table == 1..(2 * MaxBatch + 1)      \* a table retired had a write in it
None  == 0

\* What the state pointer leads to, and a seal in flight (SealJob).
State == [mem : Table, frozen : Seq(Table), segs : SUBSET Table]
Job   == [tab : Table, st : {"writing", "named", "synced", "failed"},
          landed : BOOLEAN, first : BOOLEAN]

VARIABLES
    \* Shared.
    st,        \* the published state
    inSeal,    \* in_seal
    wedged,    \* seal_wedged
    merr,      \* maint_err
    \* Tables and segments.
    cont,      \* the writes in each table
    comm,      \* those under its committed watermark
    seg,       \* the writes in each segment
    nextTab,   \* the next fresh table
    parts,     \* the partitions over the whole key range
    \* The writer.
    handed,    \* mem_handed, or None
    pend,      \* pending_err
    wpc, call, \* where it stands, in which call
    loop,      \* the wait it is in: take_fresh_mem's or land_seal's
    seals,     \* the count it read
    seen,      \* the state it read
    \* The segment work, and the seals handed to it, oldest first.
    queue, mpc, mcur,
    outcome,   \* what the seal being counted out came to
    asked,     \* a drain: none, sent, taken, or its answer
    \* The caller, and history.
    b, n,      \* the batch it is at, and the writes of it made
    done,      \* what the call that ended each batch returned
    alarm,     \* the writer has been told that a seal did not land
    fails

shared == <<st, inSeal, wedged, merr>>
data   == <<cont, comm, seg, nextTab, parts>>
wait   == <<loop, seals, seen>>
writer == <<handed, pend, wpc, call, wait>>
maint  == <<queue, mpc, mcur, outcome, asked>>
ghost  == <<b, n, done, alarm>>
vars   == <<shared, data, writer, maint, ghost, fails>>

\* Every variable holds what the code's fields can.
TypeOK ==
    /\ st \in State /\ inSeal \in Nat /\ wedged \in BOOLEAN /\ merr \in BOOLEAN
    /\ cont \in [Table -> SUBSET Op] /\ comm \in [Table -> SUBSET Op]
    /\ seg \in [Table -> SUBSET Op]
    /\ nextTab \in 2..(2 * MaxBatch + 2) /\ parts \in Nat
    /\ handed \in Table \cup {None} /\ pend \in BOOLEAN
    /\ wpc \in {"idle", "put", "count", "look", "err", "wedge", "freeze", "swap",
                "last", "commit", "first", "hand", "drain"}
    /\ call \in {"put", "seal", "sync", "flush"} /\ loop \in {"fresh", "land"}
    /\ seals \in Nat /\ seen \in State
    /\ queue \in Seq(Job) /\ mcur \in State
    /\ mpc \in {"idle", "swap", "out", "wedge", "err"}
    /\ outcome \in {"landed", "err", "wedge"}
    /\ asked \in {"no", "sent", "taken", "ok", "err"}
    /\ b \in 1..(MaxBatch + 1) /\ n \in 0..2
    /\ done \in [Batch -> {"no", "ok", "err"}]
    /\ alarm \in BOOLEAN /\ fails \in 0..MaxFail

\* Db::create: an empty table, and the segment work on its own thread.
Init ==
    /\ st = [mem |-> 1, frozen |-> <<>>, segs |-> {}]
    /\ inSeal = 0 /\ wedged = FALSE /\ merr = FALSE
    /\ cont = [t \in Table |-> {}] /\ comm = [t \in Table |-> {}]
    /\ seg = [t \in Table |-> {}] /\ nextTab = 2 /\ parts = 0
    /\ handed = None /\ pend = FALSE /\ wpc = "idle" /\ call = "put"
    /\ loop = "fresh" /\ seals = 0 /\ seen = st
    /\ queue = <<>> /\ mpc = "idle" /\ mcur = st /\ outcome = "landed"
    /\ asked = "no"
    /\ b = 1 /\ n = 0 /\ done = [i \in Batch |-> "no"]
    /\ alarm = FALSE /\ fails = 0

Fault(kind) == kind \in Faults /\ fails < MaxFail /\ fails' = fails + 1

-----------------------------------------------------------------------------
(* The writer's calls.  A call that ends a batch is made at its end.         *)

Boundary == wpc = "idle" /\ n \in {0, 2}

\* A call's return: what it tells the caller of the batch it ends.
Return(r) ==
    /\ wpc' = "idle"
    /\ IF n = 2 THEN done' = [done EXCEPT ![b] = r] /\ b' = b + 1 /\ n' = 0
       ELSE UNCHANGED <<b, n, done>>

\* A write into the live table, staged.
Stage == /\ cont' = [cont EXCEPT ![st.mem] = @ \cup {<<b, n + 1>>}]
         /\ n' = n + 1

\* MemTable::commit of the live table: everything in it.
CommitMem == comm' = [comm EXCEPT ![st.mem] = cont[st.mem]]

\* The start of a wait.
Waits(l) == wpc' = "count" /\ loop' = l

\* put, append and delete: writes_go, and the write.
Put ==
    /\ wpc = "idle" /\ b <= MaxBatch /\ n < 2
    /\ \/ /\ handed = None /\ Stage
          /\ UNCHANGED <<wpc, call, loop>>
       \/ /\ handed # None /\ Waits("fresh") /\ call' = "put"
          /\ UNCHANGED <<cont, n>>
    /\ UNCHANGED <<shared, comm, seg, nextTab, parts, handed, pend, seals, seen, maint,
                   b, done, alarm, fails>>

\* writes_go's end: the write made.
PutGoes ==
    /\ wpc = "put"
    /\ Stage /\ wpc' = "idle"
    /\ UNCHANGED <<shared, comm, seg, nextTab, parts, handed, pend, call, wait, maint,
                   b, done, alarm, fails>>

\* Db::commit: an error left for it returned first; nothing for a table
\* handed; otherwise the batch committed and, where the table is due, sealed.
Commit ==
    /\ Boundary
    /\ \/ /\ pend /\ pend' = FALSE /\ Return("err")
          /\ UNCHANGED <<merr, comm, call, loop>>
       \/ /\ ~pend /\ merr /\ merr' = FALSE /\ Return("err")
          /\ UNCHANGED <<pend, comm, call, loop>>
       \/ /\ ~pend /\ ~merr /\ handed # None /\ Return("ok")
          /\ UNCHANGED <<pend, merr, comm, call, loop>>
       \/ /\ ~pend /\ ~merr /\ handed = None /\ CommitMem
          /\ \/ Return("ok") /\ UNCHANGED <<call, loop>>
             \/ /\ cont[st.mem] # {} /\ Waits("land") /\ call' = "seal"
                /\ UNCHANGED <<b, n, done>>
          /\ UNCHANGED <<pend, merr>>
    /\ UNCHANGED <<st, inSeal, wedged, cont, seg, nextTab, parts, handed, seals, seen,
                   maint, alarm, fails>>

\* Db::sync: what is staged committed, and the table handed without a freeze.
Sync ==
    /\ Boundary
    /\ \/ /\ pend /\ pend' = FALSE /\ Return("err")
          /\ UNCHANGED <<comm, call>>
       \/ /\ ~pend /\ handed # None /\ Return("ok")
          /\ UNCHANGED <<pend, comm, call>>
       \/ /\ ~pend /\ handed = None /\ CommitMem
          /\ IF cont[st.mem] = {} THEN Return("ok") /\ UNCHANGED call
             ELSE wpc' = "first" /\ call' = "sync" /\ UNCHANGED <<b, n, done>>
          /\ UNCHANGED pend
    /\ UNCHANGED <<shared, cont, seg, nextTab, parts, handed, wait, maint, alarm, fails>>

\* Db::seal and Db::flush, to the end of take_fresh_mem.
Seal(c) ==
    /\ Boundary
    /\ \/ /\ pend /\ pend' = FALSE /\ Return("err")
          /\ UNCHANGED <<call, loop>>
       \/ /\ ~pend /\ call' = c
          /\ IF handed # None THEN Waits("fresh") ELSE wpc' = "commit" /\ UNCHANGED loop
          /\ UNCHANGED <<pend, b, n, done>>
    /\ UNCHANGED <<shared, data, handed, seals, seen, maint, alarm, fails>>

\* The rest of Db::seal up to land_seal.
SealCommits ==
    /\ wpc = "commit"
    /\ CommitMem
    /\ IF cont[st.mem] # {} THEN Waits("land") /\ UNCHANGED <<asked, b, n, done>>
       ELSE /\ UNCHANGED loop
            /\ IF call = "flush"
               THEN wpc' = "drain" /\ asked' = "sent" /\ UNCHANGED <<b, n, done>>
               ELSE Return("ok") /\ UNCHANGED asked
    /\ UNCHANGED <<shared, cont, seg, nextTab, parts, handed, pend, call, seals, seen,
                   queue, mpc, mcur, outcome, alarm, fails>>

-----------------------------------------------------------------------------
(* The writer's waits: take_fresh_mem's loop and land_seal's.               *)

Room(s) == Len(s.frozen) < FrozenCap

\* A mutant of GivesUp: the write dropped and nobody told.
GivesUpQuietly ==
    IF call = "put" THEN n' = n + 1 /\ wpc' = "idle" /\ UNCHANGED <<pend, b, done>>
    ELSE Return("err") /\ UNCHANGED pend

\* A wait that ends in an error: a write is dropped and the error left for the
\* next commit, any other call returns it.
GivesUp ==
    IF call = "put" THEN pend' = TRUE /\ n' = n + 1 /\ wpc' = "idle" /\ UNCHANGED <<b, done>>
    ELSE Return("err") /\ UNCHANGED pend

\* take_fresh_mem's return: the live table is the writer's again.
Fresh == handed' = None /\ wpc' = (IF call = "put" THEN "put" ELSE "commit")

\* The count, before the state.
ReadCount ==
    /\ wpc = "count"
    /\ seals' = inSeal /\ wpc' = "look"
    /\ UNCHANGED <<shared, data, handed, pend, call, loop, seen, maint, ghost, fails>>

\* The state: the table replaced, or room in the list.
ReadState ==
    /\ wpc = "look" /\ seen' = st
    /\ CASE loop = "fresh" /\ st.mem # handed -> Fresh
         [] loop = "land" /\ Room(st) -> wpc' = "last" /\ UNCHANGED handed
         [] OTHER -> wpc' = "err" /\ UNCHANGED handed
    /\ UNCHANGED <<shared, data, pend, call, loop, seals, maint, ghost, fails>>

\* take_maint_err.
AskErr ==
    /\ wpc = "err"
    /\ \/ /\ merr /\ merr' = FALSE /\ GivesUp
       \/ /\ ~merr /\ wpc' = "wedge" /\ UNCHANGED <<merr, pend, b, n, done>>
    /\ UNCHANGED <<st, inSeal, wedged, data, handed, call, wait, maint, alarm, fails>>

\* A mutant of AskWedged: the count as it is after the state was read.
AskWedgedLate ==
    /\ wpc = "wedge"
    /\ IF inSeal = 0 \/ wedged THEN GivesUp /\ alarm' = TRUE
       ELSE /\ wpc' = (IF loop = "fresh" /\ Room(seen) THEN "freeze" ELSE "count")
            /\ UNCHANGED <<pend, b, n, done, alarm>>
    /\ UNCHANGED <<shared, data, handed, call, wait, maint, fails>>

\* No seal in flight, or a queue that stopped: the table will not land.
\* Otherwise the handed table is frozen where there is room, or the look made
\* again after a while.
AskWedged ==
    /\ wpc = "wedge"
    /\ IF seals = 0 \/ wedged THEN GivesUp /\ alarm' = TRUE
       ELSE /\ wpc' = (IF loop = "fresh" /\ Room(seen) THEN "freeze" ELSE "count")
            /\ UNCHANGED <<pend, b, n, done, alarm>>
    /\ UNCHANGED <<shared, data, handed, call, wait, maint, fails>>

\* The error land_seal looks for once there is room.
LastErr ==
    /\ wpc = "last"
    /\ \/ /\ merr /\ merr' = FALSE /\ Return("err")
       \/ /\ ~merr /\ wpc' = "freeze" /\ UNCHANGED <<merr, b, n, done>>
    /\ UNCHANGED <<st, inSeal, wedged, data, handed, pend, call, wait, maint, alarm, fails>>

\* A mutant of FrozenOver: the table at the list's front.
FrozenOverFront(s) ==
    [s EXCEPT !.mem = nextTab, !.frozen = <<s.mem>> \o @]

\* frozen_over: the live table at the back of the list, under a fresh one.
FrozenOver(s) == [s EXCEPT !.mem = nextTab, !.frozen = Append(@, s.mem)]

\* Whether a freeze may be made over s: its table still live, and room for it.
\* The writer's own live table is its own to freeze.
Freezes(s) == (loop = "fresh" => s.mem = handed) /\ Room(s)

\* freeze_table: the state loaded and looked at,
Freeze ==
    /\ wpc = "freeze"
    /\ IF Freezes(st)
       THEN seen' = st /\ wpc' = "swap"
       ELSE loop = "fresh" /\ UNCHANGED seen /\ wpc' = "count"
    /\ UNCHANGED <<shared, data, handed, pend, call, loop, seals, maint, ghost, fails>>

\* and swapped, or looked at again where another publish came first.
FreezeSwap ==
    /\ wpc = "swap"
    /\ \/ /\ st # seen /\ wpc' = "freeze" /\ UNCHANGED <<st, nextTab, handed>>
       \/ /\ st = seen /\ st' = FrozenOver(st) /\ nextTab' = nextTab + 1
          /\ IF loop = "fresh" THEN Fresh ELSE wpc' = "first" /\ UNCHANGED handed
    /\ UNCHANGED <<inSeal, wedged, merr, cont, comm, seg, parts, pend, call, wait, maint,
                   ghost, fails>>

-----------------------------------------------------------------------------
(* seal_table: the table handed to a thread of its own.                      *)

\* seals_first_partition reads the count, before the state.
FirstCount ==
    /\ wpc = "first"
    /\ seals' = inSeal /\ wpc' = "hand"
    /\ UNCHANGED <<shared, data, handed, pend, call, loop, seen, maint, ghost, fails>>

\* A mutant of SealsFirst that takes an empty store for enough.
SealsFirstEmpty == st.segs = {}

SealsFirst == seals = 0 /\ st.segs = {}

\* The table of the seal: the one just frozen, or the live one a sync hands.
Sealed == IF call = "sync" THEN st.mem ELSE st.frozen[Len(st.frozen)]

\* A mutant of HandSeal: the seal queued and not counted.
HandSealUncounted ==
    /\ wpc = "hand"
    /\ queue' = Append(queue, [tab |-> Sealed, st |-> "writing", landed |-> FALSE,
                               first |-> FALSE])
    /\ handed' = IF call = "sync" THEN Sealed ELSE handed
    /\ Return("ok")
    /\ UNCHANGED <<st, inSeal, wedged, merr, data, pend, call, wait, mpc, mcur, outcome,
                   asked, alarm, fails>>

\* hand_seal: the seal counted, and queued.  A piece too large for a partition,
\* or with a delete in it, is not one.
HandSeal ==
    /\ wpc = "hand"
    /\ inSeal' = inSeal + 1
    /\ \E fits \in BOOLEAN :
        queue' = Append(queue, [tab |-> Sealed, st |-> "writing", landed |-> FALSE,
                                first |-> SealsFirst /\ fits])
    /\ handed' = IF call = "sync" THEN Sealed ELSE handed
    /\ IF call = "flush"
       THEN wpc' = "drain" /\ asked' = "sent" /\ UNCHANGED <<b, n, done>>
       ELSE Return("ok") /\ UNCHANGED asked
    /\ UNCHANGED <<st, wedged, merr, data, pend, call, wait, mpc, mcur, outcome, alarm,
                   fails>>

\* The seal's thread: its segment named, its fsyncs returned, or an error.
SealNames(i) ==
    /\ queue[i].st = "writing"
    /\ queue' = [queue EXCEPT ![i].st = "named"]
    /\ seg' = [seg EXCEPT ![queue[i].tab] = cont[queue[i].tab]]
    /\ UNCHANGED <<shared, cont, comm, nextTab, parts, writer, mpc, mcur, outcome, asked,
                   ghost, fails>>

SealSyncs(i) ==
    /\ queue[i].st = "named"
    /\ queue' = [queue EXCEPT ![i].st = "synced"]
    /\ UNCHANGED <<shared, data, writer, mpc, mcur, outcome, asked, ghost, fails>>

SealThreadFails(i) ==
    /\ queue[i].st \in {"writing", "named"} /\ Fault("seal")
    /\ queue' = [queue EXCEPT ![i].st = "failed"]
    /\ UNCHANGED <<shared, data, writer, mpc, mcur, outcome, asked, ghost>>

Thread(t) == \E i \in DOMAIN queue :
                /\ queue[i].tab = t
                /\ SealNames(i) \/ SealSyncs(i) \/ SealThreadFails(i)

-----------------------------------------------------------------------------
(* The segment work: the oldest seal landed.                                *)

Front == Head(queue)
Turn  == mpc = "idle" /\ queue # <<>> /\ ~wedged

\* publish_segs_with, for a landing over s: the live table replaced by an empty
\* one, or the oldest frozen one taken off the list, and the segment in.
LandOver(s, t) ==
    LET in == [s EXCEPT !.segs = @ \cup {t}] IN
    CASE s.mem = t -> [in EXCEPT !.mem = nextTab]
      [] s.mem # t /\ s.frozen # <<>> /\ Head(s.frozen) = t -> [in EXCEPT !.frozen = Tail(@)]
      [] OTHER -> in

\* land_readable of a seal whose segment is named: the state loaded,
LandReadable ==
    /\ Turn /\ ~Front.landed /\ Front.st \in {"named", "synced"}
    /\ mcur' = st /\ mpc' = "swap"
    /\ UNCHANGED <<shared, data, writer, queue, outcome, asked, ghost, fails>>

\* A mutant of LandSwap that stores what it made, whatever was published since.
LandSwapBlind ==
    /\ mpc = "swap"
    /\ st' = LandOver(mcur, Front.tab) /\ mpc' = "idle"
    /\ nextTab' = IF mcur.mem = Front.tab THEN nextTab + 1 ELSE nextTab
    /\ parts' = IF Front.first THEN parts + 1 ELSE parts
    /\ queue' = [queue EXCEPT ![1].landed = TRUE]
    /\ UNCHANGED <<inSeal, wedged, merr, cont, comm, seg, writer, mcur, outcome, asked,
                   ghost, fails>>

\* and swapped, or made again over the state the writer published first.
LandSwap ==
    /\ mpc = "swap"
    /\ \/ /\ st # mcur /\ mcur' = st
          /\ UNCHANGED <<st, nextTab, parts, queue, mpc>>
       \/ /\ st = mcur /\ st' = LandOver(st, Front.tab) /\ mpc' = "idle"
          /\ nextTab' = IF st.mem = Front.tab THEN nextTab + 1 ELSE nextTab
          /\ parts' = IF Front.first THEN parts + 1 ELSE parts
          /\ queue' = [queue EXCEPT ![1].landed = TRUE]
          /\ UNCHANGED mcur
    /\ UNCHANGED <<inSeal, wedged, merr, cont, comm, seg, writer, outcome, asked, ghost,
                   fails>>

\* The front taken off the queue, to be counted out as what it came to.
CountsOut(o) ==
    /\ queue' = Tail(queue) /\ outcome' = o /\ mpc' = "out"
    /\ UNCHANGED <<shared, data, writer, mcur, asked, ghost>>

\* The segment cannot be opened: land_front_readable's error.
LandFails ==
    /\ Turn /\ ~Front.landed /\ Front.st \in {"named", "synced"}
    /\ Fault("land") /\ CountsOut("wedge")

\* land_front of a seal whose thread failed.
FrontFailed ==
    /\ Turn /\ Front.st = "failed" /\ UNCHANGED fails
    /\ CountsOut(IF Front.landed THEN "err" ELSE "wedge")

\* land_durable: the manifest written, or not.
LandDurable ==
    /\ Turn /\ Front.landed /\ Front.st = "synced"
    /\ \/ CountsOut("landed") /\ UNCHANGED fails
       \/ CountsOut("err") /\ Fault("publish")

\* A mutant of CountOut: a seal that will never land left in the count, and the
\* queue not stopped.
CountOutLeft ==
    /\ mpc = "out"
    /\ inSeal' = IF outcome = "wedge" THEN inSeal ELSE inSeal - 1
    /\ mpc' = IF outcome = "landed" THEN "idle" ELSE "err"
    /\ UNCHANGED <<st, wedged, merr, data, writer, queue, mcur, outcome, asked, ghost, fails>>

\* The seal counted out, landed or not,
CountOut ==
    /\ mpc = "out"
    /\ inSeal' = inSeal - 1
    /\ mpc' = CASE outcome = "landed" -> "idle" [] outcome = "err" -> "err"
                 [] outcome = "wedge" -> "wedge"
    /\ UNCHANGED <<st, wedged, merr, data, writer, queue, mcur, outcome, asked, ghost, fails>>

\* the queue behind a seal that was not landed stopped,
SetWedged ==
    /\ mpc = "wedge"
    /\ wedged' = TRUE /\ mpc' = "err"
    /\ UNCHANGED <<st, inSeal, merr, data, writer, queue, mcur, outcome, asked, ghost, fails>>

\* and the error answered to the drain that met it, or left for the writer.
PutErr ==
    /\ mpc = "err" /\ mpc' = "idle"
    /\ \/ asked = "taken" /\ asked' = "err" /\ UNCHANGED merr
       \/ asked # "taken" /\ merr' = TRUE /\ UNCHANGED asked
    /\ UNCHANGED <<st, inSeal, wedged, data, writer, queue, mcur, outcome, ghost, fails>>

\* A merge's error, left for the writer; a merge is joined between seals.
MergeFails ==
    /\ mpc = "idle" /\ st.segs # {} /\ asked # "taken" /\ Fault("merge")
    /\ queue # <<>> => ~Front.landed
    /\ merr' = TRUE
    /\ UNCHANGED <<st, inSeal, wedged, data, writer, maint, ghost>>

\* shape_if_read: the pieces of a store with no partition made one.
Promote ==
    /\ mpc = "idle" /\ st.segs # {} /\ parts = 0
    /\ queue # <<>> => ~Front.landed
    /\ parts' = 1
    /\ UNCHANGED <<shared, cont, comm, seg, nextTab, writer, maint, ghost, fails>>

\* A drain: join_seal refuses a stopped queue, and is answered once every seal
\* has landed.
DrainTaken ==
    /\ mpc = "idle" /\ asked = "sent"
    /\ asked' = IF wedged THEN "err" ELSE "taken"
    /\ UNCHANGED <<shared, data, writer, queue, mpc, mcur, outcome, ghost, fails>>
DrainAnswer ==
    /\ mpc = "idle" /\ asked = "taken" /\ queue = <<>>
    /\ asked' = "ok"
    /\ UNCHANGED <<shared, data, writer, queue, mpc, mcur, outcome, ghost, fails>>

\* maint_request: the answer, and an error left meanwhile.
Answered ==
    /\ wpc = "drain" /\ asked \in {"ok", "err"}
    /\ asked' = "no" /\ merr' = FALSE
    /\ Return(IF merr THEN "err" ELSE asked)
    /\ UNCHANGED <<st, inSeal, wedged, data, handed, pend, call, wait, queue, mpc, mcur,
                   outcome, alarm, fails>>

-----------------------------------------------------------------------------
Caller == Put \/ Commit \/ Sync \/ (\E c \in {"seal", "flush"} : Seal(c))
Writer == \/ PutGoes \/ SealCommits \/ ReadCount \/ ReadState \/ AskErr \/ AskWedged
          \/ LastErr \/ Freeze \/ FreezeSwap \/ FirstCount \/ HandSeal \/ Answered
Maint  == \/ LandReadable \/ LandSwap \/ LandFails \/ FrontFailed \/ LandDurable
          \/ CountOut \/ SetWedged \/ PutErr \/ DrainTaken \/ DrainAnswer

Next == \/ Caller \/ Writer \/ Maint \/ MergeFails \/ Promote
        \/ \E t \in Table : Thread(t)

\* A call once made runs on, the segment work's loop polls, and threads end.
Spec == /\ Init /\ [][Next]_vars
        /\ WF_vars(Writer) /\ WF_vars(Maint)
        /\ \A t \in Table : WF_vars(Thread(t))

-----------------------------------------------------------------------------
(* Properties.                                                              *)

\* A landing finds its table where publish_segs_with looks for it, however the
\* writer has frozen or handed tables since: the live one with no table frozen
\* before it, or the oldest of the frozen ones.  And the writer's own freeze
\* finds the room its wait for it left.
OldestLands ==
    /\ queue # <<>> /\ ~wedged /\ mpc \notin {"out", "wedge"} /\ ~Front.landed =>
          IF st.mem = Front.tab THEN st.frozen = <<>>
          ELSE st.frozen # <<>> /\ Head(st.frozen) = Front.tab
    /\ wpc = "freeze" /\ loop = "land" => Room(st)

\* Every write committed has one home in the published state: the live table,
\* one frozen table or one segment.  None is lost to a swap between a table and
\* its segment, nor written into a table its seal has read.
Homes(w) == Cardinality({t \in Table :
                \/ t \in st.segs /\ w \in seg[t]
                \/ t \notin st.segs /\ w \in comm[t]
                   /\ (t = st.mem \/ \E i \in DOMAIN st.frozen : st.frozen[i] = t)})
Committed == UNION {comm[t] : t \in Table}
OneHome == \A w \in Committed : Homes(w) = 1

\* A batch whose commit, sync, seal or flush returned without an error was
\* committed whole: a write dropped for a table that could not be replaced is
\* told of by the call that ends its batch.
OkWhole == \A i \in Batch : done[i] = "ok" => {i} \X {1, 2} \subseteq Committed

\* What is said of a batch: all of it or none of it.
AllOrNone ==
    \A i \in Batch : done[i] # "no" =>
        ({i} \X {1, 2}) \cap Committed \in {{}, {i} \X {1, 2}}

\* The writer is told that a seal did not land only where one did not: never of
\* a landing that its reads of the count, the state and the flag straddle.
NoFalseAlarm == alarm => wedged \/ mpc = "wedge"

\* No two partitions cover the key range: a seal names the first one only where
\* neither the store nor a seal in flight has, though it reads the two apart.
OnePartition == parts <= 1

\* A call returns, with an error or without: no wait is for a landing that will
\* not come.
CallReturns == wpc # "idle" ~> wpc = "idle"
=============================================================================
