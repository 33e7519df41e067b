--------------------------- MODULE HandoffProofs ---------------------------
(***************************************************************************)
(* The hand-over of tables, for every capacity of the frozen list, every     *)
(* number of batches and of faults: the invariant that the writer, the seal  *)
(* threads and the segment work keep between them, and what follows from it. *)
(***************************************************************************)
EXTENDS Handoff, FiniteSetTheorems, TLAPS

-----------------------------------------------------------------------------
(* The invariant's parts.                                                    *)

\* No seal has failed to land: the queue is not stopped, nor about to be.
Going == ~wedged /\ mpc # "wedge" /\ ~(mpc = "out" /\ outcome = "wedge")

\* A table on the frozen list.
Frozen(t) == \E i \in DOMAIN st.frozen : st.frozen[i] = t

\* A table made is in one place: live, once on the list, or a segment's.
TabsInv ==
    /\ st.mem < nextTab /\ st.mem \notin st.segs
    /\ \A i \in DOMAIN st.frozen : /\ st.frozen[i] < nextTab /\ st.frozen[i] # st.mem
                                   /\ st.frozen[i] \notin st.segs
    /\ \A i, j \in DOMAIN st.frozen : st.frozen[i] = st.frozen[j] => i = j
    /\ \A t \in st.segs : t < nextTab
    /\ \A t \in Table : t < nextTab => t = st.mem \/ t \in st.segs \/ Frozen(t)

\* A write is in one table, and was made in the order of the batches; what is
\* committed of a table is in it.
ContInv ==
    /\ \A t \in Table : comm[t] \subseteq cont[t] /\ (t >= nextTab => cont[t] = {})
    /\ \A t, u \in Table : t # u => cont[t] \cap cont[u] = {}
    /\ \A t \in Table : \A w \in cont[t] : w[1] < b \/ (w[1] = b /\ w[2] <= n)

\* A table is made only for one that has a write in it.
RoomInv == nextTab - 2 + (IF cont[st.mem] = {} THEN 0 ELSE 1) <= 2 * (b - 1) + n

\* Jobs are counted; only the oldest may have landed; the table of one that has
\* not is the live one, handed, or a frozen one.
JobsInv ==
    /\ inSeal = Len(queue) + (IF mpc = "out" THEN 1 ELSE 0)
    /\ \A i \in DOMAIN queue :
          IF queue[i].landed THEN i = 1 /\ queue[i].tab \in st.segs
          ELSE (queue[i].tab = st.mem /\ handed = st.mem) \/ Frozen(queue[i].tab)
    /\ mpc = "swap" => queue # <<>> /\ ~queue[1].landed
    /\ wedged => mpc \in {"idle", "err"}

\* A segment holds its table's writes, from its naming on.
SegInv ==
    /\ \A t \in st.segs : seg[t] = cont[t]
    /\ \A i \in DOMAIN queue : queue[i].st \in {"named", "synced"} =>
          seg[queue[i].tab] = cont[queue[i].tab]
    /\ mpc = "swap" => seg[queue[1].tab] = cont[queue[1].tab]

\* The seals yet to land are, in order, of the frozen tables and then of the live
\* one where that is handed; a table just frozen has no seal yet.
Landed == IF queue # <<>> /\ queue[1].landed THEN 1 ELSE 0
Handed == IF handed = st.mem THEN 1 ELSE 0
Unsealed == IF wpc \in {"first", "hand"} /\ call # "sync" THEN 1 ELSE 0
ChainInv ==
    Going =>
        /\ Len(queue) + Unsealed = Landed + Len(st.frozen) + Handed
        /\ \A i \in 1..(Len(queue) - Landed) :
              queue[i + Landed].tab = IF i <= Len(st.frozen) THEN st.frozen[i] ELSE st.mem

\* What each call relies on where it stands.
InWait == wpc \in {"count", "look", "err", "wedge", "freeze", "swap"}
WriterInv ==
    /\ n > 0 => b <= MaxBatch
    /\ handed # None => /\ handed < nextTab /\ (handed = st.mem \/ handed \in st.segs)
                        /\ n > 0 => pend
    /\ handed = st.mem => cont[st.mem] # {}
    /\ InWait /\ loop = "fresh" => handed # None /\ call # "sync"
    /\ (InWait /\ loop = "land") \/ wpc = "last" =>
          /\ loop = "land" /\ handed = None /\ call \in {"seal", "flush"}
          /\ cont[st.mem] # {} /\ comm[st.mem] = cont[st.mem]
    /\ wpc \in {"last", "freeze", "swap"} /\ loop = "land" => Room(st)
    /\ wpc = "swap" /\ loop = "fresh" => seen.mem = handed
    /\ wpc \in {"put", "commit", "first", "hand", "drain"} => handed = None
    /\ wpc = "put" => call = "put"
    /\ wpc \in {"commit", "first", "hand", "drain"} => call # "put"
    /\ wpc = "commit" => call # "sync"
    /\ wpc \in {"first", "hand"} /\ call = "sync" => cont[st.mem] # {}
    /\ wpc \in {"first", "hand"} /\ call # "sync" => st.frozen # <<>>
    /\ wpc # "idle" /\ call = "put" => n < 2 /\ b <= MaxBatch
    /\ wpc # "idle" /\ call # "put" => n \in {0, 2} /\ ~pend

\* The writes of the batch at hand, none of them dropped, are in the live table or
\* committed; and committed once the call that ends it has committed.
Said(j) == <<b, j>> \in Committed
SaidInv ==
    /\ ~pend => \A j \in 1..n : <<b, j>> \in cont[st.mem] \/ Said(j)
    /\ wpc \in {"first", "hand", "drain"} => \A j \in 1..n : Said(j)
    /\ OkWhole

\* A wait that counted no seal in flight met a queue that had none, and gives up
\* only where that queue has stopped.
AlarmInv ==
    /\ wpc \in {"look", "err", "wedge", "hand"} /\ seals = 0 => queue = <<>> /\ mpc # "out"
    /\ wpc \in {"err", "wedge"} /\ seals = 0 => ~Going
    /\ NoFalseAlarm

\* A seal that names the first partition is the oldest, over an empty store.
FirstInv ==
    /\ \A i \in DOMAIN queue : queue[i].first /\ ~queue[i].landed => i = 1 /\ st.segs = {}
    /\ parts \in {0, 1} /\ (parts = 1 => st.segs # {})

HandInv ==
    /\ TypeOK /\ TabsInv /\ ContInv /\ RoomInv /\ JobsInv /\ SegInv
    /\ ChainInv /\ WriterInv /\ SaidInv /\ AlarmInv /\ FirstInv
-----------------------------------------------------------------------------
(* Which steps change what.                                                  *)

\* The state pointer moves by the writer's freeze and by a landing.
LEMMA StFrame ==
    ASSUME Next PROVE UNCHANGED <<st, nextTab>> \/ FreezeSwap \/ LandSwap
<1>1. CASE Caller
    BY <1>1 DEF Caller, Put, Commit, Sync, Seal, shared, data
<1>2. CASE Writer
    BY <1>2 DEF Writer, PutGoes, SealCommits, ReadCount, ReadState, AskErr, AskWedged,
       LastErr, Freeze, FirstCount, HandSeal, Answered, shared, data
<1>3. CASE Maint
    BY <1>3 DEF Maint, LandReadable, LandFails, FrontFailed, LandDurable, CountsOut,
       CountOut, SetWedged, PutErr, DrainTaken, DrainAnswer, shared, data
<1>4. CASE MergeFails \/ Promote
    BY <1>4 DEF MergeFails, Promote, shared, data
<1>5. CASE \E t \in Table : Thread(t)
    BY <1>5 DEF Thread, SealNames, SealSyncs, SealThreadFails, shared, data
<1> QED
    BY <1>1, <1>2, <1>3, <1>4, <1>5 DEF Next

\* A write is staged by a put, in a table that is the writer's own.
LEMMA ContFrame ==
    ASSUME Next PROVE UNCHANGED cont \/ Put \/ PutGoes
<1>1. CASE Caller
    BY <1>1 DEF Caller, Commit, Sync, Seal, data
<1>2. CASE Writer
    BY <1>2 DEF Writer, SealCommits, ReadCount, ReadState, AskErr, AskWedged,
       LastErr, Freeze, FreezeSwap, FirstCount, HandSeal, Answered, data
<1>3. CASE Maint
    BY <1>3 DEF Maint, LandReadable, LandSwap, LandFails, FrontFailed, LandDurable, CountsOut,
       CountOut, SetWedged, PutErr, DrainTaken, DrainAnswer, data
<1>4. CASE MergeFails \/ Promote
    BY <1>4 DEF MergeFails, Promote, data
<1>5. CASE \E t \in Table : Thread(t)
    BY <1>5 DEF Thread, SealNames, SealSyncs, SealThreadFails, data
<1> QED
    BY <1>1, <1>2, <1>3, <1>4, <1>5 DEF Next

\* A table is committed by the calls that end a batch, before anything is sealed.
LEMMA CommFrame ==
    ASSUME WriterInv, Next
    PROVE  \/ UNCHANGED comm
           \/ CommitMem /\ handed = None /\ UNCHANGED <<st, nextTab, cont, seg>>
<1>1. CASE Caller
    BY <1>1 DEF Caller, Put, Commit, Sync, Seal, shared, data
<1>2. CASE Writer
    BY <1>2 DEF WriterInv, Writer, PutGoes, SealCommits, ReadCount, ReadState, AskErr, AskWedged,
       LastErr, Freeze, FreezeSwap, FirstCount, HandSeal, Answered, shared, data
<1>3. CASE Maint
    BY <1>3 DEF Maint, LandReadable, LandSwap, LandFails, FrontFailed, LandDurable, CountsOut,
       CountOut, SetWedged, PutErr, DrainTaken, DrainAnswer, data
<1>4. CASE MergeFails \/ Promote
    BY <1>4 DEF MergeFails, Promote, data
<1>5. CASE \E t \in Table : Thread(t)
    BY <1>5 DEF Thread, SealNames, SealSyncs, SealThreadFails, data
<1> QED
    BY <1>1, <1>2, <1>3, <1>4, <1>5 DEF Next

\* A batch goes on by a write made or dropped, and ends by a call's return.
LEMMA BatchFrame ==
    ASSUME Next
    PROVE  \/ UNCHANGED <<b, n, done>>
           \/ n' = n + 1 /\ UNCHANGED <<b, done>>
           \/ n = 2 /\ b' = b + 1 /\ n' = 0 /\ \E r : done' = [done EXCEPT ![b] = r]
<1>1. CASE Put
    BY <1>1 DEF Put, Stage
<1>2. CASE Commit
    BY <1>2 DEF Commit, Return
<1>3. CASE Sync
    BY <1>3 DEF Sync, Return
<1>4. CASE \E c \in {"seal", "flush"} : Seal(c)
    BY <1>4 DEF Seal, Return
<1>5. CASE PutGoes \/ ReadCount \/ ReadState \/ Freeze \/ FreezeSwap \/ FirstCount
    BY <1>5 DEF PutGoes, Stage, ReadCount, ReadState, Freeze, FreezeSwap, FirstCount, ghost
<1>6. CASE SealCommits
    BY <1>6 DEF SealCommits, Return
<1>7. CASE AskErr
    BY <1>7 DEF AskErr, GivesUp, Return
<1>8. CASE AskWedged
    BY <1>8 DEF AskWedged, GivesUp, Return
<1>9. CASE LastErr
    BY <1>9 DEF LastErr, Return
<1>10. CASE HandSeal
    BY <1>10 DEF HandSeal, Return
<1>11. CASE Answered
    BY <1>11 DEF Answered, Return
<1>12. CASE Maint
    BY <1>12 DEF Maint, LandReadable, LandSwap, LandFails, FrontFailed, LandDurable, CountsOut,
       CountOut, SetWedged, PutErr, DrainTaken, DrainAnswer, ghost
<1>13. CASE MergeFails \/ Promote
    BY <1>13 DEF MergeFails, Promote, ghost
<1>14. CASE \E t \in Table : Thread(t)
    BY <1>14 DEF Thread, SealNames, SealSyncs, SealThreadFails, ghost
<1> QED
    BY <1>1, <1>2, <1>3, <1>4, <1>5, <1>6, <1>7, <1>8, <1>9, <1>10, <1>11, <1>12, <1>13,
       <1>14 DEF Next, Caller, Writer

\* A segment is written by its seal's thread.
LEMMA SegFrame ==
    ASSUME Next PROVE UNCHANGED seg \/ \E i \in DOMAIN queue : SealNames(i)
<1>1. CASE Caller
    BY <1>1 DEF Caller, Put, Commit, Sync, Seal, data
<1>2. CASE Writer
    BY <1>2 DEF Writer, PutGoes, SealCommits, ReadCount, ReadState, AskErr, AskWedged,
       LastErr, Freeze, FreezeSwap, FirstCount, HandSeal, Answered, data
<1>3. CASE Maint
    BY <1>3 DEF Maint, LandReadable, LandSwap, LandFails, FrontFailed, LandDurable, CountsOut,
       CountOut, SetWedged, PutErr, DrainTaken, DrainAnswer, data
<1>4. CASE MergeFails \/ Promote
    BY <1>4 DEF MergeFails, Promote, data
<1>5. CASE \E t \in Table : Thread(t)
    BY <1>5 DEF Thread, SealSyncs, SealThreadFails, data
<1> QED
    BY <1>1, <1>2, <1>3, <1>4, <1>5 DEF Next

\* The queue grows by a hand-over, and is worked by its threads and the segment
\* work.
Works == \E i \in DOMAIN queue : SealNames(i) \/ SealSyncs(i) \/ SealThreadFails(i)
LEMMA QueueFrame ==
    ASSUME Next
    PROVE  \/ UNCHANGED queue
           \/ HandSeal \/ LandSwap \/ LandFails \/ FrontFailed \/ LandDurable \/ Works
<1>1. CASE Caller
    BY <1>1 DEF Caller, Put, Commit, Sync, Seal, maint
<1>2. CASE Writer
    BY <1>2 DEF Writer, PutGoes, SealCommits, ReadCount, ReadState, AskErr, AskWedged,
       LastErr, Freeze, FreezeSwap, FirstCount, Answered, maint
<1>3. CASE Maint
    BY <1>3 DEF Maint, LandReadable, CountOut, SetWedged, PutErr, DrainTaken, DrainAnswer
<1>4. CASE MergeFails \/ Promote
    BY <1>4 DEF MergeFails, Promote, maint
<1>5. CASE \E t \in Table : Thread(t)
    BY <1>5 DEF Thread, Works
<1> QED
    BY <1>1, <1>2, <1>3, <1>4, <1>5 DEF Next

-----------------------------------------------------------------------------
(* The state pointer's moves.                                                *)

\* A freeze has a table to put under a fresh one.
Freezing ==
    /\ st.mem \in Table /\ nextTab \in Table /\ cont[st.mem] # {}
    /\ st' = [mem |-> nextTab, frozen |-> Append(st.frozen, st.mem), segs |-> st.segs]
    /\ nextTab' = nextTab + 1 /\ Len(st.frozen) \in Nat
    /\ loop = "fresh" => handed = st.mem

LEMMA Fits ==
    ASSUME TypeOK, RoomInv, WriterInv, cont[st.mem] # {}
    PROVE  nextTab \in Table
<1>1. b \in 1..(MaxBatch + 1) /\ n \in 0..2 /\ nextTab \in 2..(2 * MaxBatch + 2)
    BY DEF TypeOK
<1>2. MaxBatch \in Nat
    BY HandoffAssumption
<1>3. nextTab - 1 <= 2 * (b - 1) + n
    BY <1>1 DEF RoomInv
<1>4. CASE n = 0
    BY <1>1, <1>2, <1>3, <1>4 DEF Table
<1>5. CASE n # 0
    <2>1. b <= MaxBatch
        BY <1>1, <1>5 DEF WriterInv
    <2> QED
        BY <1>1, <1>2, <1>3, <2>1 DEF Table
<1> QED
    BY <1>4, <1>5

LEMMA FreezeMoves ==
    ASSUME TypeOK, RoomInv, WriterInv, FreezeSwap
    PROVE  UNCHANGED <<st, nextTab>> \/ (Freezing /\ wpc = "swap")
<1>1. CASE st # seen
    BY <1>1 DEF FreezeSwap
<1>2. CASE st = seen
    <2>1. wpc = "swap" /\ st' = FrozenOver(st) /\ nextTab' = nextTab + 1
        BY <1>2 DEF FreezeSwap
    <2>2. loop \in {"fresh", "land"} /\ st \in State
        BY DEF TypeOK
    <2>3. loop = "fresh" => handed = st.mem
        BY <1>2, <2>1 DEF WriterInv
    <2>4. cont[st.mem] # {}
        BY <2>1, <2>2, <2>3 DEF WriterInv, InWait
    <2>5. nextTab \in Table
        BY <2>4, Fits
    <2>6. st' = [mem |-> nextTab, frozen |-> Append(st.frozen, st.mem), segs |-> st.segs]
        BY <2>1, <2>2 DEF FrozenOver, State
    <2> QED
        BY <2>1, <2>2, <2>3, <2>4, <2>5, <2>6 DEF Freezing, State
<1> QED
    BY <1>1, <1>2

\* A landing takes the live table that was handed, with none frozen before it, or
\* the oldest of the frozen ones.
Lands(t) ==
    \/ /\ t = st.mem /\ handed = st.mem /\ st.frozen = <<>> /\ cont[st.mem] # {}
       /\ nextTab \in Table /\ nextTab' = nextTab + 1
       /\ st' = [mem |-> nextTab, frozen |-> <<>>, segs |-> st.segs \cup {t}]
    \/ /\ st.frozen # <<>> /\ t = st.frozen[1] /\ t # st.mem /\ nextTab' = nextTab
       /\ st' = [mem |-> st.mem, frozen |-> Tail(st.frozen), segs |-> st.segs \cup {t}]

\* publish_segs_with finds its table.
LEMMA FrontFound ==
    ASSUME TypeOK, TabsInv, ChainInv, Going, queue # <<>>, ~queue[1].landed
    PROVE  IF st.mem = queue[1].tab THEN st.frozen = <<>> /\ handed = st.mem
           ELSE st.frozen # <<>> /\ st.frozen[1] = queue[1].tab
<1>1. Len(queue) \in Nat /\ Len(queue) >= 1 /\ Len(st.frozen) \in Nat /\ st.frozen \in Seq(Table)
    BY DEF TypeOK, State
<1>2. Landed = 0
    BY DEF Landed
<1>3. queue[1].tab = IF 1 <= Len(st.frozen) THEN st.frozen[1] ELSE st.mem
    BY <1>1, <1>2 DEF ChainInv
<1>4. Unsealed \in {0, 1} /\ Handed \in {0, 1} /\ Handed = (IF handed = st.mem THEN 1 ELSE 0)
    BY DEF Unsealed, Handed
<1>b. Len(queue) + Unsealed = Landed + Len(st.frozen) + Handed
    BY Zenon DEF ChainInv
<1>c. Len(queue) \in Nat /\ Len(st.frozen) \in Nat /\ Unsealed \in {0, 1} /\ Handed \in {0, 1}
    BY <1>1, <1>4
<1>a. Len(queue) + Unsealed = Len(st.frozen) + Handed
    BY ONLY <1>2, <1>c, <1>b
<1>5. CASE Len(st.frozen) = 0
    BY <1>1, <1>3, <1>4, <1>a, <1>5
<1>6. CASE Len(st.frozen) >= 1
    BY <1>1, <1>3, <1>6 DEF TabsInv
<1> QED
    BY <1>1, <1>5, <1>6

LEMMA LandMoves ==
    ASSUME HandInv, LandSwap
    PROVE  \/ UNCHANGED <<st, nextTab, parts, queue, mpc>>
           \/ /\ Lands(queue[1].tab) /\ mpc = "swap" /\ mpc' = "idle" /\ Going
              /\ queue # <<>> /\ queue[1] \in Job /\ ~queue[1].landed
              /\ queue' = [queue EXCEPT ![1].landed = TRUE]
              /\ parts' = IF queue[1].first THEN parts + 1 ELSE parts
<1>1. CASE st # mcur
    BY <1>1 DEF LandSwap
<1>2. CASE st = mcur
    <2> DEFINE t == queue[1].tab
    <2>1. /\ mpc = "swap" /\ queue # <<>> /\ ~queue[1].landed /\ Going /\ mpc' = "idle"
          /\ queue' = [queue EXCEPT ![1].landed = TRUE]
        BY <1>2 DEF LandSwap, HandInv, JobsInv, Going
    <2>2. st \in State /\ queue \in Seq(Job) /\ queue[1] \in Job /\ Head(queue) = queue[1]
        BY <2>1 DEF HandInv, TypeOK
    <2>3. /\ st' = LandOver(st, t)
          /\ nextTab' = IF st.mem = t THEN nextTab + 1 ELSE nextTab
          /\ parts' = IF queue[1].first THEN parts + 1 ELSE parts
        BY <1>2, <2>2 DEF LandSwap, Front
    <2>4. IF st.mem = t THEN st.frozen = <<>> /\ handed = st.mem
          ELSE st.frozen # <<>> /\ st.frozen[1] = t
        BY <2>1, FrontFound DEF HandInv
    <2>5. CASE st.mem = t
        <3>1. cont[st.mem] # {}
            BY <2>4, <2>5 DEF HandInv, WriterInv
        <3>2. nextTab \in Table
            BY <3>1, Fits DEF HandInv
        <3>3. st' = [mem |-> nextTab, frozen |-> <<>>, segs |-> st.segs \cup {t}]
            BY <2>2, <2>3, <2>4, <2>5 DEF LandOver, State
        <3> QED
            BY <2>1, <2>2, <2>3, <2>4, <2>5, <3>1, <3>2, <3>3 DEF Lands
    <2>6. CASE st.mem # t
        <3>1. Head(st.frozen) = t /\ st.frozen # <<>>
            BY <2>2, <2>4, <2>6 DEF State
        <3>2. st' = [mem |-> st.mem, frozen |-> Tail(st.frozen), segs |-> st.segs \cup {t}]
            BY <2>2, <2>3, <2>6, <3>1 DEF LandOver, State
        <3> QED
            BY <2>1, <2>2, <2>3, <2>4, <2>6, <3>2 DEF Lands
    <2> QED
        BY <2>5, <2>6
<1> QED
    BY <1>1, <1>2

-----------------------------------------------------------------------------
(* Types.                                                                    *)

LEMMA StTyped ==
    ASSUME HandInv, Next PROVE st' \in State /\ nextTab' \in 2..(2 * MaxBatch + 2)
<1>1. st \in State /\ nextTab \in 2..(2 * MaxBatch + 2) /\ MaxBatch \in Nat
    BY HandoffAssumption DEF HandInv, TypeOK
<1>2. CASE UNCHANGED <<st, nextTab>>
    BY <1>1, <1>2
<1>3. CASE FreezeSwap
    <2>1. UNCHANGED <<st, nextTab>> \/ Freezing
        BY <1>3, FreezeMoves DEF HandInv
    <2>2. CASE Freezing
        <3>1. st.mem \in Table /\ st.frozen \in Seq(Table) /\ st.segs \subseteq Table
            BY <1>1 DEF State
        <3>2. Append(st.frozen, st.mem) \in Seq(Table)
            BY <3>1
        <3>3. st' \in State
            BY <2>2, <3>1, <3>2 DEF Freezing, State
        <3> QED
            BY <1>1, <2>2, <3>3 DEF Freezing, Table
    <2> QED
        BY <1>1, <2>1, <2>2
<1>4. CASE LandSwap
    <2>1. UNCHANGED <<st, nextTab>> \/ (Lands(queue[1].tab) /\ queue[1] \in Job)
        BY <1>4, LandMoves
    <2>2. CASE Lands(queue[1].tab) /\ queue[1] \in Job
        <3>1. queue[1].tab \in Table /\ st.segs \cup {queue[1].tab} \subseteq Table
            BY <1>1, <2>2 DEF Job, State
        <3>2. st.frozen # <<>> => Tail(st.frozen) \in Seq(Table)
            BY <1>1 DEF State
        <3>3. nextTab' \in 2..(2 * MaxBatch + 2)
            BY <1>1, <2>2 DEF Lands, Table
        <3>4. <<>> \in Seq(Table)
            OBVIOUS
        <3>5. st.mem \in Table
            BY <1>1 DEF State
        <3>6. ASSUME NEW m \in Table, NEW f \in Seq(Table), NEW g \in SUBSET Table
              PROVE  [mem |-> m, frozen |-> f, segs |-> g] \in State
            BY DEF State
        <3> QED
            BY <2>2, <3>1, <3>2, <3>3, <3>4, <3>5, <3>6 DEF Lands
    <2> QED
        BY <1>1, <2>1, <2>2
<1> QED
    BY <1>2, <1>3, <1>4, StFrame

LEMMA SeenTyped ==
    ASSUME TypeOK, Next PROVE seen' \in State /\ mcur' \in State
<1>1. CASE Caller
    BY <1>1 DEF Caller, Put, Commit, Sync, Seal, wait, maint, TypeOK
<1>2. CASE Writer
    BY <1>2 DEF Writer, PutGoes, SealCommits, ReadCount, ReadState, AskErr, AskWedged,
       LastErr, Freeze, FreezeSwap, FirstCount, HandSeal, Answered, wait, maint, TypeOK
<1>3. CASE Maint
    BY <1>3 DEF Maint, LandReadable, LandSwap, LandFails, FrontFailed, LandDurable, CountsOut,
       CountOut, SetWedged, PutErr, DrainTaken, DrainAnswer, writer, wait, TypeOK
<1>4. CASE MergeFails \/ Promote
    BY <1>4 DEF MergeFails, Promote, writer, wait, maint, TypeOK
<1>5. CASE \E t \in Table : Thread(t)
    BY <1>5 DEF Thread, SealNames, SealSyncs, SealThreadFails, writer, wait, TypeOK
<1> QED
    BY <1>1, <1>2, <1>3, <1>4, <1>5 DEF Next

\* What a put does to the tables.
Staged == /\ cont' = [cont EXCEPT ![st.mem] = @ \cup {<<b, n + 1>>}]
          /\ n' = n + 1 /\ b' = b /\ n < 2 /\ b <= MaxBatch /\ handed = None
          /\ wpc \in {"idle", "put"} /\ wpc' = "idle"
          /\ UNCHANGED <<shared, comm, seg, nextTab, handed, pend, maint, done>>
LEMMA PutStages ==
    ASSUME WriterInv, Next PROVE UNCHANGED cont \/ Staged
<1>1. CASE Put
    BY <1>1 DEF Put, Stage, Staged
<1>2. CASE PutGoes
    BY <1>2 DEF PutGoes, Stage, Staged, WriterInv
<1> QED
    BY <1>1, <1>2, ContFrame

LEMMA ContTyped ==
    ASSUME HandInv, Next
    PROVE  /\ cont' \in [Table -> SUBSET Op] /\ comm' \in [Table -> SUBSET Op]
           /\ seg' \in [Table -> SUBSET Op]
<1>1. /\ cont \in [Table -> SUBSET Op] /\ comm \in [Table -> SUBSET Op]
      /\ seg \in [Table -> SUBSET Op] /\ st.mem \in Table /\ queue \in Seq(Job)
    BY DEF HandInv, TypeOK, State
<1>2. b \in 1..(MaxBatch + 1) /\ n \in 0..2 /\ MaxBatch \in Nat
    BY HandoffAssumption DEF HandInv, TypeOK
<1>3. cont' \in [Table -> SUBSET Op]
    <2>1. CASE Staged
        <3>1. n + 1 \in {1, 2} /\ b \in Batch
            BY <1>2, <2>1 DEF Staged, Batch
        <3>2. <<b, n + 1>> \in Op
            BY <3>1 DEF Op
        <3> QED
            BY <1>1, <2>1, <3>2 DEF Staged
    <2> QED
        BY <1>1, <2>1, PutStages DEF HandInv
<1>4. comm' \in [Table -> SUBSET Op]
    BY <1>1, CommFrame DEF HandInv, CommitMem
<1>5. seg' \in [Table -> SUBSET Op]
    <2>1. ASSUME NEW i \in DOMAIN queue, SealNames(i) PROVE seg' \in [Table -> SUBSET Op]
        <3>1. queue[i] \in Job
            BY <1>1
        <3>2. queue[i].tab \in Table
            BY <3>1 DEF Job
        <3> QED
            BY <1>1, <2>1, <3>2 DEF SealNames
    <2> QED
        BY <1>1, <2>1, SegFrame
<1> QED
    BY <1>3, <1>4, <1>5

\* The table of a seal handed over.
LEMMA SealedTyped ==
    ASSUME TypeOK, WriterInv, HandSeal PROVE Sealed \in Table
<1>1. st.mem \in Table /\ st.frozen \in Seq(Table)
    BY DEF TypeOK, State
<1>2. CASE call = "sync"
    BY <1>1, <1>2 DEF Sealed
<1>3. CASE call # "sync"
    <2>1. st.frozen # <<>>
        BY <1>3 DEF HandSeal, WriterInv
    <2>2. Len(st.frozen) \in DOMAIN st.frozen
        BY <1>1, <2>1
    <2> QED
        BY <1>1, <1>3, <2>2 DEF Sealed
<1> QED
    BY <1>2, <1>3

\* What each step does to the queue.
Hands(f) == queue' = Append(queue, [tab |-> Sealed, st |-> "writing", landed |-> FALSE,
                                    first |-> f])
Retells(i, s) == queue' = [queue EXCEPT ![i].st = s]
LEMMA QueueMoves ==
    ASSUME HandInv, Next
    PROVE  \/ UNCHANGED queue
           \/ /\ HandSeal /\ Sealed \in Table
              /\ \E fits \in BOOLEAN : Hands(SealsFirst /\ fits)
           \/ queue # <<>> /\ queue' = [queue EXCEPT ![1].landed = TRUE] /\ LandSwap
           \/ queue # <<>> /\ queue' = Tail(queue) /\ (LandFails \/ FrontFailed \/ LandDurable)
           \/ /\ Works
              /\ \E i \in DOMAIN queue, s \in {"named", "synced", "failed"} : Retells(i, s)
<1>1. CASE HandSeal
    BY <1>1, SealedTyped DEF HandSeal, Hands, HandInv
<1>2. CASE LandSwap
    BY <1>2, LandMoves
<1>3. CASE LandFails \/ FrontFailed \/ LandDurable
    BY <1>3 DEF LandFails, FrontFailed, LandDurable, Turn, CountsOut
<1>4. CASE Works
    BY <1>4 DEF Works, SealNames, SealSyncs, SealThreadFails, Retells
<1> QED
    BY <1>1, <1>2, <1>3, <1>4, QueueFrame

LEMMA QueueTyped ==
    ASSUME HandInv, Next PROVE queue' \in Seq(Job)
<1>1. queue \in Seq(Job)
    BY DEF HandInv, TypeOK
<1>2. ASSUME Sealed \in Table, NEW f \in BOOLEAN, Hands(f) PROVE queue' \in Seq(Job)
    <2>1. [tab |-> Sealed, st |-> "writing", landed |-> FALSE, first |-> f] \in Job
        BY <1>2 DEF Job
    <2> QED
        BY <1>1, <1>2, <2>1 DEF Hands
<1>3. ASSUME queue # <<>>, queue' = [queue EXCEPT ![1].landed = TRUE] PROVE queue' \in Seq(Job)
    <2>1. 1 \in DOMAIN queue /\ queue[1] \in Job
        BY <1>1, <1>3
    <2>2. [queue[1] EXCEPT !.landed = TRUE] \in Job
        BY <2>1 DEF Job
    <2> QED
        BY <1>1, <1>3, <2>1, <2>2
<1>4. ASSUME queue # <<>>, queue' = Tail(queue) PROVE queue' \in Seq(Job)
    BY <1>1, <1>4
<1>5. ASSUME NEW i \in DOMAIN queue, NEW s \in {"named", "synced", "failed"}, Retells(i, s)
      PROVE  queue' \in Seq(Job)
    <2>a. queue[i] \in Job
        BY <1>1
    <2>1. [queue[i] EXCEPT !.st = s] \in Job
        BY <2>a DEF Job
    <2> QED
        BY <1>1, <1>5, <2>1 DEF Retells
<1>6. \A fits \in BOOLEAN : (SealsFirst /\ fits) \in BOOLEAN
    OBVIOUS
<1> QED
    BY <1>1, <1>2, <1>3, <1>4, <1>5, <1>6, QueueMoves

\* The writer's words.
LEMMA WriterTyped ==
    ASSUME HandInv, Next
    PROVE  /\ handed' \in Table \cup {None} /\ pend' \in BOOLEAN
           /\ wpc' \in {"idle", "put", "count", "look", "err", "wedge", "freeze", "swap",
                        "last", "commit", "first", "hand", "drain"}
           /\ call' \in {"put", "seal", "sync", "flush"} /\ loop' \in {"fresh", "land"}
           /\ seals' \in Nat
<1> USE DEF HandInv, TypeOK, Return, Waits, Fresh, GivesUp
<1>1. CASE Put \/ Commit \/ Sync \/ PutGoes
    BY <1>1 DEF Put, Commit, Sync, PutGoes, wait
<1>2. CASE \E c \in {"seal", "flush"} : Seal(c)
    BY <1>2 DEF Seal
<1>3. CASE SealCommits \/ ReadCount \/ AskErr \/ AskWedged \/ LastErr
    BY <1>3 DEF SealCommits, ReadCount, AskErr, AskWedged, LastErr, wait
<1>4. CASE ReadState \/ Freeze \/ FreezeSwap \/ FirstCount \/ Answered
    BY <1>4 DEF ReadState, Freeze, FreezeSwap, FirstCount, Answered, wait
<1>5. CASE HandSeal
    BY <1>5, SealedTyped DEF HandSeal, wait
<1>6. CASE Maint
    BY <1>6 DEF Maint, LandReadable, LandSwap, LandFails, FrontFailed, LandDurable, CountsOut,
       CountOut, SetWedged, PutErr, DrainTaken, DrainAnswer, writer, wait
<1>7. CASE MergeFails \/ Promote
    BY <1>7 DEF MergeFails, Promote, writer, wait
<1>8. CASE \E t \in Table : Thread(t)
    BY <1>8 DEF Thread, SealNames, SealSyncs, SealThreadFails, writer, wait
<1> QED
    BY <1>1, <1>2, <1>3, <1>4, <1>5, <1>6, <1>7, <1>8 DEF Next, Caller, Writer

\* The words the threads share, and the segment work's own.
LEMMA SharedTyped ==
    ASSUME HandInv, Next
    PROVE  /\ inSeal' \in Nat /\ wedged' \in BOOLEAN /\ merr' \in BOOLEAN /\ parts' \in Nat
           /\ mpc' \in {"idle", "swap", "out", "wedge", "err"}
           /\ outcome' \in {"landed", "err", "wedge"}
           /\ asked' \in {"no", "sent", "taken", "ok", "err"}
           /\ alarm' \in BOOLEAN /\ fails' \in 0..MaxFail
<1>a. /\ inSeal \in Nat /\ wedged \in BOOLEAN /\ merr \in BOOLEAN /\ parts \in Nat
      /\ mpc \in {"idle", "swap", "out", "wedge", "err"}
      /\ outcome \in {"landed", "err", "wedge"}
      /\ asked \in {"no", "sent", "taken", "ok", "err"}
      /\ alarm \in BOOLEAN /\ fails \in 0..MaxFail
    BY DEF HandInv, TypeOK
<1> USE <1>a DEF Return, Waits, shared, data, maint, ghost
<1>1. CASE Put \/ Sync
    BY <1>1 DEF Put, Sync
<1>10. CASE Commit
    BY <1>10 DEF Commit
<1>11. CASE \E c \in {"seal", "flush"} : Seal(c)
    BY <1>11 DEF Seal
<1>2. CASE PutGoes \/ SealCommits \/ ReadCount \/ ReadState \/ AskErr \/ AskWedged
    BY <1>2 DEF PutGoes, SealCommits, ReadCount, ReadState, AskErr, AskWedged
<1>3. CASE LastErr \/ Freeze \/ FreezeSwap \/ FirstCount \/ Answered
    BY <1>3 DEF LastErr, Freeze, FreezeSwap, FirstCount, Answered
<1>12. CASE HandSeal
    BY <1>12 DEF HandSeal
<1>4. CASE LandReadable \/ LandSwap
    BY <1>4 DEF LandReadable, LandSwap
<1>5. CASE LandFails \/ FrontFailed \/ LandDurable
    BY <1>5, HandoffAssumption DEF LandFails, FrontFailed, LandDurable, CountsOut, Fault
<1>6. CASE CountOut
    <2>1. inSeal = Len(queue) + 1 /\ Len(queue) \in Nat
        BY <1>6 DEF CountOut, HandInv, JobsInv, TypeOK
    <2> QED
        BY <1>6, <2>1 DEF CountOut
<1>7. CASE SetWedged \/ PutErr \/ DrainTaken \/ DrainAnswer
    BY <1>7 DEF SetWedged, PutErr, DrainTaken, DrainAnswer
<1>8. CASE Promote
    BY <1>8 DEF Promote
<1>13. CASE MergeFails
    <2>1. fails' \in 0..MaxFail /\ merr' = TRUE
        BY <1>13, HandoffAssumption DEF MergeFails, Fault
    <2> QED
        BY <1>13, <2>1 DEF MergeFails
<1>9. CASE \E t \in Table : Thread(t)
    BY <1>9, HandoffAssumption DEF Thread, SealNames, SealSyncs, SealThreadFails, Fault
<1> QED
    BY <1>1, <1>2, <1>3, <1>4, <1>5, <1>6, <1>7, <1>8, <1>9, <1>10, <1>11, <1>12, <1>13
       DEF Next, Caller, Writer, Maint

\* What a call that ends a batch may say of it.
LEMMA DoneTyped ==
    ASSUME TypeOK, Next
    PROVE  \/ UNCHANGED done
           \/ \E r \in {"ok", "err"} : done' = [done EXCEPT ![b] = r] /\ n = 2
<1>1. CASE Put \/ PutGoes \/ ReadCount \/ ReadState \/ Freeze \/ FreezeSwap \/ FirstCount
    BY <1>1 DEF Put, PutGoes, ReadCount, ReadState, Freeze, FreezeSwap, FirstCount, ghost
<1>2. CASE Commit \/ Sync \/ SealCommits
    BY <1>2 DEF Commit, Sync, SealCommits, Return, Waits
<1>3. CASE \E c \in {"seal", "flush"} : Seal(c)
    BY <1>3 DEF Seal, Return
<1>4. CASE AskErr \/ AskWedged \/ LastErr
    BY <1>4 DEF AskErr, AskWedged, LastErr, GivesUp, Return
<1>5. CASE HandSeal \/ Answered
    BY <1>5 DEF HandSeal, Answered, Return
<1>6. CASE Maint
    BY <1>6 DEF Maint, LandReadable, LandSwap, LandFails, FrontFailed, LandDurable, CountsOut,
       CountOut, SetWedged, PutErr, DrainTaken, DrainAnswer, ghost
<1>7. CASE MergeFails \/ Promote
    BY <1>7 DEF MergeFails, Promote, ghost
<1>8. CASE \E t \in Table : Thread(t)
    BY <1>8 DEF Thread, SealNames, SealSyncs, SealThreadFails, ghost
<1> QED
    BY <1>1, <1>2, <1>3, <1>4, <1>5, <1>6, <1>7, <1>8 DEF Next, Caller, Writer

LEMMA BatchTyped ==
    ASSUME HandInv, Next
    PROVE  /\ b' \in 1..(MaxBatch + 1) /\ n' \in 0..2 /\ (n' > 0 => b' <= MaxBatch)
           /\ done' \in [Batch -> {"no", "ok", "err"}]
<1>1. /\ b \in 1..(MaxBatch + 1) /\ n \in 0..2 /\ (n > 0 => b <= MaxBatch)
      /\ done \in [Batch -> {"no", "ok", "err"}] /\ MaxBatch \in Nat
    BY HandoffAssumption DEF HandInv, TypeOK, WriterInv
<1>2. done' \in [Batch -> {"no", "ok", "err"}]
    BY <1>1, DoneTyped DEF HandInv
<1>3. ASSUME n' = n + 1, b' = b PROVE n < 2 /\ b <= MaxBatch
    <2>1. n # n'
        BY <1>1, <1>3
    <2>2. CASE Put \/ PutGoes
        BY <1>1, <1>3, <2>1, <2>2 DEF Put, PutGoes, HandInv, WriterInv
    <2>3. CASE AskErr \/ AskWedged
        <3>1. n = 2 => call # "put"
            BY <2>3 DEF AskErr, AskWedged, HandInv, WriterInv
        <3>2. call = "put" => n < 2 /\ b <= MaxBatch
            BY <2>3 DEF AskErr, AskWedged, HandInv, WriterInv
        <3>3. call = "put"
            BY <1>1, <1>3, <2>1, <2>3 DEF AskErr, AskWedged, GivesUp, Return
        <3> QED
            BY <3>2, <3>3
    <2>4. CASE Commit \/ Sync \/ SealCommits
        BY <1>1, <1>3, <2>1, <2>4 DEF Commit, Sync, SealCommits, Return
    <2>5. CASE \E c \in {"seal", "flush"} : Seal(c)
        BY <1>1, <1>3, <2>1, <2>5 DEF Seal, Return
    <2>6. CASE LastErr \/ HandSeal \/ Answered
        BY <1>1, <1>3, <2>1, <2>6 DEF LastErr, HandSeal, Answered, Return
    <2>7. CASE ReadCount \/ ReadState \/ Freeze \/ FreezeSwap \/ FirstCount
        BY <2>1, <2>7 DEF ReadCount, ReadState, Freeze, FreezeSwap, FirstCount, ghost
    <2>8. CASE Maint
        BY <2>1, <2>8 DEF Maint, LandReadable, LandSwap, LandFails, FrontFailed, LandDurable,
           CountsOut, CountOut, SetWedged, PutErr, DrainTaken, DrainAnswer, ghost
    <2>9. CASE MergeFails \/ Promote \/ \E t \in Table : Thread(t)
        BY <2>1, <2>9 DEF MergeFails, Promote, Thread, SealNames, SealSyncs, SealThreadFails,
           ghost
    <2> QED
        BY <2>2, <2>3, <2>4, <2>5, <2>6, <2>7, <2>8, <2>9 DEF Next, Caller, Writer
<1>4. CASE n' = n + 1 /\ UNCHANGED <<b, done>>
    BY <1>1, <1>2, <1>3, <1>4
<1>5. CASE UNCHANGED <<b, n, done>>
    BY <1>1, <1>5
<1>6. CASE n = 2 /\ b' = b + 1 /\ n' = 0
    BY <1>1, <1>2, <1>6
<1> QED
    BY <1>4, <1>5, <1>6, BatchFrame

LEMMA TypeStep == ASSUME HandInv, Next PROVE TypeOK'
BY StTyped, SeenTyped, ContTyped, QueueTyped, WriterTyped, SharedTyped, BatchTyped
   DEF TypeOK, HandInv

-----------------------------------------------------------------------------
(* The tables and their writes.                                              *)

\* The list after a freeze and after a landing.
LEMMA Appended ==
    ASSUME NEW s \in Seq(Table), NEW t \in Table
    PROVE  /\ DOMAIN Append(s, t) = 1..(Len(s) + 1) /\ Len(Append(s, t)) = Len(s) + 1
           /\ \A i \in DOMAIN s : Append(s, t)[i] = s[i]
           /\ Append(s, t)[Len(s) + 1] = t /\ DOMAIN s = 1..Len(s) /\ Len(s) \in Nat
OBVIOUS

LEMMA Dropped ==
    ASSUME NEW S, NEW s \in Seq(S), s # <<>>
    PROVE  /\ DOMAIN Tail(s) = 1..(Len(s) - 1) /\ DOMAIN s = 1..Len(s) /\ Len(s) \in Nat \ {0}
           /\ Len(Tail(s)) = Len(s) - 1 /\ 1 \in DOMAIN s /\ s[1] = Head(s)
           /\ \A i \in DOMAIN Tail(s) : i + 1 \in DOMAIN s /\ Tail(s)[i] = s[i + 1]
OBVIOUS

LEMMA TabsStep ==
    ASSUME HandInv, Next PROVE TabsInv'
<1>1. /\ TabsInv /\ st.mem \in Table /\ st.frozen \in Seq(Table) /\ st.segs \subseteq Table
      /\ nextTab \in Nat /\ Table \subseteq Nat
    BY HandoffAssumption DEF HandInv, TypeOK, State, Table
<1>a. st.mem < nextTab /\ st.mem \notin st.segs /\ \A t \in st.segs : t < nextTab
    BY <1>1, Zenon DEF TabsInv
<1>b. \A i \in DOMAIN st.frozen : /\ st.frozen[i] < nextTab /\ st.frozen[i] # st.mem
                                 /\ st.frozen[i] \notin st.segs
    BY <1>1, Zenon DEF TabsInv
<1>c. st.mem \in Nat /\ nextTab \in Nat /\ \A t \in st.segs : t \in Nat
    BY <1>1
<1>2. CASE UNCHANGED <<st, nextTab>>
    BY <1>1, <1>2 DEF TabsInv, Frozen
<1>3. CASE Freezing
    <2>1. /\ st'.mem = nextTab /\ st'.segs = st.segs /\ nextTab' = nextTab + 1
          /\ st'.frozen = Append(st.frozen, st.mem)
        BY <1>3 DEF Freezing
    <2>2. /\ DOMAIN st'.frozen = 1..(Len(st.frozen) + 1) /\ DOMAIN st.frozen = 1..Len(st.frozen)
          /\ \A i \in DOMAIN st.frozen : st'.frozen[i] = st.frozen[i]
          /\ st'.frozen[Len(st.frozen) + 1] = st.mem /\ Len(st.frozen) \in Nat
        BY <1>1, <2>1, Appended
    <2>3. \A i \in DOMAIN st'.frozen : i \in DOMAIN st.frozen \/ i = Len(st.frozen) + 1
        BY <2>2
    <2>4. st'.mem < nextTab' /\ st'.mem \notin st'.segs /\ \A t \in st'.segs : t < nextTab'
        BY <1>a, <1>c, <2>1
    <2>5. \A i \in DOMAIN st'.frozen : /\ st'.frozen[i] < nextTab' /\ st'.frozen[i] # st'.mem
                                       /\ st'.frozen[i] \notin st'.segs
        <3> SUFFICES ASSUME NEW i \in DOMAIN st'.frozen
                     PROVE  /\ st'.frozen[i] < nextTab' /\ st'.frozen[i] # st'.mem
                            /\ st'.frozen[i] \notin st'.segs
            OBVIOUS
        <3>1. CASE i = Len(st.frozen) + 1
            <4>1. st'.frozen[i] = st.mem
                BY <2>2, <3>1
            <4> QED
                BY <1>a, <1>c, <2>1, <4>1
        <3>2. CASE i \in DOMAIN st.frozen
            <4>a. st.frozen[i] \in Table
                BY <1>1, <3>2
            <4>1. st.frozen[i] \in Nat
                BY <4>a, HandoffAssumption DEF Table
            <4>2. st'.frozen[i] = st.frozen[i]
                BY <2>2, <3>2
            <4>3. /\ st.frozen[i] < nextTab /\ st.frozen[i] # st.mem
                  /\ st.frozen[i] \notin st.segs
                BY <1>b, <3>2
            <4> QED
                BY <1>c, <2>1, <4>1, <4>2, <4>3
        <3> QED
            BY <2>3, <3>1, <3>2
    <2>6. \A i, j \in DOMAIN st'.frozen : st'.frozen[i] = st'.frozen[j] => i = j
        BY <1>1, <2>2, <2>3 DEF TabsInv
    <2>7. ASSUME NEW t \in Table, t < nextTab'
          PROVE  t = st'.mem \/ t \in st'.segs \/ \E i \in DOMAIN st'.frozen : st'.frozen[i] = t
        <3>1. t < nextTab \/ t = nextTab
            BY <1>1, <2>1, <2>7
        <3>2. t = nextTab \/ t = st.mem \/ t \in st.segs \/ Frozen(t)
            BY <1>1, <3>1 DEF TabsInv
        <3>3. Len(st.frozen) + 1 \in DOMAIN st'.frozen /\ DOMAIN st.frozen \subseteq DOMAIN st'.frozen
            BY <2>2
        <3> QED
            BY <2>1, <2>2, <3>2, <3>3 DEF Frozen
    <2> QED
        BY <2>4, <2>5, <2>6, <2>7 DEF TabsInv, Frozen
<1>4. ASSUME NEW u \in Table, Lands(u) PROVE TabsInv'
    <2>1. CASE u = st.mem
        <3>1. /\ st'.mem = nextTab /\ st'.segs = st.segs \cup {u} /\ nextTab' = nextTab + 1
              /\ st'.frozen = <<>> /\ st.frozen = <<>>
            BY <1>4, <2>1 DEF Lands
        <3>2. DOMAIN st'.frozen = {} /\ DOMAIN st.frozen = {}
            BY <3>1
        <3>3. \A t \in Table : t < nextTab' => t < nextTab \/ t = nextTab
            BY <1>1, <3>1
        <3>4. \A t \in Table : t < nextTab' => t = st'.mem \/ t \in st'.segs
            BY <1>1, <2>1, <3>1, <3>2, <3>3 DEF TabsInv, Frozen
        <3>5. st'.mem < nextTab' /\ st'.mem \notin st'.segs /\ \A t \in st'.segs : t < nextTab'
            BY <1>1, <2>1, <3>1 DEF TabsInv
        <3> QED
            BY <3>2, <3>4, <3>5 DEF TabsInv
    <2>2. CASE u # st.mem
        <3>1. /\ st'.mem = st.mem /\ st'.segs = st.segs \cup {u} /\ nextTab' = nextTab
              /\ st'.frozen = Tail(st.frozen) /\ st.frozen # <<>> /\ u = st.frozen[1]
            <4>1. /\ st.frozen # <<>> /\ u = st.frozen[1] /\ nextTab' = nextTab
                  /\ st' = [mem |-> st.mem, frozen |-> Tail(st.frozen), segs |-> st.segs \cup {u}]
                BY <1>4, <2>2, Zenon DEF Lands
            <4> QED
                BY <4>1
        <3>2. /\ DOMAIN st'.frozen = 1..(Len(st.frozen) - 1) /\ DOMAIN st.frozen = 1..Len(st.frozen)
              /\ \A i \in DOMAIN st'.frozen :
                    i + 1 \in DOMAIN st.frozen /\ st'.frozen[i] = st.frozen[i + 1]
              /\ Len(st.frozen) \in Nat \ {0} /\ 1 \in DOMAIN st.frozen
            BY <1>1, <3>1, Dropped
        <3>3. st'.mem < nextTab' /\ st'.mem \notin st'.segs /\ \A t \in st'.segs : t < nextTab'
            BY <1>1, <2>2, <3>1, <3>2 DEF TabsInv
        <3>4. \A i \in DOMAIN st'.frozen : /\ st'.frozen[i] < nextTab' /\ st'.frozen[i] # st'.mem
                                           /\ st'.frozen[i] \notin st'.segs
            <4> SUFFICES ASSUME NEW i \in DOMAIN st'.frozen
                         PROVE  /\ st'.frozen[i] < nextTab' /\ st'.frozen[i] # st'.mem
                                /\ st'.frozen[i] \notin st'.segs
                OBVIOUS
            <4>1. i + 1 \in DOMAIN st.frozen /\ st'.frozen[i] = st.frozen[i + 1] /\ i + 1 # 1
                BY <3>2
            <4>2. st.frozen[i + 1] # st.frozen[1]
                BY <1>1, <3>2, <4>1 DEF TabsInv
            <4> QED
                BY <1>1, <3>1, <4>1, <4>2 DEF TabsInv
        <3>5. ASSUME NEW i \in DOMAIN st'.frozen, NEW j \in DOMAIN st'.frozen,
                     st'.frozen[i] = st'.frozen[j]
              PROVE  i = j
            <4>1. i + 1 = j + 1
                BY <1>1, <3>2, <3>5 DEF TabsInv
            <4> QED
                BY <3>2, <4>1
        <3>6. ASSUME NEW t \in Table, t < nextTab'
              PROVE  t = st'.mem \/ t \in st'.segs \/ \E i \in DOMAIN st'.frozen : st'.frozen[i] = t
            <4>1. t = st.mem \/ t \in st.segs \/ Frozen(t)
                BY <1>1, <3>1, <3>6 DEF TabsInv
            <4>2. ASSUME NEW i \in DOMAIN st.frozen, st.frozen[i] = t
                  PROVE  t = u \/ \E j \in DOMAIN st'.frozen : st'.frozen[j] = t
                <5>1. CASE i = 1
                    BY <3>1, <4>2, <5>1
                <5>2. CASE i # 1
                    <6>1. i - 1 \in DOMAIN st'.frozen /\ (i - 1) + 1 = i
                        BY <3>2, <5>2
                    <6> QED
                        BY <3>2, <4>2, <6>1
                <5> QED
                    BY <5>1, <5>2
            <4> QED
                BY <3>1, <4>1, <4>2 DEF Frozen
        <3> QED
            BY <3>3, <3>4, <3>5, <3>6 DEF TabsInv, Frozen
    <2> QED
        BY <2>1, <2>2
<1>5. CASE FreezeSwap
    BY <1>2, <1>3, <1>5, FreezeMoves DEF HandInv
<1>6. CASE LandSwap
    <2>1. UNCHANGED <<st, nextTab>> \/ (Lands(queue[1].tab) /\ queue[1].tab \in Table)
        BY <1>6, LandMoves DEF Job
    <2> QED
        BY <1>2, <1>4, <2>1
<1> QED
    BY <1>2, <1>5, <1>6, StFrame

\* What TypeOK says of the variables these proofs need most.
LEMMA Typed ==
    ASSUME HandInv
    PROVE  /\ st.mem \in Table /\ st.frozen \in Seq(Table) /\ st.segs \subseteq Table
           /\ queue \in Seq(Job) /\ handed \in Table \cup {None}
           /\ cont \in [Table -> SUBSET Op] /\ comm \in [Table -> SUBSET Op]
           /\ seg \in [Table -> SUBSET Op] /\ None \notin Table
BY HandoffAssumption DEF HandInv, TypeOK, State, Table, None

LEMMA TypedNat ==
    ASSUME HandInv
    PROVE  /\ nextTab \in Nat /\ b \in Nat /\ n \in 0..2 /\ MaxBatch \in Nat /\ b >= 1
           /\ Table \subseteq Nat /\ handed \in Nat
BY HandoffAssumption DEF HandInv, TypeOK, State, Table, None

\* No fresh table has been written.
LEMMA NextGrows ==
    ASSUME HandInv, Next
    PROVE  /\ nextTab' \in Nat /\ nextTab' >= nextTab
           /\ st'.mem = st.mem \/ (st'.mem = nextTab /\ nextTab \in Table)
<1>0. nextTab \in Nat
    BY TypedNat
<1>1. CASE UNCHANGED <<st, nextTab>>
    BY <1>0, <1>1
<1>2. CASE Freezing
    BY <1>0, <1>2 DEF Freezing
<1>3. ASSUME NEW u, Lands(u)
      PROVE  /\ nextTab' \in Nat /\ nextTab' >= nextTab
             /\ st'.mem = st.mem \/ (st'.mem = nextTab /\ nextTab \in Table)
    <2>1. CASE nextTab' = nextTab /\ st'.mem = st.mem
        BY <1>0, <2>1
    <2>2. CASE nextTab' = nextTab + 1 /\ st'.mem = nextTab /\ nextTab \in Table
        BY <1>0, <2>2
    <2> QED
        BY <1>3, <2>1, <2>2 DEF Lands
<1> QED
    BY <1>1, <1>2, <1>3, StFrame, FreezeMoves, LandMoves DEF HandInv

LEMMA ContStep ==
    ASSUME HandInv, Next PROVE ContInv'
<1>1. /\ cont \in [Table -> SUBSET Op] /\ comm \in [Table -> SUBSET Op] /\ st.mem \in Table
      /\ ContInv
    BY Typed DEF HandInv
<1>2. /\ nextTab \in Nat /\ nextTab' \in Nat /\ nextTab' >= nextTab /\ Table \subseteq Nat
      /\ b \in Nat /\ n \in 0..2
    BY TypedNat, NextGrows
<1>3. ASSUME NEW t \in Table
      PROVE  comm'[t] \subseteq cont'[t] /\ (t >= nextTab' => cont'[t] = {})
    <2>1. comm[t] \subseteq cont[t] /\ (t >= nextTab => cont[t] = {})
        BY <1>1 DEF ContInv
    <2>2. cont[t] \subseteq cont'[t] /\ (t # st.mem => cont'[t] = cont[t])
        BY <1>1, PutStages DEF Staged, HandInv
    <2>3. comm'[t] \subseteq cont[t]
        BY <1>1, <2>1, CommFrame DEF HandInv, CommitMem
    <2>4. t >= nextTab' => t >= nextTab /\ t # st.mem
        <3>1. st.mem < nextTab
            BY DEF HandInv, TabsInv
        <3>2. t \in Nat /\ st.mem \in Nat
            BY <1>1, <1>2
        <3> QED
            BY <1>2, <3>1, <3>2
    <2> QED
        BY <2>1, <2>2, <2>3, <2>4
<1>a. ASSUME NEW t \in Table, NEW w \in cont[t] PROVE w[1] \in Nat /\ w[2] \in Nat
    <2>1. w \in Op
        BY <1>1, <1>a
    <2> QED
        BY <2>1, HandoffAssumption DEF Op, Batch
<1>b. ASSUME NEW t \in Table, NEW w \in cont[t] PROVE w[1] < b \/ (w[1] = b /\ w[2] <= n)
    BY <1>1, <1>b DEF ContInv
<1>4. CASE Staged
    <2>1. \A t \in Table : <<b, n + 1>> \notin cont[t]
        <3> SUFFICES ASSUME NEW t \in Table, <<b, n + 1>> \in cont[t] PROVE FALSE
            OBVIOUS
        <3>1. b < b \/ (b = b /\ n + 1 <= n)
            BY <1>b
        <3> QED
            BY <1>2, <3>1
    <2>2. \A t, u \in Table : t # u => cont'[t] \cap cont'[u] = {}
        BY <1>1, <1>4, <2>1 DEF Staged, ContInv
    <2>3. ASSUME NEW t \in Table, NEW w \in cont'[t]
          PROVE  w[1] < b' \/ (w[1] = b' /\ w[2] <= n')
        <3>1. w \in cont[t] \/ w = <<b, n + 1>>
            BY <1>1, <1>4, <2>3 DEF Staged
        <3>2. CASE w \in cont[t]
            BY <1>2, <1>4, <1>a, <1>b, <3>2 DEF Staged
        <3>3. CASE w = <<b, n + 1>>
            BY <1>2, <1>4, <3>3 DEF Staged
        <3> QED
            BY <3>1, <3>2, <3>3
    <2> QED
        BY <1>3, <2>2, <2>3 DEF ContInv
<1>5. CASE UNCHANGED cont
    <2>1. \A t, u \in Table : t # u => cont'[t] \cap cont'[u] = {}
        BY <1>1, <1>5 DEF ContInv
    <2>2. ASSUME NEW t \in Table, NEW w \in cont'[t]
          PROVE  w[1] < b' \/ (w[1] = b' /\ w[2] <= n')
        <3>1. w[1] \in Nat /\ w[2] \in Nat /\ (w[1] < b \/ (w[1] = b /\ w[2] <= n))
            BY <1>5, <1>a, <1>b, <2>2
        <3> QED
            BY <1>2, <3>1, BatchFrame
    <2> QED
        BY <1>3, <2>1, <2>2 DEF ContInv
<1> QED
    BY <1>4, <1>5, PutStages DEF HandInv

LEMMA RoomStep ==
    ASSUME HandInv, Next PROVE RoomInv'
<1>1. nextTab \in Nat /\ nextTab' \in Nat /\ b \in Nat /\ n \in 0..2 /\ b >= 1
    BY TypedNat, NextGrows
<1>2. nextTab - 2 + (IF cont[st.mem] = {} THEN 0 ELSE 1) <= 2 * (b - 1) + n
    BY Zenon DEF HandInv, RoomInv
<1>3. /\ cont \in [Table -> SUBSET Op] /\ st.mem \in Table
      /\ \A t \in Table : t >= nextTab => cont[t] = {}
    BY Typed DEF HandInv, ContInv
<1>4. CASE Staged
    <2>1. st' = st /\ nextTab' = nextTab /\ b' = b /\ n' = n + 1
        BY <1>4 DEF Staged, shared
    <2>2. (IF cont'[st'.mem] = {} THEN 0 ELSE 1) \in {0, 1}
        OBVIOUS
    <2>3. nextTab - 2 <= 2 * (b - 1) + n
        BY <1>1, <1>2
    <2> QED
        BY <1>1, <2>1, <2>2, <2>3 DEF RoomInv
<1>5. CASE UNCHANGED cont
    <2>1. 2 * (b' - 1) + n' >= 2 * (b - 1) + n /\ 2 * (b' - 1) + n' \in Int
        BY <1>1, BatchFrame
    <2>2. CASE UNCHANGED <<st, nextTab>>
        BY <1>1, <1>2, <1>5, <2>1, <2>2 DEF RoomInv
    <2>3. ASSUME nextTab' = nextTab + 1, st'.mem = nextTab, nextTab \in Table, cont[st.mem] # {}
          PROVE  RoomInv'
        <3>1. cont'[st'.mem] = {}
            BY <1>1, <1>3, <1>5, <2>3
        <3> QED
            BY <1>1, <1>2, <2>1, <2>3, <3>1 DEF RoomInv
    <2>4. ASSUME nextTab' = nextTab, st'.mem = st.mem PROVE RoomInv'
        BY <1>1, <1>2, <1>5, <2>1, <2>4 DEF RoomInv
    <2>5. CASE Freezing
        BY <2>3, <2>5 DEF Freezing
    <2>6. ASSUME NEW u, Lands(u) PROVE RoomInv'
        <3>1. \/ nextTab' = nextTab /\ st'.mem = st.mem
              \/ nextTab' = nextTab + 1 /\ st'.mem = nextTab /\ nextTab \in Table /\ cont[st.mem] # {}
            BY <2>6 DEF Lands
        <3> QED
            BY <2>3, <2>4, <3>1
    <2> QED
        BY <2>2, <2>5, <2>6, StFrame, FreezeMoves, LandMoves DEF HandInv
<1> QED
    BY <1>4, <1>5, PutStages DEF HandInv

-----------------------------------------------------------------------------
(* The seals in flight.                                                      *)

\* Who moves the count, the segment work's place and the writer's handed table.
LEMMA CountFrame ==
    ASSUME Next
    PROVE  /\ UNCHANGED inSeal \/ HandSeal \/ CountOut
           /\ UNCHANGED mpc \/ Maint
           /\ UNCHANGED outcome \/ LandFails \/ FrontFailed \/ LandDurable
           /\ UNCHANGED wedged \/ SetWedged
<1>1. CASE Caller
    BY <1>1 DEF Caller, Put, Commit, Sync, Seal, shared, maint
<1>2. CASE Writer
    BY <1>2 DEF Writer, PutGoes, SealCommits, ReadCount, ReadState, AskErr, AskWedged,
       LastErr, Freeze, FreezeSwap, FirstCount, HandSeal, Answered, shared, maint
<1>3. CASE Maint
    BY <1>3 DEF Maint, LandReadable, LandSwap, LandFails, FrontFailed, LandDurable, CountsOut,
       CountOut, SetWedged, PutErr, DrainTaken, DrainAnswer, shared
<1>4. CASE MergeFails \/ Promote
    BY <1>4 DEF MergeFails, Promote, shared, maint
<1>5. CASE \E t \in Table : Thread(t)
    BY <1>5 DEF Thread, SealNames, SealSyncs, SealThreadFails, shared
<1> QED
    BY <1>1, <1>2, <1>3, <1>4, <1>5 DEF Next

LEMMA HandedFrame ==
    ASSUME Next
    PROVE  \/ UNCHANGED handed
           \/ handed # st.mem /\ handed' = None /\ UNCHANGED st
           \/ FreezeSwap /\ loop = "fresh" /\ st = seen /\ handed' = None
           \/ HandSeal /\ call = "sync" /\ handed' = st.mem
<1>1. CASE Caller
    BY <1>1 DEF Caller, Put, Commit, Sync, Seal
<1>2. CASE PutGoes \/ SealCommits \/ ReadCount \/ AskErr \/ AskWedged \/ LastErr \/ Freeze
           \/ FirstCount \/ Answered
    BY <1>2 DEF PutGoes, SealCommits, ReadCount, AskErr, AskWedged, LastErr, Freeze,
       FirstCount, Answered
<1>3. CASE ReadState
    BY <1>3 DEF ReadState, Fresh, shared
<1>4. CASE FreezeSwap
    BY <1>4 DEF FreezeSwap, Fresh
<1>5. CASE HandSeal
    BY <1>5 DEF HandSeal, Sealed
<1>6. CASE Maint
    BY <1>6 DEF Maint, LandReadable, LandSwap, LandFails, FrontFailed, LandDurable, CountsOut,
       CountOut, SetWedged, PutErr, DrainTaken, DrainAnswer, writer
<1>7. CASE MergeFails \/ Promote
    BY <1>7 DEF MergeFails, Promote, writer
<1>8. CASE \E t \in Table : Thread(t)
    BY <1>8 DEF Thread, SealNames, SealSyncs, SealThreadFails, writer
<1> QED
    BY <1>1, <1>2, <1>3, <1>4, <1>5, <1>6, <1>7, <1>8 DEF Next, Writer

\* The queue's places after each of its moves.
LEMMA QueueDom ==
    ASSUME HandInv
    PROVE  /\ Len(queue) \in Nat /\ DOMAIN queue = 1..Len(queue)
           /\ \A i \in DOMAIN queue : queue[i] \in Job
           /\ queue # <<>> => 1 \in DOMAIN queue /\ Len(queue) >= 1
<1>1. queue \in Seq(Job)
    BY Typed
<1> QED
    BY <1>1

LEMMA HandDom ==
    ASSUME HandInv, NEW f, Hands(f)
    PROVE  /\ Len(queue') = Len(queue) + 1 /\ DOMAIN queue' = 1..(Len(queue) + 1)
           /\ \A i \in DOMAIN queue : queue'[i] = queue[i]
           /\ queue'[Len(queue) + 1] = [tab |-> Sealed, st |-> "writing", landed |-> FALSE,
                                        first |-> f]
<1>1. queue \in Seq(Job)
    BY Typed
<1> QED
    BY <1>1 DEF Hands

LEMMA LandDom ==
    ASSUME HandInv, queue # <<>>, queue' = [queue EXCEPT ![1].landed = TRUE]
    PROVE  /\ Len(queue') = Len(queue) /\ DOMAIN queue' = DOMAIN queue /\ queue' # <<>>
           /\ \A i \in DOMAIN queue :
                 /\ queue'[i].tab = queue[i].tab /\ queue'[i].st = queue[i].st
                 /\ queue'[i].first = queue[i].first
                 /\ queue'[i].landed = IF i = 1 THEN TRUE ELSE queue[i].landed
<1>1. queue \in Seq(Job)
    BY Typed
<1>2. 1 \in DOMAIN queue /\ queue[1] \in Job
    BY <1>1
<1>3. DOMAIN queue' = DOMAIN queue /\ Len(queue') = Len(queue)
    BY <1>1, <1>2
<1>4. \A i \in DOMAIN queue : i # 1 => queue'[i] = queue[i]
    BY <1>1, <1>2
<1>5. queue'[1] = [queue[1] EXCEPT !.landed = TRUE]
    BY <1>1, <1>2
<1>6. /\ queue'[1].tab = queue[1].tab /\ queue'[1].st = queue[1].st
      /\ queue'[1].first = queue[1].first /\ queue'[1].landed = TRUE
    BY <1>2, <1>5 DEF Job
<1>7. queue' # <<>>
    BY <1>2, <1>3
<1> QED
    BY <1>3, <1>4, <1>6, <1>7

LEMMA RetellDom ==
    ASSUME HandInv, NEW k \in DOMAIN queue, NEW s, Retells(k, s)
    PROVE  /\ Len(queue') = Len(queue) /\ DOMAIN queue' = DOMAIN queue
           /\ \A i \in DOMAIN queue :
                 /\ queue'[i].tab = queue[i].tab /\ queue'[i].landed = queue[i].landed
                 /\ queue'[i].first = queue[i].first
                 /\ queue'[i].st = IF i = k THEN s ELSE queue[i].st
<1>1. queue \in Seq(Job)
    BY Typed
<1>2. queue[k] \in Job
    BY <1>1
<1>3. DOMAIN queue' = DOMAIN queue /\ Len(queue') = Len(queue)
    BY <1>1 DEF Retells
<1>4. \A i \in DOMAIN queue : i # k => queue'[i] = queue[i]
    BY <1>1 DEF Retells
<1>5. queue'[k] = [queue[k] EXCEPT !.st = s]
    BY <1>1 DEF Retells
<1>6. /\ queue'[k].tab = queue[k].tab /\ queue'[k].landed = queue[k].landed
      /\ queue'[k].first = queue[k].first /\ queue'[k].st = s
    BY <1>2, <1>5 DEF Job
<1> QED
    BY <1>3, <1>4, <1>6

LEMMA TailDom ==
    ASSUME HandInv, queue # <<>>, queue' = Tail(queue)
    PROVE  /\ Len(queue') = Len(queue) - 1 /\ DOMAIN queue' = 1..(Len(queue) - 1)
           /\ \A i \in DOMAIN queue' : i + 1 \in DOMAIN queue /\ queue'[i] = queue[i + 1]
<1>1. queue \in Seq(Job)
    BY Typed
<1> QED
    BY <1>1, Dropped

\* The count.
LEMMA CountStep ==
    ASSUME HandInv, Next
    PROVE  inSeal' = Len(queue') + (IF mpc' = "out" THEN 1 ELSE 0)
<1>1. inSeal = Len(queue) + (IF mpc = "out" THEN 1 ELSE 0) /\ Len(queue) \in Nat
    BY QueueDom DEF HandInv, JobsInv
<1>2. CASE HandSeal
    <2>1. inSeal' = inSeal + 1 /\ mpc' = mpc /\ \E f : Hands(f)
        BY <1>2 DEF HandSeal, Hands
    <2>2. Len(queue') = Len(queue) + 1
        BY <2>1, HandDom
    <2> QED
        BY <1>1, <2>1, <2>2
<1>3. CASE CountOut
    <2>1. mpc = "out" /\ mpc' # "out" /\ inSeal' = inSeal - 1 /\ queue' = queue
        BY <1>3 DEF CountOut, HandInv, TypeOK
    <2> QED
        BY <1>1, <2>1
<1>4. CASE LandFails \/ FrontFailed \/ LandDurable
    <2>1. mpc = "idle" /\ mpc' = "out" /\ inSeal' = inSeal /\ queue # <<>> /\ queue' = Tail(queue)
        BY <1>4 DEF LandFails, FrontFailed, LandDurable, Turn, CountsOut, shared
    <2>2. Len(queue') = Len(queue) - 1
        BY <2>1, TailDom
    <2> QED
        BY <1>1, <2>1, <2>2
<1>5. CASE ~(HandSeal \/ CountOut \/ LandFails \/ FrontFailed \/ LandDurable)
    <2>1. inSeal' = inSeal
        BY <1>5, CountFrame
    <2>2. Len(queue') = Len(queue)
        BY <1>5, QueueMoves, LandDom, RetellDom
    <2>3. (mpc = "out") <=> (mpc' = "out")
        BY <1>5, CountFrame DEF Maint, Turn, LandReadable, LandSwap, SetWedged, PutErr, DrainTaken,
           DrainAnswer
    <2> QED
        BY <1>1, <2>1, <2>2, <2>3
<1> QED
    BY <1>2, <1>3, <1>4, <1>5

\* A table that a seal not yet landed is of stays live and handed, or frozen: the
\* writer's freeze moves it from the one to the other, and a landing takes the
\* oldest seal's.
Placed(t) == (t = st.mem /\ handed = st.mem) \/ Frozen(t)
PlacedNext(t) == (t = st'.mem /\ handed' = st'.mem)
                 \/ \E i \in DOMAIN st'.frozen : st'.frozen[i] = t
LEMMA StaysPlaced ==
    ASSUME HandInv, Next, NEW t \in Table, Placed(t),
           LandSwap /\ ~UNCHANGED <<st, nextTab, parts, queue, mpc>> =>
               \E i \in DOMAIN queue : i # 1 /\ t = queue[i].tab
    PROVE  PlacedNext(t)
<1>1. /\ st.mem \in Table /\ st.frozen \in Seq(Table) /\ handed \in Table \cup {None}
      /\ None \notin Table /\ TabsInv
    BY Typed DEF HandInv
<1>2. CASE UNCHANGED <<st, handed>>
    BY <1>2 DEF PlacedNext, Placed, Frozen
<1>3. CASE UNCHANGED st /\ handed # handed'
    <2>1. CASE handed # st.mem
        BY <1>3, <2>1 DEF PlacedNext, Placed, Frozen
    <2>2. CASE HandSeal
        BY <1>1, <1>3, <2>2 DEF PlacedNext, Placed, Frozen, HandInv, WriterInv, HandSeal
    <2>3. CASE FreezeSwap /\ st = seen
        <3>1. nextTab' = nextTab + 1 /\ nextTab \in Nat
            BY <2>3, TypedNat DEF FreezeSwap
        <3>2. Freezing
            BY <2>3, <3>1, FreezeMoves DEF HandInv
        <3>3. st'.mem = nextTab /\ st.mem < nextTab /\ st.mem \in Nat /\ nextTab \in Nat
            BY <1>1, <3>2, TypedNat DEF Freezing, TabsInv
        <3> QED
            BY <1>3, <3>3
    <2> QED
        BY <1>3, <2>1, <2>2, <2>3, HandedFrame
<1>4. CASE Freezing /\ FreezeSwap
    <2>1. st'.frozen = Append(st.frozen, st.mem)
        BY <1>4 DEF Freezing
    <2>2. /\ DOMAIN st'.frozen = 1..(Len(st.frozen) + 1) /\ DOMAIN st.frozen = 1..Len(st.frozen)
          /\ \A i \in DOMAIN st.frozen : st'.frozen[i] = st.frozen[i]
          /\ st'.frozen[Len(st.frozen) + 1] = st.mem /\ Len(st.frozen) \in Nat
        BY <1>1, <2>1, Appended
    <2>3. DOMAIN st.frozen \subseteq DOMAIN st'.frozen /\ Len(st.frozen) + 1 \in DOMAIN st'.frozen
        BY <2>2
    <2> QED
        BY <2>2, <2>3 DEF PlacedNext, Placed, Frozen
<1>5. CASE LandSwap /\ ~UNCHANGED <<st, nextTab, parts, queue, mpc>>
    <2>1. Lands(queue[1].tab) /\ Going /\ queue # <<>> /\ ~queue[1].landed
        BY <1>5, LandMoves
    <2>2. PICK i \in DOMAIN queue : i # 1 /\ t = queue[i].tab
        BY <1>5
    <2>3. Landed = 0 /\ Len(queue) \in Nat /\ i \in 1..Len(queue) /\ Len(st.frozen) \in Nat
        BY <1>1, <2>1, QueueDom DEF Landed
    <2>4. t = IF i <= Len(st.frozen) THEN st.frozen[i] ELSE st.mem
        BY <2>1, <2>2, <2>3 DEF HandInv, ChainInv
    <2>5. Unsealed \in {0, 1} /\ Handed \in {0, 1}
        BY DEF Unsealed, Handed
    <2>6. Len(queue) + Unsealed = Landed + Len(st.frozen) + Handed
        BY <2>1, Zenon DEF HandInv, ChainInv
    <2>7. Len(st.frozen) >= 1
        BY ONLY <2>2, <2>3, <2>5, <2>6
    <2>8. st.frozen # <<>> /\ st'.frozen = Tail(st.frozen) /\ st'.mem = st.mem
        <3>1. st.frozen # <<>>
            BY <1>1, <2>7
        <3>2. st' = [mem |-> st.mem, frozen |-> Tail(st.frozen),
                     segs |-> st.segs \cup {queue[1].tab}]
            BY <2>1, <3>1, Zenon DEF Lands
        <3> QED
            BY <3>1, <3>2
    <2>9. handed' = handed
        BY <1>5 DEF LandSwap, writer
    <2>10. CASE i <= Len(st.frozen)
        <3>1. i - 1 \in DOMAIN st'.frozen /\ st'.frozen[i - 1] = st.frozen[(i - 1) + 1] /\ (i - 1) + 1 = i
            BY <1>1, <2>2, <2>3, <2>8, <2>10, Dropped
        <3> QED
            BY <2>4, <2>10, <3>1 DEF PlacedNext, Placed, Frozen
    <2>11. CASE i > Len(st.frozen)
        <3>1. t = st.mem
            BY <2>3, <2>4, <2>11
        <3>2. ~Frozen(t)
            BY <1>1, <3>1 DEF TabsInv, Frozen
        <3> QED
            BY <2>8, <2>9, <3>1, <3>2 DEF PlacedNext, Placed
    <2> QED
        BY <2>3, <2>10, <2>11
<1>6. CASE LandSwap /\ UNCHANGED <<st, nextTab, parts, queue, mpc>>
    BY <1>2, <1>6 DEF LandSwap, writer
<1>7. CASE FreezeSwap /\ UNCHANGED <<st, nextTab>>
    BY <1>2, <1>3, <1>7
<1>8. CASE FreezeSwap /\ ~UNCHANGED <<st, nextTab>>
    BY <1>4, <1>8, FreezeMoves DEF HandInv
<1> QED
    BY <1>2, <1>3, <1>5, <1>6, <1>7, <1>8, StFrame

LEMMA JobsStep ==
    ASSUME HandInv, Next PROVE JobsInv'
<1>1. /\ queue \in Seq(Job) /\ JobsInv /\ \A i \in DOMAIN queue : queue[i].tab \in Table
    BY Typed, QueueDom DEF HandInv, Job
<1>2. mpc' = "swap" => queue' # <<>> /\ ~queue'[1].landed
    <2> SUFFICES ASSUME mpc' = "swap" PROVE queue' # <<>> /\ ~queue'[1].landed
        OBVIOUS
    <2>1. CASE LandReadable
        BY <1>1, <2>1 DEF LandReadable, Turn, Front
    <2>2. CASE mpc = "swap"
        <3>1. queue # <<>> /\ ~queue[1].landed
            BY <2>2 DEF HandInv, JobsInv
        <3>2. CASE HandSeal
            <4>1. \E f : Hands(f)
                BY <3>2 DEF HandSeal, Hands
            <4>2. Len(queue') = Len(queue) + 1 /\ 1 \in DOMAIN queue /\ queue'[1] = queue[1]
                BY <3>1, <4>1, HandDom, QueueDom
            <4>3. queue' \in Seq(Job) /\ Len(queue') # 0
                BY <4>2, QueueDom, QueueTyped
            <4> QED
                BY <3>1, <4>2, <4>3
        <3>3. CASE Works
            <4>1. PICK k \in DOMAIN queue, s \in {"named", "synced", "failed"} : Retells(k, s)
                BY <3>3 DEF Works, SealNames, SealSyncs, SealThreadFails, Retells
            <4>2. 1 \in DOMAIN queue /\ queue'[1].landed = queue[1].landed /\ DOMAIN queue' = DOMAIN queue
                BY <3>1, <4>1, RetellDom, QueueDom
            <4> QED
                BY <3>1, <4>2
        <3>4. CASE LandSwap
            BY <2>2, <3>1, <3>4, LandMoves
        <3>5. ~(LandFails \/ FrontFailed \/ LandDurable)
            BY <2>2 DEF LandFails, FrontFailed, LandDurable, Turn
        <3> QED
            BY <3>1, <3>2, <3>3, <3>4, <3>5, QueueFrame
    <2>3. LandReadable \/ mpc = "swap"
        BY CountFrame DEF Maint, LandSwap, LandFails, FrontFailed, LandDurable, CountsOut,
           CountOut, SetWedged, PutErr, DrainTaken, DrainAnswer, HandInv, TypeOK
    <2> QED
        BY <2>1, <2>2, <2>3
<1>3. wedged' => mpc' \in {"idle", "err"}
    <2>1. CASE SetWedged
        BY <2>1 DEF SetWedged
    <2>2. CASE wedged
        BY <2>2, CountFrame DEF HandInv, JobsInv, Maint, LandReadable, LandSwap, LandFails,
           FrontFailed, LandDurable, Turn, CountOut, SetWedged, PutErr, DrainTaken, DrainAnswer
    <2> QED
        BY <2>1, <2>2, CountFrame
<1>4. ASSUME NEW i \in DOMAIN queue'
      PROVE  IF queue'[i].landed THEN i = 1 /\ queue'[i].tab \in st'.segs ELSE PlacedNext(queue'[i].tab)
    <2>1. \A t \in st.segs : t \in st'.segs
        BY StFrame, FreezeMoves, LandMoves DEF HandInv, Freezing, Lands
    <2>2. ASSUME NEW j \in DOMAIN queue, queue[j].landed PROVE j = 1 /\ queue[j].tab \in st'.segs
        BY <2>1, <2>2 DEF HandInv, JobsInv
    <2>3. ASSUME NEW j \in DOMAIN queue, ~queue[j].landed PROVE Placed(queue[j].tab)
        BY <2>3 DEF HandInv, JobsInv, Placed
    <2>4. ASSUME NEW j \in DOMAIN queue, ~queue[j].landed,
                 LandSwap /\ ~UNCHANGED <<st, nextTab, parts, queue, mpc>> => j # 1
          PROVE  PlacedNext(queue[j].tab)
        BY <1>1, <2>3, <2>4, StaysPlaced
    <2>5. CASE UNCHANGED queue
        <3>1. ~LandSwap \/ UNCHANGED <<st, nextTab, parts, queue, mpc>>
            <4> SUFFICES ASSUME LandSwap, ~UNCHANGED <<st, nextTab, parts, queue, mpc>> PROVE FALSE
                OBVIOUS
            <4>1. queue # <<>> /\ queue' = [queue EXCEPT ![1].landed = TRUE] /\ ~queue[1].landed
                BY LandMoves
            <4>2. 1 \in DOMAIN queue /\ queue'[1].landed
                BY <4>1, LandDom, QueueDom
            <4> QED
                BY <2>5, <4>1, <4>2
        <3> QED
            BY <1>4, <2>2, <2>4, <2>5, <3>1
    <2>6. ASSUME HandSeal, NEW f, Hands(f), Sealed \in Table
          PROVE  IF queue'[i].landed THEN i = 1 /\ queue'[i].tab \in st'.segs
                 ELSE PlacedNext(queue'[i].tab)
        <3>0. /\ DOMAIN queue' = 1..(Len(queue) + 1)
              /\ queue'[Len(queue) + 1] = [tab |-> Sealed, st |-> "writing", landed |-> FALSE,
                                           first |-> f]
            BY <2>6, HandDom, Zenon
        <3>1. i \in DOMAIN queue \/ i = Len(queue) + 1
            BY ONLY <1>4, <3>0, HandInv, QueueDom
        <3>2. CASE i \in DOMAIN queue
            <4>1. queue'[i] = queue[i] /\ (LandSwap => UNCHANGED queue)
                BY <2>6, <3>2, HandDom DEF LandSwap, HandSeal, Return, writer
            <4>2. LandSwap => UNCHANGED <<st, nextTab, parts, queue, mpc>>
                <5>1. LandSwap => wpc' = wpc
                    BY DEF LandSwap, writer
                <5>2. wpc' # wpc
                    BY <2>6 DEF HandSeal, Return
                <5> QED
                    BY <5>1, <5>2
            <4> QED
                BY <2>2, <2>4, <3>2, <4>1, <4>2
        <3>3. CASE i = Len(queue) + 1
            <4>1. ~queue'[i].landed /\ queue'[i].tab = Sealed
                BY <3>0, <3>3
            <4>2. st' = st /\ handed' = IF call = "sync" THEN Sealed ELSE handed
                BY <2>6 DEF HandSeal
            <4>3. CASE call = "sync"
                BY <4>1, <4>2, <4>3 DEF Sealed, PlacedNext
            <4>4. CASE call # "sync"
                <5>1. st.frozen # <<>> /\ st.frozen \in Seq(Table)
                    BY <2>6, <4>4, Typed DEF HandSeal, HandInv, WriterInv
                <5>2. Len(st.frozen) \in DOMAIN st.frozen
                    BY <5>1
                <5> QED
                    BY <4>1, <4>2, <4>4, <5>2 DEF Sealed, PlacedNext, Frozen
            <4> QED
                BY <4>3, <4>4
        <3> QED
            BY <3>1, <3>2, <3>3
    <2>7. CASE LandSwap /\ ~UNCHANGED <<st, nextTab, parts, queue, mpc>>
        <3>1. /\ Lands(queue[1].tab) /\ queue # <<>> /\ ~queue[1].landed
              /\ queue' = [queue EXCEPT ![1].landed = TRUE]
            BY <2>7, LandMoves
        <3>2. /\ i \in DOMAIN queue /\ queue'[i].tab = queue[i].tab
              /\ queue'[i].landed = IF i = 1 THEN TRUE ELSE queue[i].landed
            BY <1>4, <3>1, LandDom
        <3>3. queue[1].tab \in st'.segs
            BY <3>1 DEF Lands
        <3>4. CASE i = 1
            BY <3>2, <3>3, <3>4
        <3>5. CASE i # 1
            BY <2>2, <2>4, <3>2, <3>5
        <3> QED
            BY <3>4, <3>5
    <2>8. CASE queue # <<>> /\ queue' = Tail(queue) /\ (LandFails \/ FrontFailed \/ LandDurable)
        <3>1. i + 1 \in DOMAIN queue /\ queue'[i] = queue[i + 1] /\ i + 1 # 1
            BY <1>4, <2>8, TailDom, QueueDom
        <3>2. ~LandSwap
            BY <2>8 DEF LandSwap, LandFails, FrontFailed, LandDurable, Turn
        <3> QED
            BY <2>2, <2>4, <3>1, <3>2
    <2>9. ASSUME Works, NEW k \in DOMAIN queue, NEW s, Retells(k, s)
          PROVE  IF queue'[i].landed THEN i = 1 /\ queue'[i].tab \in st'.segs
                 ELSE PlacedNext(queue'[i].tab)
        <3>1. /\ i \in DOMAIN queue /\ queue'[i].tab = queue[i].tab
              /\ queue'[i].landed = queue[i].landed
            BY <1>4, <2>9, RetellDom
        <3>2. UNCHANGED <<st, handed>>
            BY <2>9 DEF Works, SealNames, SealSyncs, SealThreadFails, shared, writer
        <3>3. ~queue[i].landed => PlacedNext(queue[i].tab)
            BY <2>3, <3>1, <3>2 DEF PlacedNext, Placed, Frozen
        <3> QED
            BY <2>2, <3>1, <3>3
    <2> QED
        BY <2>5, <2>6, <2>7, <2>8, <2>9, QueueMoves
<1> QED
    BY <1>2, <1>3, <1>4, CountStep DEF JobsInv, PlacedNext, Frozen

\* A segment that holds its table's writes goes on to: nothing is written into a
\* table that is not the writer's.
LEMMA SegKept ==
    ASSUME HandInv, Next, NEW t \in Table, seg[t] = cont[t], handed = None => t # st.mem
    PROVE  seg'[t] = cont'[t]
<1>1. /\ cont \in [Table -> SUBSET Op] /\ seg \in [Table -> SUBSET Op] /\ st.mem \in Table
      /\ \A i \in DOMAIN queue : queue[i].tab \in Table
    BY Typed, QueueDom DEF Job
<1>2. cont'[t] = cont[t]
    BY <1>1, PutStages DEF Staged, HandInv
<1>3. seg'[t] = seg[t] \/ seg'[t] = cont[t]
    BY <1>1, SegFrame DEF SealNames
<1> QED
    BY <1>2, <1>3

\* The table of a seal is not one the writer may write.
LEMMA SealedStill ==
    ASSUME HandInv, NEW i \in DOMAIN queue
    PROVE  queue[i].tab \in Table /\ (handed = None => queue[i].tab # st.mem)
<1>1. queue[i].tab \in Table /\ None \notin Table /\ st.mem \in Table
    BY Typed, QueueDom DEF Job
<1>2. CASE queue[i].landed
    BY <1>1, <1>2 DEF HandInv, JobsInv, TabsInv
<1>3. CASE ~queue[i].landed
    BY <1>1, <1>3 DEF HandInv, JobsInv, TabsInv, Frozen
<1> QED
    BY <1>1, <1>2, <1>3

LEMMA SegStep ==
    ASSUME HandInv, Next PROVE SegInv'
<1>1. SegInv /\ st.segs \subseteq Table /\ st.mem \notin st.segs
    BY Typed DEF HandInv, TabsInv
<1>2. ASSUME NEW t \in st'.segs PROVE seg'[t] = cont'[t]
    <2>1. CASE t \in st.segs
        BY <1>1, <2>1, SegKept DEF SegInv
    <2>2. CASE t \notin st.segs
        <3>1. LandSwap /\ ~UNCHANGED <<st, nextTab, parts, queue, mpc>>
            BY <1>2, <2>2, StFrame, FreezeMoves DEF Freezing, HandInv
        <3>2. /\ Lands(queue[1].tab) /\ mpc = "swap" /\ queue # <<>>
            BY <3>1, LandMoves
        <3>3. t = queue[1].tab
            BY <1>2, <2>2, <3>2 DEF Lands
        <3>4. seg[t] = cont[t] /\ 1 \in DOMAIN queue
            BY <1>1, <3>2, <3>3, QueueDom DEF SegInv
        <3> QED
            BY <3>3, <3>4, SealedStill, SegKept
    <2> QED
        BY <2>1, <2>2
<1>a. ASSUME NEW j \in DOMAIN queue, queue[j].st \in {"named", "synced"}
      PROVE  seg'[queue[j].tab] = cont'[queue[j].tab]
    BY <1>1, <1>a, SealedStill, SegKept DEF SegInv
<1>3. ASSUME NEW i \in DOMAIN queue', queue'[i].st \in {"named", "synced"}
      PROVE  seg'[queue'[i].tab] = cont'[queue'[i].tab]
    <2>1. CASE UNCHANGED queue
        BY <1>3, <1>a, <2>1
    <2>2. ASSUME NEW f, Hands(f), Sealed \in Table
          PROVE  seg'[queue'[i].tab] = cont'[queue'[i].tab]
        <3>0. /\ DOMAIN queue' = 1..(Len(queue) + 1) /\ \A k \in DOMAIN queue : queue'[k] = queue[k]
              /\ queue'[Len(queue) + 1] = [tab |-> Sealed, st |-> "writing", landed |-> FALSE,
                                           first |-> f]
            BY <2>2, HandDom, Zenon
        <3>1. i \in DOMAIN queue \/ i = Len(queue) + 1
            BY ONLY <1>3, <3>0, HandInv, QueueDom
        <3>2. i # Len(queue) + 1
            BY <1>3, <3>0
        <3> QED
            BY <1>3, <1>a, <3>0, <3>1, <3>2
    <2>3. CASE queue # <<>> /\ queue' = [queue EXCEPT ![1].landed = TRUE]
        BY <1>3, <1>a, <2>3, LandDom
    <2>4. CASE queue # <<>> /\ queue' = Tail(queue)
        <3>1. i + 1 \in DOMAIN queue /\ queue'[i] = queue[i + 1]
            BY <1>3, <2>4, TailDom
        <3> QED
            BY <1>3, <1>a, <3>1
    <2>5. ASSUME Works PROVE seg'[queue'[i].tab] = cont'[queue'[i].tab]
        <3>1. PICK k \in DOMAIN queue : SealNames(k) \/ SealSyncs(k) \/ SealThreadFails(k)
            BY <2>5 DEF Works
        <3>2. PICK s : Retells(k, s)
            BY <3>1 DEF SealNames, SealSyncs, SealThreadFails, Retells
        <3>3. /\ i \in DOMAIN queue /\ queue'[i].tab = queue[i].tab
              /\ queue'[i].st = IF i = k THEN s ELSE queue[i].st
            BY <1>3, <3>2, RetellDom
        <3>4. CASE i # k \/ SealSyncs(k)
            <4>1. queue[i].st \in {"named", "synced"}
                BY <1>3, <3>3, <3>4 DEF SealSyncs
            <4> QED
                BY <1>a, <3>3, <4>1
        <3>5. CASE i = k /\ SealNames(k)
            <4>1. /\ seg' = [seg EXCEPT ![queue[k].tab] = cont[queue[k].tab]]
                  /\ cont' = cont /\ queue[k].tab \in Table /\ seg \in [Table -> SUBSET Op]
                BY <3>5, Typed, SealedStill DEF SealNames
            <4> QED
                BY <3>3, <3>5, <4>1
        <3>6. CASE i = k /\ SealThreadFails(k)
            <4>1. Retells(k, "failed")
                BY <3>6 DEF SealThreadFails, Retells
            <4>2. queue'[k].st = "failed"
                BY <4>1, RetellDom
            <4> QED
                BY <1>3, <3>6, <4>2
        <3> QED
            BY <3>1, <3>4, <3>5, <3>6
    <2> QED
        BY <2>1, <2>2, <2>3, <2>4, <2>5, QueueMoves
<1>4. ASSUME mpc' = "swap" PROVE seg'[queue'[1].tab] = cont'[queue'[1].tab]
    <2>1. CASE LandReadable
        <3>1. queue # <<>> /\ queue' = queue /\ Head(queue).st \in {"named", "synced"}
            BY <2>1 DEF LandReadable, Turn, Front
        <3>2. 1 \in DOMAIN queue /\ Head(queue) = queue[1]
            BY <3>1, Typed
        <3> QED
            BY <1>a, <3>1, <3>2
    <2>2. CASE mpc = "swap"
        <3>1. queue # <<>> /\ 1 \in DOMAIN queue /\ seg[queue[1].tab] = cont[queue[1].tab]
            BY <1>1, <2>2, QueueDom DEF HandInv, JobsInv, SegInv
        <3>2. queue'[1].tab = queue[1].tab
            <4>1. ~(LandFails \/ FrontFailed \/ LandDurable)
                BY <2>2 DEF LandFails, FrontFailed, LandDurable, Turn
            <4>2. ASSUME NEW f, Hands(f) PROVE queue'[1] = queue[1]
                BY <3>1, <4>2, HandDom
            <4>3. ASSUME NEW k \in DOMAIN queue, NEW s, Retells(k, s)
                  PROVE  queue'[1].tab = queue[1].tab
                BY <3>1, <4>3, RetellDom
            <4>4. CASE queue # <<>> /\ queue' = [queue EXCEPT ![1].landed = TRUE]
                BY <3>1, <4>4, LandDom
            <4> QED
                BY <4>1, <4>2, <4>3, <4>4, QueueMoves
        <3> QED
            BY <3>1, <3>2, SealedStill, SegKept
    <2>3. LandReadable \/ mpc = "swap"
        BY <1>4, CountFrame DEF Maint, LandSwap, LandFails, FrontFailed, LandDurable, CountsOut,
           CountOut, SetWedged, PutErr, DrainTaken, DrainAnswer, HandInv, TypeOK
    <2> QED
        BY <2>1, <2>2, <2>3
<1> QED
    BY <1>2, <1>3, <1>4 DEF SegInv

-----------------------------------------------------------------------------
(* The order of the seals.                                                   *)

\* A queue that stops does not start again.
LEMMA GoingBack == ASSUME HandInv, Next, Going' PROVE Going
<1>1. wedged' => ~Going'
    BY DEF Going
<1>2. wedged => wedged'
    BY CountFrame DEF SetWedged
<1>3. CASE mpc = "wedge"
    <2>1. mpc' = "wedge" \/ SetWedged
        BY <1>3, CountFrame DEF Maint, LandReadable, LandSwap, LandFails, FrontFailed, LandDurable,
           Turn, CountOut, PutErr, DrainTaken, DrainAnswer
    <2> QED
        BY <2>1, <1>1 DEF Going, SetWedged
<1>4. CASE mpc = "out" /\ outcome = "wedge"
    <2>1. outcome' = outcome
        BY <1>4, CountFrame DEF LandFails, FrontFailed, LandDurable, Turn
    <2>2. mpc' = "out" \/ mpc' = "wedge"
        BY <1>4, CountFrame DEF Maint, LandReadable, LandSwap, LandFails, FrontFailed, LandDurable,
           Turn, CountOut, SetWedged, PutErr, DrainTaken, DrainAnswer
    <2> QED
        BY <1>4, <2>1, <2>2 DEF Going
<1> QED
    BY <1>1, <1>2, <1>3, <1>4 DEF Going

LEMMA UnsealedFrame ==
    ASSUME WriterInv, Next PROVE Unsealed' = Unsealed \/ HandSeal \/ FreezeSwap
<1>1. CASE Put \/ PutGoes \/ Commit
    BY <1>1 DEF Unsealed, Put, PutGoes, Commit, Boundary, Waits, Return, wait
<1>2. CASE Sync
    BY <1>2 DEF Unsealed, Sync, Boundary, Return
<1>3. CASE \E c \in {"seal", "flush"} : Seal(c)
    BY <1>3 DEF Unsealed, Seal, Boundary, Waits, Return
<1>4. CASE SealCommits \/ ReadCount \/ AskErr \/ AskWedged \/ LastErr
    BY <1>4 DEF Unsealed, SealCommits, ReadCount, AskErr, AskWedged, LastErr, Waits, Return,
       GivesUp
<1>5. CASE ReadState
    BY <1>5 DEF Unsealed, ReadState, Fresh
<1>6. CASE Freeze \/ FirstCount \/ Answered
    BY <1>6 DEF Unsealed, Freeze, FirstCount, Answered, Return
<1>7. CASE Maint
    BY <1>7 DEF Unsealed, Maint, LandReadable, LandSwap, LandFails, FrontFailed, LandDurable,
       CountsOut, CountOut, SetWedged, PutErr, DrainTaken, DrainAnswer, writer
<1>8. CASE MergeFails \/ Promote
    BY <1>8 DEF Unsealed, MergeFails, Promote, writer
<1>9. CASE \E t \in Table : Thread(t)
    BY <1>9 DEF Unsealed, Thread, SealNames, SealSyncs, SealThreadFails, writer
<1> QED
    BY <1>1, <1>2, <1>3, <1>4, <1>5, <1>6, <1>7, <1>8, <1>9 DEF Next, Caller, Writer

\* ChainInv, place by place.
Order(q, l, f, m) ==
    \A i \in 1..(Len(q) - l) : q[i + l].tab = IF i <= Len(f) THEN f[i] ELSE m

LEMMA ChainStep ==
    ASSUME HandInv, Next PROVE ChainInv'
<1> SUFFICES ASSUME Going'
             PROVE  /\ Len(queue') + Unsealed' = Landed' + Len(st'.frozen) + Handed'
                    /\ Order(queue', Landed', st'.frozen, st'.mem)
    BY DEF ChainInv, Order
<1>1. Going
    BY GoingBack
<1>2. /\ Len(queue) + Unsealed = Landed + Len(st.frozen) + Handed
      /\ Order(queue, Landed, st.frozen, st.mem)
    BY <1>1, Zenon DEF HandInv, ChainInv, Order
<1>e. Len(queue) + Unsealed = Landed + Len(st.frozen) + Handed
    BY <1>2
<1>d. DOMAIN queue = 1..Len(queue)
    BY QueueDom
<1>3. /\ Len(queue) \in Nat /\ Len(st.frozen) \in Nat
      /\ Unsealed \in {0, 1} /\ Handed \in {0, 1} /\ Landed \in {0, 1}
    BY Typed, QueueDom DEF Unsealed, Handed, Landed
<1>4. /\ st.mem \in Table /\ st.frozen \in Seq(Table) /\ queue \in Seq(Job)
      /\ handed \in Table \cup {None} /\ None \notin Table
    BY Typed
<1>5. CASE UNCHANGED <<queue, st>> /\ ~HandSeal /\ ~FreezeSwap
    <2>1. Unsealed' = Unsealed
        BY <1>5, UnsealedFrame DEF HandInv
    <2>2. Landed' = Landed
        BY <1>5 DEF Landed
    <2>3. Handed' = Handed
        <3>1. handed' = handed \/ (handed # st.mem /\ handed' = None)
            BY <1>5, HandedFrame
        <3> QED
            BY <1>4, <1>5, <3>1 DEF Handed
    <2> QED
        BY <1>2, <1>5, <2>1, <2>2, <2>3
<1>6. CASE HandSeal
    <2>1. PICK f : Hands(f)
        BY <1>6 DEF HandSeal, Hands
    <2>2. /\ Len(queue') = Len(queue) + 1 /\ \A i \in DOMAIN queue : queue'[i] = queue[i]
          /\ queue'[Len(queue) + 1].tab = Sealed /\ ~queue'[Len(queue) + 1].landed
        <3>1. /\ Len(queue') = Len(queue) + 1 /\ \A i \in DOMAIN queue : queue'[i] = queue[i]
              /\ queue'[Len(queue) + 1] = [tab |-> Sealed, st |-> "writing", landed |-> FALSE,
                                           first |-> f]
            BY <2>1, HandDom, Zenon
        <3> QED
            BY <3>1
    <2>3. /\ st' = st /\ handed = None /\ wpc = "hand" /\ wpc' \in {"idle", "drain"}
          /\ handed' = IF call = "sync" THEN Sealed ELSE handed
        BY <1>6 DEF HandSeal, HandInv, WriterInv, Return
    <2>4. Unsealed' = 0 /\ Handed = 0
        BY <1>4, <2>3 DEF Unsealed, Handed
    <2>5. Landed' = Landed
        <3>1. CASE queue = <<>>
            <4>1. Len(queue) = 0 /\ ~queue'[1].landed
                BY <2>2, <3>1
            <4> QED
                BY <3>1, <4>1 DEF Landed
        <3>2. CASE queue # <<>>
            <4>1. queue'[1] = queue[1] /\ Len(queue') # 0 /\ queue' \in Seq(Job)
                BY <1>3, <1>d, <1>4, <2>2, <3>2, QueueTyped
            <4>2. queue' # <<>>
                BY <4>1
            <4> QED
                BY <3>2, <4>1, <4>2 DEF Landed
        <3> QED
            BY <3>1, <3>2
    <2>6. CASE call = "sync"
        <3>1. Unsealed = 0 /\ Handed' = 1 /\ Sealed = st.mem
            BY <2>3, <2>6 DEF Unsealed, Handed, Sealed
        <3>a. /\ Len(queue') = Len(queue) + 1 /\ Len(st'.frozen) = Len(st.frozen)
              /\ Unsealed = 0 /\ Handed' = 1
            BY <2>2, <2>3, <3>1
        <3>2. Len(queue') + Unsealed' = Landed' + Len(st'.frozen) + Handed'
            BY ONLY <1>e, <1>3, <2>4, <2>5, <3>a
        <3>3. ASSUME NEW i \in 1..(Len(queue') - Landed')
              PROVE  queue'[i + Landed'].tab = IF i <= Len(st'.frozen) THEN st'.frozen[i] ELSE st'.mem
            <4>1. i + Landed \in 1..(Len(queue) + 1) /\ i \in Nat /\ i >= 1
                BY ONLY <1>3, <2>2, <2>5, <3>3
            <4>2. CASE i + Landed = Len(queue) + 1
                <5>1. i > Len(st.frozen)
                    BY ONLY <1>e, <1>3, <2>4, <3>a, <4>1, <4>2
                <5> QED
                    BY <1>3, <1>d, <2>2, <2>3, <2>5, <3>1, <4>1, <4>2, <5>1
            <4>3. CASE i + Landed # Len(queue) + 1
                <5>1. i + Landed \in DOMAIN queue /\ i \in 1..(Len(queue) - Landed)
                    BY ONLY <1>3, <1>d, <4>1, <4>3
                <5> QED
                    BY <1>2, <2>2, <2>3, <2>5, <5>1 DEF Order
            <4> QED
                BY <4>2, <4>3
        <3> QED
            BY <3>2, <3>3 DEF Order
    <2>7. CASE call # "sync"
        <3>1. Unsealed = 1 /\ Handed' = 0 /\ Sealed = st.frozen[Len(st.frozen)]
            BY <1>4, <2>3, <2>7 DEF Unsealed, Handed, Sealed
        <3>2. Len(queue') + Unsealed' = Landed' + Len(st'.frozen) + Handed'
            BY ONLY <1>e, <1>3, <2>2, <2>3, <2>4, <2>5, <3>1
        <3>3. ASSUME NEW i \in 1..(Len(queue') - Landed')
              PROVE  queue'[i + Landed'].tab = IF i <= Len(st'.frozen) THEN st'.frozen[i] ELSE st'.mem
            <4>1. i + Landed \in 1..(Len(queue) + 1) /\ i \in Nat /\ i >= 1
                BY ONLY <1>3, <2>2, <2>5, <3>3
            <4>2. CASE i + Landed = Len(queue) + 1
                <5>1. i = Len(st.frozen)
                    BY ONLY <1>e, <1>3, <2>4, <3>1, <4>1, <4>2
                <5> QED
                    BY <1>3, <1>d, <2>2, <2>3, <2>5, <3>1, <4>1, <4>2, <5>1
            <4>3. CASE i + Landed # Len(queue) + 1
                <5>1. i + Landed \in DOMAIN queue /\ i \in 1..(Len(queue) - Landed)
                    BY ONLY <1>3, <1>d, <4>1, <4>3
                <5> QED
                    BY <1>2, <2>2, <2>3, <2>5, <5>1 DEF Order
            <4> QED
                BY <4>2, <4>3
        <3> QED
            BY <3>2, <3>3 DEF Order
    <2> QED
        BY <2>6, <2>7
<1>7. CASE Freezing /\ FreezeSwap
    <2>1. st'.frozen = Append(st.frozen, st.mem) /\ st'.mem = nextTab /\ queue' = queue
        BY <1>7 DEF Freezing, FreezeSwap, maint
    <2>2. /\ Len(st'.frozen) = Len(st.frozen) + 1 /\ DOMAIN st.frozen = 1..Len(st.frozen)
          /\ \A i \in DOMAIN st.frozen : st'.frozen[i] = st.frozen[i]
          /\ st'.frozen[Len(st.frozen) + 1] = st.mem
        BY <1>4, <2>1, Appended
    <2>3. Landed' = Landed
        BY <2>1 DEF Landed
    <2>4. st = seen /\ wpc = "swap" /\ loop \in {"fresh", "land"}
        BY <1>7, TypedNat DEF FreezeSwap, Freezing, HandInv, TypeOK
    <2>5. Handed' = 0 /\ Unsealed = 0
        <3>1. handed' = None
            BY <1>7, <2>4 DEF FreezeSwap, Fresh, HandInv, WriterInv, InWait
        <3>2. st'.mem \in Table
            BY <1>7, <2>1 DEF Freezing
        <3> QED
            BY <1>4, <2>4, <3>1, <3>2 DEF Handed, Unsealed
    <2>6. Unsealed' = 1 - Handed
        <3>1. CASE loop = "fresh"
            <4>1. handed = st.mem /\ wpc' \in {"put", "commit"}
                BY <1>7, <2>4, <3>1 DEF Freezing, FreezeSwap, Fresh
            <4>2. Handed = 1 /\ Unsealed' = 0
                BY <4>1 DEF Handed, Unsealed
            <4> QED
                BY <4>2
        <3>2. CASE loop = "land"
            <4>1. handed = None /\ wpc' = "first" /\ call' = call /\ call \in {"seal", "flush"}
                BY <1>7, <2>4, <3>2 DEF FreezeSwap, HandInv, WriterInv, InWait
            <4>2. Handed = 0 /\ Unsealed' = 1
                BY <1>4, <4>1 DEF Handed, Unsealed
            <4> QED
                BY <4>2
        <3> QED
            BY <2>4, <3>1, <3>2
    <2>a. Len(queue') = Len(queue) /\ Len(st'.frozen) = Len(st.frozen) + 1
        BY <2>1, <2>2
    <2>7. Len(queue') + Unsealed' = Landed' + Len(st'.frozen) + Handed'
        BY ONLY <1>e, <1>3, <2>a, <2>3, <2>5, <2>6
    <2>8. ASSUME NEW i \in 1..(Len(queue') - Landed')
          PROVE  queue'[i + Landed'].tab = IF i <= Len(st'.frozen) THEN st'.frozen[i] ELSE st'.mem
        <3>1. i \in 1..(Len(queue) - Landed) /\ i \in Nat /\ i <= Len(st.frozen) + 1 /\ i >= 1
            BY ONLY <1>e, <1>3, <2>a, <2>3, <2>5, <2>8
        <3>2. queue[i + Landed].tab = IF i <= Len(st.frozen) THEN st.frozen[i] ELSE st.mem
            BY <1>2, <3>1 DEF Order
        <3>3. CASE i <= Len(st.frozen)
            BY <1>3, <1>d, <2>1, <2>2, <2>3, <3>1, <3>2, <3>3
        <3>4. CASE i = Len(st.frozen) + 1
            BY <1>3, <1>d, <2>1, <2>2, <2>3, <3>1, <3>2, <3>4
        <3> QED
            BY <1>3, <1>d, <3>1, <3>3, <3>4
    <2> QED
        BY <2>7, <2>8 DEF Order
<1>8. CASE LandSwap /\ ~UNCHANGED <<st, nextTab, parts, queue, mpc>>
    <2>1. /\ Lands(queue[1].tab) /\ queue # <<>> /\ ~queue[1].landed
          /\ queue' = [queue EXCEPT ![1].landed = TRUE]
        BY <1>8, LandMoves
    <2>2. /\ Len(queue') = Len(queue) /\ queue' # <<>> /\ queue'[1].landed
          /\ \A i \in DOMAIN queue : queue'[i].tab = queue[i].tab
        BY <2>1, LandDom, QueueDom
    <2>3. Landed' = 1 /\ Landed = 0
        BY <2>1, <2>2 DEF Landed
    <2>4. UNCHANGED <<handed, wpc, call>> /\ Unsealed' = Unsealed
        BY <1>8 DEF LandSwap, writer, Unsealed
    <2>5. CASE queue[1].tab = st.mem
        <3>1. st.frozen = <<>> /\ st'.frozen = <<>> /\ handed = st.mem /\ st'.mem = nextTab
            BY <2>1, <2>5 DEF Lands, HandInv, TabsInv
        <3>2. Handed = 1 /\ Handed' = 0 /\ Len(st.frozen) = 0 /\ Len(st'.frozen) = 0
            <4>1. handed # nextTab
                BY <3>1, TypedNat DEF HandInv, TabsInv
            <4> QED
                BY <2>4, <3>1, <4>1 DEF Handed
        <3>3. Len(queue') + Unsealed' = Landed' + Len(st'.frozen) + Handed'
            BY ONLY <1>e, <1>3, <2>2, <2>3, <2>4, <3>2
        <3>4. Len(queue') - Landed' <= 0 /\ Len(queue') - Landed' \in Int
            BY ONLY <1>e, <1>3, <2>2, <2>3, <2>4, <3>2
        <3> QED
            BY <3>3, <3>4 DEF Order
    <2>6. CASE queue[1].tab # st.mem
        <3>1. st.frozen # <<>> /\ st'.frozen = Tail(st.frozen) /\ st'.mem = st.mem
            <4>1. st.frozen # <<>> /\ st' = [mem |-> st.mem, frozen |-> Tail(st.frozen),
                                             segs |-> st.segs \cup {queue[1].tab}]
                BY <2>1, <2>6, Zenon DEF Lands
            <4> QED
                BY <4>1
        <3>2. /\ Len(st'.frozen) = Len(st.frozen) - 1 /\ DOMAIN st'.frozen = 1..(Len(st.frozen) - 1)
              /\ \A i \in DOMAIN st'.frozen : st'.frozen[i] = st.frozen[i + 1]
            BY <1>4, <3>1, Dropped
        <3>3. Handed' = Handed
            BY <2>4, <3>1 DEF Handed
        <3>4. Len(queue') + Unsealed' = Landed' + Len(st'.frozen) + Handed'
            BY ONLY <1>e, <1>3, <2>2, <2>3, <2>4, <3>2, <3>3
        <3>5. ASSUME NEW i \in 1..(Len(queue') - Landed')
              PROVE  queue'[i + Landed'].tab = IF i <= Len(st'.frozen) THEN st'.frozen[i] ELSE st'.mem
            <4>1. i + 1 \in 1..(Len(queue) - Landed) /\ i \in Nat /\ i >= 1 /\ i + 1 \in DOMAIN queue
                BY ONLY <1>3, <1>d, <2>2, <2>3, <3>5
            <4>2. queue[(i + 1) + Landed].tab = IF i + 1 <= Len(st.frozen) THEN st.frozen[i + 1] ELSE st.mem
                BY <1>2, <4>1 DEF Order
            <4>3. queue'[i + Landed'].tab = queue[(i + 1) + Landed].tab
                BY <2>2, <2>3, <4>1
            <4>4. CASE i + 1 <= Len(st.frozen)
                <5>1. i \in DOMAIN st'.frozen /\ i <= Len(st'.frozen)
                    BY ONLY <1>3, <3>2, <4>1, <4>4
                <5> QED
                    BY <3>2, <4>2, <4>3, <4>4, <5>1
            <4>5. CASE ~(i + 1 <= Len(st.frozen))
                <5>1. ~(i <= Len(st'.frozen))
                    BY ONLY <1>3, <3>2, <4>1, <4>5
                <5> QED
                    BY <3>1, <4>2, <4>3, <4>5, <5>1
            <4> QED
                BY <4>4, <4>5
        <3> QED
            BY <3>4, <3>5 DEF Order
    <2> QED
        BY <2>5, <2>6
<1>9. CASE queue # <<>> /\ queue' = Tail(queue) /\ (LandFails \/ FrontFailed \/ LandDurable)
    <2>1. Len(queue) >= 1 /\ Head(queue) = queue[1] /\ 1 \in DOMAIN queue
        BY <1>4, <1>9
    <2>2. /\ UNCHANGED <<st, handed, wpc, call>> /\ mpc' = "out"
          /\ outcome' = "wedge" \/ queue[1].landed
        BY <1>9, <2>1 DEF LandFails, FrontFailed, LandDurable, CountsOut, Front, shared, writer
    <2>3. queue[1].landed
        BY <2>2 DEF Going
    <2>4. Landed = 1 /\ Unsealed' = Unsealed /\ Handed' = Handed
        BY <1>9, <2>2, <2>3 DEF Landed, Unsealed, Handed
    <2>5. /\ Len(queue') = Len(queue) - 1 /\ DOMAIN queue' = 1..(Len(queue) - 1)
          /\ \A i \in DOMAIN queue' : i + 1 \in DOMAIN queue /\ queue'[i] = queue[i + 1]
        BY <1>9, TailDom
    <2>6. Landed' = 0
        <3> SUFFICES ASSUME queue' # <<>>, queue'[1].landed PROVE FALSE
            BY DEF Landed
        <3>1. queue' \in Seq(Job)
            BY QueueTyped
        <3>2. 1 \in DOMAIN queue' /\ queue'[1] = queue[1 + 1] /\ 1 + 1 \in DOMAIN queue
            BY <2>5, <3>1
        <3>3. queue[2].landed /\ 2 \in DOMAIN queue
            BY <3>2
        <3> QED
            BY <3>3 DEF HandInv, JobsInv
    <2>7. Len(queue') + Unsealed' = Landed' + Len(st'.frozen) + Handed'
        BY ONLY <1>e, <1>3, <2>2, <2>4, <2>5, <2>6
    <2>8. ASSUME NEW i \in 1..(Len(queue') - Landed')
          PROVE  queue'[i + Landed'].tab = IF i <= Len(st'.frozen) THEN st'.frozen[i] ELSE st'.mem
        <3>1. i \in 1..(Len(queue) - Landed) /\ i \in DOMAIN queue' /\ i + Landed' = i
              /\ i + Landed = i + 1
            BY ONLY <1>3, <1>d, <2>4, <2>5, <2>6, <2>8
        <3>2. queue[i + Landed].tab = IF i <= Len(st.frozen) THEN st.frozen[i] ELSE st.mem
            BY <1>2, <3>1 DEF Order
        <3> QED
            BY <2>2, <2>5, <3>1, <3>2
    <2> QED
        BY <2>7, <2>8 DEF Order
<1>10. ASSUME Works, NEW k \in DOMAIN queue, NEW s, Retells(k, s)
       PROVE  /\ Len(queue') + Unsealed' = Landed' + Len(st'.frozen) + Handed'
              /\ Order(queue', Landed', st'.frozen, st'.mem)
    <2>1. UNCHANGED <<st, handed, wpc, call>>
        BY <1>10 DEF Works, SealNames, SealSyncs, SealThreadFails, shared, writer
    <2>2. Unsealed' = Unsealed /\ Handed' = Handed
        BY <2>1 DEF Unsealed, Handed
    <2>3. /\ Len(queue') = Len(queue) /\ DOMAIN queue' = DOMAIN queue
          /\ \A i \in DOMAIN queue : queue'[i].tab = queue[i].tab /\ queue'[i].landed = queue[i].landed
        BY <1>10, RetellDom
    <2>4. Landed' = Landed
        <3>1. queue # <<>> /\ 1 \in DOMAIN queue /\ queue' # <<>>
            BY <1>3, <1>d, <1>4, <2>3
        <3> QED
            BY <2>3, <3>1 DEF Landed
    <2>5. ASSUME NEW i \in 1..(Len(queue') - Landed')
          PROVE  queue'[i + Landed'].tab = IF i <= Len(st'.frozen) THEN st'.frozen[i] ELSE st'.mem
        <3>1. i \in 1..(Len(queue) - Landed) /\ i + Landed \in DOMAIN queue
            BY ONLY <1>3, <1>d, <2>3, <2>4, <2>5
        <3>2. queue[i + Landed].tab = IF i <= Len(st.frozen) THEN st.frozen[i] ELSE st.mem
            BY <1>2, <3>1 DEF Order
        <3> QED
            BY <2>1, <2>3, <2>4, <3>1, <3>2
    <2> QED
        BY <1>2, <2>1, <2>2, <2>3, <2>4, <2>5 DEF Order
<1>11. CASE FreezeSwap
    <2>1. CASE UNCHANGED <<st, nextTab>>
        <3>1. st # seen /\ wpc' = "freeze" /\ wpc = "swap" /\ UNCHANGED <<handed, queue>>
            BY <1>11, <2>1, TypedNat DEF FreezeSwap, maint
        <3>2. Unsealed' = Unsealed /\ Handed' = Handed /\ Landed' = Landed
            BY <2>1, <3>1 DEF Unsealed, Handed, Landed
        <3> QED
            BY <1>2, <2>1, <3>1, <3>2
    <2> QED
        BY <1>7, <1>11, <2>1, FreezeMoves DEF HandInv
<1>12. CASE UNCHANGED queue /\ ~HandSeal /\ ~FreezeSwap
    <2>1. CASE LandSwap
        <3>1. UNCHANGED <<st, nextTab, parts, queue, mpc>> \/ ~UNCHANGED <<st, nextTab, parts, queue, mpc>>
            OBVIOUS
        <3>2. CASE UNCHANGED <<st, nextTab, parts, queue, mpc>>
            BY <1>5, <1>12, <3>2
        <3> QED
            BY <1>8, <2>1, <3>1, <3>2
    <2> QED
        BY <1>5, <1>12, <2>1, StFrame
<1> QED
    BY <1>6, <1>8, <1>9, <1>10, <1>11, <1>12, QueueMoves

-----------------------------------------------------------------------------
(* The first partition, and the alarm.                                       *)

LEMMA PartsFrame ==
    ASSUME Next PROVE UNCHANGED parts \/ LandSwap \/ (Promote /\ UNCHANGED <<st, queue>>)
<1>1. CASE Caller
    BY <1>1 DEF Caller, Put, Commit, Sync, Seal, data
<1>2. CASE Writer
    BY <1>2 DEF Writer, PutGoes, SealCommits, ReadCount, ReadState, AskErr, AskWedged,
       LastErr, Freeze, FreezeSwap, FirstCount, HandSeal, Answered, data
<1>3. CASE Maint
    BY <1>3 DEF Maint, LandReadable, LandFails, FrontFailed, LandDurable, CountsOut,
       CountOut, SetWedged, PutErr, DrainTaken, DrainAnswer, data
<1>4. CASE MergeFails \/ Promote
    BY <1>4 DEF MergeFails, Promote, data, shared, maint
<1>5. CASE \E t \in Table : Thread(t)
    BY <1>5 DEF Thread, SealNames, SealSyncs, SealThreadFails, data
<1> QED
    BY <1>1, <1>2, <1>3, <1>4, <1>5 DEF Next

\* Segments come only by landings.
LEMMA SegsFrame ==
    ASSUME HandInv, Next
    PROVE  \/ st'.segs = st.segs
           \/ LandSwap /\ ~UNCHANGED <<st, nextTab, parts, queue, mpc>>
BY StFrame, FreezeMoves DEF HandInv, Freezing

LEMMA FirstStep ==
    ASSUME HandInv, Next PROVE FirstInv'
<1>1. ASSUME NEW i \in DOMAIN queue, queue[i].first, ~queue[i].landed PROVE i = 1 /\ st.segs = {}
    BY <1>1 DEF HandInv, FirstInv
<1>2. CASE LandSwap /\ ~UNCHANGED <<st, nextTab, parts, queue, mpc>>
    <2>1. /\ Lands(queue[1].tab) /\ queue # <<>> /\ ~queue[1].landed
          /\ queue' = [queue EXCEPT ![1].landed = TRUE]
          /\ parts' = IF queue[1].first THEN parts + 1 ELSE parts
        BY <1>2, LandMoves
    <2>2. 1 \in DOMAIN queue /\ parts \in {0, 1} /\ (parts = 1 => st.segs # {})
        BY <2>1, QueueDom DEF HandInv, FirstInv
    <2>3. st'.segs # {}
        <3>1. \/ st' = [mem |-> nextTab, frozen |-> <<>>, segs |-> st.segs \cup {queue[1].tab}]
              \/ st' = [mem |-> st.mem, frozen |-> Tail(st.frozen),
                        segs |-> st.segs \cup {queue[1].tab}]
            BY <2>1, Zenon DEF Lands
        <3>2. st'.segs = st.segs \cup {queue[1].tab}
            BY ONLY <3>1
        <3> QED
            BY <3>2
    <2>4. parts' \in {0, 1}
        BY <1>1, <2>1, <2>2
    <2>5. \A i \in DOMAIN queue' : ~(queue'[i].first /\ ~queue'[i].landed)
        BY <1>1, <2>1, <2>2, LandDom
    <2> QED
        BY <2>3, <2>4, <2>5 DEF FirstInv
<1>3. CASE st'.segs = st.segs
    <2>1. parts' \in {0, 1} /\ (parts' = 1 => st'.segs # {})
        <3>1. parts \in {0, 1} /\ (parts = 1 => st.segs # {})
            BY DEF HandInv, FirstInv
        <3>2. CASE LandSwap
            <4>1. UNCHANGED <<st, nextTab, parts, queue, mpc>> \/ Lands(queue[1].tab)
                BY <3>2, LandMoves
            <4>2. CASE Lands(queue[1].tab)
                BY <1>2, <1>3, <3>1, <3>2, <4>2 DEF FirstInv
            <4> QED
                BY <3>1, <4>1, <4>2
        <3>3. CASE Promote
            BY <3>3 DEF Promote, shared
        <3> QED
            BY <1>3, <3>1, <3>2, <3>3, PartsFrame
    <2>2. ASSUME NEW i \in DOMAIN queue', queue'[i].first, ~queue'[i].landed
          PROVE  i = 1 /\ st'.segs = {}
        <3>1. CASE UNCHANGED queue
            BY <1>1, <1>3, <2>2, <3>1
        <3>2. ASSUME HandSeal, NEW fits \in BOOLEAN, Hands(SealsFirst /\ fits)
              PROVE  i = 1 /\ st'.segs = {}
            <4>1. /\ DOMAIN queue' = 1..(Len(queue) + 1)
                  /\ \A k \in DOMAIN queue : queue'[k] = queue[k]
                  /\ queue'[Len(queue) + 1] = [tab |-> Sealed, st |-> "writing", landed |-> FALSE,
                                               first |-> SealsFirst /\ fits]
                BY <3>2, HandDom, Zenon
            <4>2. i \in DOMAIN queue \/ i = Len(queue) + 1
                BY ONLY <2>2, <4>1, HandInv, QueueDom
            <4>3. CASE i \in DOMAIN queue
                BY <1>1, <1>3, <2>2, <4>1, <4>3
            <4>4. CASE i = Len(queue) + 1
                <5>0. queue'[i].first = (SealsFirst /\ fits)
                    <6>1. queue'[i] = [tab |-> Sealed, st |-> "writing", landed |-> FALSE,
                                       first |-> SealsFirst /\ fits]
                        BY <4>1, <4>4
                    <6> DEFINE p == SealsFirst /\ fits
                    <6>2. queue'[i] = [tab |-> Sealed, st |-> "writing", landed |-> FALSE,
                                       first |-> p]
                        BY ONLY <6>1, Zenon
                    <6> HIDE DEF p
                    <6>3. queue'[i].first = p
                        BY ONLY <6>2
                    <6> QED
                        BY <6>3 DEF p
                <5>1. SealsFirst
                    BY ONLY <2>2, <5>0, Zenon
                <5>2. seals = 0 /\ st.segs = {} /\ wpc = "hand"
                    BY <3>2, <5>1 DEF SealsFirst, HandSeal
                <5>3. queue = <<>>
                    BY <5>2 DEF HandInv, AlarmInv
                <5> QED
                    BY <1>3, <4>4, <5>2, <5>3
            <4> QED
                BY <4>2, <4>3, <4>4
        <3>3. CASE queue # <<>> /\ queue' = [queue EXCEPT ![1].landed = TRUE]
            <4>1. i \in DOMAIN queue /\ queue[i].first /\ ~queue[i].landed
                BY <2>2, <3>3, LandDom
            <4> QED
                BY <1>1, <1>3, <4>1
        <3>4. CASE queue # <<>> /\ queue' = Tail(queue)
            <4>1. i + 1 \in DOMAIN queue /\ queue'[i] = queue[i + 1] /\ i + 1 # 1
                BY <2>2, <3>4, TailDom, QueueDom
            <4> QED
                BY <1>1, <2>2, <4>1
        <3>5. ASSUME NEW k \in DOMAIN queue, NEW s, Retells(k, s)
              PROVE  i = 1 /\ st'.segs = {}
            <4>1. i \in DOMAIN queue /\ queue[i].first /\ ~queue[i].landed
                BY <2>2, <3>5, RetellDom
            <4> QED
                BY <1>1, <1>3, <4>1
        <3> QED
            BY <3>1, <3>2, <3>3, <3>4, <3>5, QueueMoves
    <2> QED
        BY <2>1, <2>2 DEF FirstInv
<1> QED
    BY <1>2, <1>3, SegsFrame

\* The writer's reads of the count.
Counting == {"look", "err", "wedge", "hand"}
LEMMA CountedFrame ==
    ASSUME Next, wpc' \in Counting
    PROVE  \/ seals' = inSeal /\ (ReadCount \/ FirstCount)
           \/ wpc \in Counting /\ seals' = seals /\ ~HandSeal
<1> USE DEF Counting
<1>1. CASE Put \/ PutGoes \/ Commit
    BY <1>1 DEF Put, PutGoes, Commit, Waits, Return, wait
<1>2. CASE Sync
    BY <1>2 DEF Sync, Return
<1>3. CASE \E c \in {"seal", "flush"} : Seal(c)
    BY <1>3 DEF Seal, Waits, Return
<1>4. CASE SealCommits
    BY <1>4 DEF SealCommits, Waits, Return
<1>5. CASE ReadCount \/ FirstCount
    BY <1>5 DEF ReadCount, FirstCount
<1>6. CASE ReadState
    BY <1>6 DEF ReadState, Fresh, HandSeal
<1>7. CASE AskErr \/ AskWedged \/ LastErr
    BY <1>7 DEF AskErr, AskWedged, LastErr, Return, GivesUp, wait, HandSeal
<1>8. CASE Freeze \/ FreezeSwap \/ Answered \/ HandSeal
    BY <1>8 DEF Freeze, FreezeSwap, Fresh, Answered, Return, HandSeal
<1>9. CASE Maint
    BY <1>9 DEF Maint, LandReadable, LandSwap, LandFails, FrontFailed, LandDurable,
       CountsOut, CountOut, SetWedged, PutErr, DrainTaken, DrainAnswer, writer, wait, HandSeal,
       Return
<1>10. CASE MergeFails \/ Promote
    BY <1>10 DEF MergeFails, Promote, writer, wait, HandSeal, Return
<1>11. CASE \E t \in Table : Thread(t)
    BY <1>11 DEF Thread, SealNames, SealSyncs, SealThreadFails, writer, wait, HandSeal, Return
<1> QED
    BY <1>1, <1>2, <1>3, <1>4, <1>5, <1>6, <1>7, <1>8, <1>9, <1>10, <1>11
       DEF Next, Caller, Writer

\* The wait goes on from its look only where the look gave it no way out.
LEMMA LookedFrame ==
    ASSUME Next, wpc' \in {"err", "wedge"}
    PROVE  \/ wpc \in {"err", "wedge"}
           \/ /\ wpc = "look" /\ UNCHANGED <<shared, queue, mpc, outcome>>
              /\ ~(loop = "fresh" /\ st.mem # handed) /\ ~(loop = "land" /\ Room(st))
<1>1. CASE Put \/ PutGoes \/ Commit
    BY <1>1 DEF Put, PutGoes, Commit, Waits, Return
<1>2. CASE Sync
    BY <1>2 DEF Sync, Return
<1>3. CASE \E c \in {"seal", "flush"} : Seal(c)
    BY <1>3 DEF Seal, Waits, Return
<1>4. CASE SealCommits \/ ReadCount \/ FirstCount
    BY <1>4 DEF SealCommits, ReadCount, FirstCount, Waits, Return
<1>5. CASE ReadState
    BY <1>5 DEF ReadState, Fresh, maint
<1>6. CASE AskErr \/ AskWedged \/ LastErr
    BY <1>6 DEF AskErr, AskWedged, LastErr, Return, GivesUp
<1>7. CASE Freeze \/ FreezeSwap \/ Answered \/ HandSeal
    BY <1>7 DEF Freeze, FreezeSwap, Fresh, Answered, Return, HandSeal
<1>8. CASE Maint
    BY <1>8 DEF Maint, LandReadable, LandSwap, LandFails, FrontFailed, LandDurable,
       CountsOut, CountOut, SetWedged, PutErr, DrainTaken, DrainAnswer, writer
<1>9. CASE MergeFails \/ Promote
    BY <1>9 DEF MergeFails, Promote, writer
<1>10. CASE \E t \in Table : Thread(t)
    BY <1>10 DEF Thread, SealNames, SealSyncs, SealThreadFails, writer
<1> QED
    BY <1>1, <1>2, <1>3, <1>4, <1>5, <1>6, <1>7, <1>8, <1>9, <1>10 DEF Next, Caller, Writer

LEMMA AlarmFrame ==
    ASSUME Next PROVE UNCHANGED alarm \/ AskWedged
<1>1. CASE Caller
    BY <1>1 DEF Caller, Put, Commit, Sync, Seal
<1>2. CASE Writer
    BY <1>2 DEF Writer, PutGoes, SealCommits, ReadCount, ReadState, AskErr,
       LastErr, Freeze, FreezeSwap, FirstCount, HandSeal, Answered, ghost
<1>3. CASE Maint
    BY <1>3 DEF Maint, LandReadable, LandSwap, LandFails, FrontFailed, LandDurable, CountsOut,
       CountOut, SetWedged, PutErr, DrainTaken, DrainAnswer, ghost
<1>4. CASE MergeFails \/ Promote
    BY <1>4 DEF MergeFails, Promote, ghost
<1>5. CASE \E t \in Table : Thread(t)
    BY <1>5 DEF Thread, SealNames, SealSyncs, SealThreadFails, ghost
<1> QED
    BY <1>1, <1>2, <1>3, <1>4, <1>5 DEF Next

LEMMA AlarmStep ==
    ASSUME HandInv, Next PROVE AlarmInv'
<1>1. ASSUME wpc' \in Counting, seals' = 0 PROVE queue' = <<>> /\ mpc' # "out"
    <2>1. CASE seals' = inSeal /\ (ReadCount \/ FirstCount)
        <3>1. inSeal = Len(queue) + (IF mpc = "out" THEN 1 ELSE 0) /\ Len(queue) \in Nat
            BY QueueDom DEF HandInv, JobsInv
        <3>2. Len(queue) = 0 /\ mpc # "out"
            BY <1>1, <2>1, <3>1
        <3>3. UNCHANGED <<queue, mpc>>
            BY <2>1 DEF ReadCount, FirstCount, maint
        <3>4. queue = <<>>
            BY <3>2, Typed
        <3> QED
            BY <3>2, <3>3, <3>4
    <2>2. CASE wpc \in Counting /\ seals' = seals /\ ~HandSeal
        <3>1. queue = <<>> /\ mpc # "out"
            BY <1>1, <2>2 DEF HandInv, AlarmInv, Counting
        <3>2. queue' = <<>>
            <4>1. DOMAIN queue = {}
                BY <3>1
            <4> QED
                BY <2>2, <3>1, <4>1, QueueMoves
        <3>3. mpc' # "out"
            BY <3>1, CountFrame DEF Maint, LandReadable, LandSwap, LandFails, FrontFailed,
               LandDurable, Turn, CountOut, SetWedged, PutErr, DrainTaken, DrainAnswer
        <3> QED
            BY <3>2, <3>3
    <2> QED
        BY <1>1, <2>1, <2>2, CountedFrame
<1>2. ASSUME wpc' \in {"err", "wedge"}, seals' = 0 PROVE ~Going'
    <2>0. seals = 0 /\ (wpc = "look" \/ wpc \in {"err", "wedge"})
        BY <1>2, CountedFrame, LookedFrame DEF Counting, ReadCount, FirstCount
    <2>1. CASE wpc \in {"err", "wedge"}
        BY <2>0, <2>1, GoingBack DEF HandInv, AlarmInv
    <2>2. CASE wpc \notin {"err", "wedge"}
        <3>1. /\ wpc = "look" /\ UNCHANGED <<shared, queue, mpc, outcome>>
              /\ ~(loop = "fresh" /\ st.mem # handed) /\ ~(loop = "land" /\ Room(st))
            BY <1>2, <2>2, LookedFrame
        <3>2. queue = <<>>
            BY <2>0, <3>1 DEF HandInv, AlarmInv
        <3> SUFFICES ASSUME Going' PROVE FALSE
            OBVIOUS
        <3>3. Going
            BY GoingBack
        <3>4. Len(queue) = 0 /\ Landed = 0 /\ Unsealed = 0 /\ Handed \in {0, 1}
            BY <3>1, <3>2 DEF Landed, Unsealed, Handed
        <3>5. Len(queue) + Unsealed = Landed + Len(st.frozen) + Handed
            BY <3>3, Zenon DEF HandInv, ChainInv
        <3>6. Len(st.frozen) \in Nat
            BY Typed
        <3>7. Len(st.frozen) = 0 /\ Handed = 0
            BY ONLY <3>4, <3>5, <3>6
        <3>8. handed # st.mem
            BY <3>7 DEF Handed
        <3>9. Room(st)
            BY <3>7, HandoffAssumption DEF Room
        <3>10. loop \in {"fresh", "land"}
            BY DEF HandInv, TypeOK
        <3> QED
            BY <3>1, <3>8, <3>9, <3>10
    <2> QED
        BY <2>1, <2>2
<1>3. NoFalseAlarm'
    <2>1. CASE wedged \/ mpc = "wedge"
        <3>1. wedged' \/ mpc' = "wedge"
            BY <2>1, CountFrame DEF Maint, LandReadable, LandSwap, LandFails, FrontFailed,
               LandDurable, Turn, CountOut, SetWedged, PutErr, DrainTaken, DrainAnswer
        <3> QED
            BY <3>1 DEF NoFalseAlarm
    <2>2. CASE ~(wedged \/ mpc = "wedge")
        <3>1. ~alarm
            BY <2>2 DEF HandInv, AlarmInv, NoFalseAlarm
        <3>2. CASE AskWedged
            <4>1. wpc = "wedge" /\ (seals = 0 => ~Going /\ mpc # "out")
                BY <3>2 DEF AskWedged, HandInv, AlarmInv
            <4>2. seals # 0
                BY <2>2, <4>1 DEF Going
            <4>3. alarm' = alarm
                BY <2>2, <3>2, <4>2 DEF AskWedged
            <4> QED
                BY <3>1, <4>3 DEF NoFalseAlarm
        <3> QED
            BY <3>1, <3>2, AlarmFrame DEF NoFalseAlarm
    <2> QED
        BY <2>1, <2>2
<1> QED
    BY <1>1, <1>2, <1>3 DEF AlarmInv, Counting

-----------------------------------------------------------------------------
(* The writer.                                                               *)

\* The segment work and the threads leave the writer's state alone.
LEMMA OthersFrame ==
    ASSUME Next
    PROVE  Caller \/ Writer \/ UNCHANGED <<handed, pend, wpc, call, loop, seals, seen, b, n,
                                           cont, comm, done>>
<1>1. CASE Maint
    BY <1>1 DEF Maint, LandReadable, LandSwap, LandFails, FrontFailed, LandDurable, CountsOut,
       CountOut, SetWedged, PutErr, DrainTaken, DrainAnswer, data, writer, wait, ghost
<1>2. CASE MergeFails \/ Promote
    BY <1>2 DEF MergeFails, Promote, data, writer, wait, ghost
<1>3. CASE \E t \in Table : Thread(t)
    BY <1>3 DEF Thread, SealNames, SealSyncs, SealThreadFails, data, writer, wait, ghost
<1> QED
    BY <1>1, <1>2, <1>3 DEF Next

\* A write is made or dropped beside a handed table only with an error left.
LEMMA PendFrame ==
    ASSUME WriterInv, Next
    PROVE  UNCHANGED <<n, pend>> \/ n' = 0 \/ pend' \/ (handed = None /\ UNCHANGED handed)
           \/ handed' = None
<1>1. CASE Put
    BY <1>1 DEF Put
<1>2. CASE Commit
    BY <1>2 DEF Commit, Boundary, Return
<1>3. CASE Sync
    BY <1>3 DEF Sync, Boundary, Return
<1>4. CASE \E c \in {"seal", "flush"} : Seal(c)
    BY <1>4 DEF Seal, Boundary, Return
<1>5. CASE PutGoes
    BY <1>5 DEF PutGoes, WriterInv
<1>6. CASE SealCommits \/ ReadCount \/ ReadState \/ Freeze \/ FreezeSwap \/ FirstCount
    BY <1>6 DEF SealCommits, Return, ReadCount, ReadState, Freeze, FreezeSwap, FirstCount, ghost
<1>7. CASE AskErr
    BY <1>7 DEF AskErr, GivesUp, Return
<1>8. CASE AskWedged
    BY <1>8 DEF AskWedged, GivesUp, Return
<1>9. CASE LastErr
    BY <1>9 DEF LastErr, Return
<1>10. CASE HandSeal
    BY <1>10 DEF HandSeal, Return
<1>11. CASE Answered
    BY <1>11 DEF Answered, Return
<1> QED
    BY <1>1, <1>2, <1>3, <1>4, <1>5, <1>6, <1>7, <1>8, <1>9, <1>10, <1>11, OthersFrame
       DEF Caller, Writer

\* A table handed is live or a segment's, and no write is made to it.
LEMMA HandedStep ==
    ASSUME HandInv, Next
    PROVE  /\ handed' # None => /\ handed' < nextTab' /\ (handed' = st'.mem \/ handed' \in st'.segs)
                                /\ n' > 0 => pend'
           /\ handed' = st'.mem => cont'[st'.mem] # {}
<1>1. /\ st.mem \in Table /\ nextTab \in Nat /\ handed \in Table \cup {None} /\ None \notin Table
      /\ nextTab' \in Nat /\ nextTab' >= nextTab /\ Table \subseteq Nat /\ st'.mem \in Table
      /\ n \in 0..2 /\ n' \in 0..2
    BY Typed, TypedNat, NextGrows, StTyped, BatchTyped DEF State
<1>2. /\ st.mem < nextTab
      /\ handed # None => /\ handed < nextTab /\ (handed = st.mem \/ handed \in st.segs)
                          /\ n > 0 => pend
      /\ handed = st.mem => cont[st.mem] # {}
    BY DEF HandInv, TabsInv, WriterInv
<1>3. ASSUME handed' # None
      PROVE  /\ handed' < nextTab' /\ (handed' = st'.mem \/ handed' \in st'.segs)
             /\ cont' = cont
    <2>1. UNCHANGED handed \/ (HandSeal /\ handed' = st.mem)
        BY <1>3, HandedFrame
    <2>2. CASE HandSeal /\ handed' = st.mem
        <3>1. UNCHANGED <<st, nextTab, cont>>
            BY <2>2 DEF HandSeal, data
        <3> QED
            BY <1>1, <1>2, <2>2, <3>1
    <2>3. CASE UNCHANGED handed
        <3>1. handed' < nextTab'
            BY <1>1, <1>2, <1>3, <2>3
        <3>2. cont' = cont
            BY <1>3, <2>3, PutStages DEF Staged, HandInv
        <3>3. CASE FreezeSwap
            <4>1. UNCHANGED st
                BY <1>3, <2>3, <3>3 DEF FreezeSwap, Fresh, HandInv, WriterInv, InWait, TypeOK
            <4> QED
                BY <1>2, <1>3, <2>3, <3>1, <3>2, <4>1
        <3>4. CASE LandSwap
            <4>1. UNCHANGED st \/ Lands(queue[1].tab)
                BY <3>4, LandMoves
            <4>2. CASE Lands(queue[1].tab)
                <5>1. \/ /\ queue[1].tab = st.mem
                         /\ st' = [mem |-> nextTab, frozen |-> <<>>,
                                   segs |-> st.segs \cup {queue[1].tab}]
                      \/ st' = [mem |-> st.mem, frozen |-> Tail(st.frozen),
                                segs |-> st.segs \cup {queue[1].tab}]
                    BY <4>2, Zenon DEF Lands
                <5>2. /\ st'.segs = st.segs \cup {queue[1].tab}
                      /\ st'.mem = st.mem \/ queue[1].tab = st.mem
                    BY ONLY <5>1
                <5>3. handed = st'.mem \/ handed \in st'.segs
                    BY <1>2, <1>3, <2>3, <5>2
                <5> QED
                    BY <2>3, <3>1, <3>2, <5>3
            <4> QED
                BY <1>2, <1>3, <2>3, <3>1, <3>2, <4>1, <4>2
        <3> QED
            BY <1>2, <1>3, <2>3, <3>1, <3>2, <3>3, <3>4, StFrame
    <2> QED
        BY <2>1, <2>2, <2>3
<1>4. ASSUME handed' # None, n' > 0 PROVE pend'
    <2>1. UNCHANGED handed \/ (HandSeal /\ call = "sync")
        BY <1>4, HandedFrame
    <2>2. CASE HandSeal /\ call = "sync"
        <3>1. n \in {0, 2} /\ Return("ok")
            BY <2>2 DEF HandSeal, HandInv, WriterInv
        <3> QED
            BY <1>4, <3>1 DEF Return
    <2>3. CASE UNCHANGED handed
        BY <1>1, <1>2, <1>4, <2>3, PendFrame DEF HandInv
    <2> QED
        BY <2>1, <2>2, <2>3
<1>5. ASSUME handed' = st'.mem PROVE cont'[st'.mem] # {}
    <2>1. handed' # None /\ cont' = cont
        BY <1>1, <1>3, <1>5
    <2>2. UNCHANGED handed \/ (HandSeal /\ call = "sync")
        BY <2>1, HandedFrame
    <2>3. CASE HandSeal /\ call = "sync"
        <3>1. cont[st.mem] # {} /\ UNCHANGED st
            BY <2>3 DEF HandSeal, HandInv, WriterInv
        <3> QED
            BY <2>1, <3>1
    <2>4. CASE UNCHANGED handed
        <3>1. st'.mem = st.mem
            BY <1>1, <1>2, <1>5, <2>1, <2>4, NextGrows
        <3> QED
            BY <1>2, <1>5, <2>1, <2>4, <3>1
    <2> QED
        BY <2>2, <2>3, <2>4
<1> QED
    BY <1>3, <1>4, <1>5

\* A landing beside the writer's own live table leaves that table, and takes no
\* more than one of the tables frozen before it.
LEMMA LandKeeps ==
    ASSUME HandInv, LandSwap, handed = None
    PROVE  /\ st'.mem = st.mem /\ (Room(st) => Len(st'.frozen) < FrozenCap)
           /\ Unsealed = 1 => st'.frozen # <<>> \/ st.frozen = <<>>
<1>1. st.frozen \in Seq(Table) /\ Len(st.frozen) \in Nat /\ st.mem # None
    BY Typed
<1>2. CASE UNCHANGED st
    BY <1>1, <1>2 DEF Room
<1>3. CASE Lands(queue[1].tab) /\ queue # <<>> /\ ~queue[1].landed /\ Going
    <2>1. /\ st.frozen # <<>>
          /\ st' = [mem |-> st.mem, frozen |-> Tail(st.frozen), segs |-> st.segs \cup {queue[1].tab}]
        BY <1>1, <1>3, Zenon DEF Lands
    <2>2. st'.mem = st.mem /\ st'.frozen = Tail(st.frozen)
        BY ONLY <2>1
    <2>3. Len(st'.frozen) = Len(st.frozen) - 1
        BY <1>1, <2>1, <2>2, Dropped
    <2>4. Room(st) => Len(st'.frozen) < FrozenCap
        BY <1>1, <2>3, HandoffAssumption DEF Room
    <2>5. ASSUME Unsealed = 1 PROVE st'.frozen # <<>>
        <3>1. Len(queue) + Unsealed = Landed + Len(st.frozen) + Handed
            BY <1>3, Zenon DEF HandInv, ChainInv
        <3>2. Landed = 0 /\ Handed = 0 /\ Len(queue) \in Nat /\ Len(queue) >= 1
            BY <1>1, <1>3, QueueDom DEF Landed, Handed
        <3>a. Len(st.frozen) \in Nat
            BY <1>1
        <3>3. Len(st.frozen) >= 2
            BY ONLY <2>5, <3>1, <3>2, <3>a
        <3>4. Len(st'.frozen) # 0
            BY ONLY <2>3, <3>3, <3>a
        <3> QED
            BY <3>4
    <2> QED
        BY <2>2, <2>4, <2>5
<1> QED
    BY <1>2, <1>3, LandMoves

\* Where the writer stands is kept beside the segment work and the threads.
LEMMA WriterBeside ==
    ASSUME HandInv, Next,
           UNCHANGED <<handed, pend, wpc, call, loop, seals, seen, b, n, cont, comm, done>>
    PROVE  WriterInv'
<1>1. WriterInv
    BY DEF HandInv
<1>2. CASE UNCHANGED st
    BY <1>1, <1>2, HandedStep DEF WriterInv, InWait, Room
<1>3. CASE LandSwap
    <2>1. handed = None =>
            /\ st'.mem = st.mem /\ (Room(st) => Len(st'.frozen) < FrozenCap)
            /\ wpc \in {"first", "hand"} /\ call # "sync" =>
                  st'.frozen # <<>> \/ st.frozen = <<>>
        BY <1>3, LandKeeps DEF Unsealed
    <2> QED
        BY <1>1, <2>1, HandedStep DEF WriterInv, InWait, Room
<1>4. CASE FreezeSwap
    BY <1>2, <1>4 DEF FreezeSwap, Fresh
<1> QED
    BY <1>2, <1>3, <1>4, StFrame

LEMMA WriterStep ==
    ASSUME HandInv, Next PROVE WriterInv'
<1>1. /\ WriterInv /\ st.mem \in Table /\ st.frozen \in Seq(Table)
      /\ n \in 0..2 /\ loop \in {"fresh", "land"} /\ call \in {"put", "seal", "sync", "flush"}
      /\ comm \in [Table -> SUBSET Op]
    BY Typed, TypedNat DEF HandInv, TypeOK
<1>2. n' > 0 => b' <= MaxBatch
    BY BatchTyped
<1> USE HandedStep, <1>1, <1>2 DEF WriterInv, InWait
<1>3. CASE Put
    BY <1>3 DEF Put, Stage, Waits, shared
<1>4. CASE PutGoes
    BY <1>4 DEF PutGoes, Stage, shared
<1>5. CASE Commit
    BY <1>5 DEF Commit, Boundary, CommitMem, Waits, Return
<1>6. CASE Sync
    BY <1>6 DEF Sync, Boundary, CommitMem, Return, shared
<1>7. CASE \E c \in {"seal", "flush"} : Seal(c)
    BY <1>7 DEF Seal, Boundary, Waits, Return, shared, data
<1>8. CASE SealCommits
    BY <1>8 DEF SealCommits, CommitMem, Waits, Return, shared
<1>9. CASE ReadCount \/ FirstCount
    BY <1>9 DEF ReadCount, FirstCount, shared, data, ghost
<1>10. CASE ReadState
    BY <1>10 DEF ReadState, Fresh, Room, shared, data, ghost
<1>11. CASE AskErr
    BY <1>11 DEF AskErr, GivesUp, Return, data, wait
<1>12. CASE AskWedged
    BY <1>12 DEF AskWedged, GivesUp, Return, shared, data, wait
<1>13. CASE LastErr
    BY <1>13 DEF LastErr, Return, Room, data, wait
<1>14. CASE Freeze
    BY <1>14 DEF Freeze, Freezes, Room, shared, data, ghost
<1>15. CASE FreezeSwap
    <2>1. CASE st # seen
        BY <1>15, <2>1 DEF FreezeSwap, Fresh, wait, ghost
    <2>2. CASE st = seen
        <3>1. Freezing \/ UNCHANGED <<st, nextTab>>
            BY <1>15, FreezeMoves DEF HandInv
        <3>2. CASE Freezing
            <4>1. st' = [mem |-> nextTab, frozen |-> Append(st.frozen, st.mem), segs |-> st.segs]
                BY <3>2 DEF Freezing
            <4>a. st'.frozen = Append(st.frozen, st.mem)
                BY ONLY <4>1
            <4>2. st'.frozen # <<>>
                BY ONLY <4>a, st.mem \in Table, st.frozen \in Seq(Table)
            <4> QED
                BY <1>15, <2>2, <4>2 DEF FreezeSwap, Fresh, wait, ghost
        <3>3. CASE UNCHANGED <<st, nextTab>>
            <4>1. nextTab' = nextTab + 1 /\ nextTab \in Nat
                BY <1>15, <2>2, TypedNat DEF FreezeSwap
            <4> QED
                BY ONLY <3>3, <4>1
        <3> QED
            BY <3>1, <3>2, <3>3
    <2> QED
        BY <2>1, <2>2
<1>16. CASE HandSeal
    BY <1>16 DEF HandSeal, Return, data, wait
<1>17. CASE Answered
    BY <1>17 DEF Answered, Return, data, wait
<1> QED
    BY <1>3, <1>4, <1>5, <1>6, <1>7, <1>8, <1>9, <1>10, <1>11, <1>12, <1>13, <1>14, <1>15,
       <1>16, <1>17, OthersFrame, WriterBeside DEF Caller, Writer

-----------------------------------------------------------------------------
(* What the calls say.                                                       *)

\* What is committed stays committed.
LEMMA CommittedGrows ==
    ASSUME HandInv, Next PROVE Committed \subseteq Committed'
<1>1. /\ comm \in [Table -> SUBSET Op] /\ st.mem \in Table
      /\ \A t \in Table : comm[t] \subseteq cont[t]
    BY Typed DEF HandInv, ContInv
<1>2. \A t \in Table : comm[t] \subseteq comm'[t]
    <2>1. CASE UNCHANGED comm
        BY <2>1
    <2>2. CASE CommitMem
        BY <1>1, <2>2 DEF CommitMem
    <2> QED
        BY <2>1, <2>2, CommFrame DEF HandInv
<1> QED
    BY <1>2 DEF Committed

\* A commit of the live table makes what was staged in it committed.
LEMMA CommitsBatch ==
    ASSUME HandInv, Next, CommitMem, ~pend
    PROVE  \A j \in 1..n : <<b, j>> \in Committed'
<1>1. comm \in [Table -> SUBSET Op] /\ st.mem \in Table
    BY Typed
<1>2. cont[st.mem] \subseteq Committed'
    BY <1>1 DEF CommitMem, Committed
<1>3. \A j \in 1..n : <<b, j>> \in cont[st.mem] \/ <<b, j>> \in Committed
    BY DEF HandInv, SaidInv, Said
<1> QED
    BY <1>2, <1>3, CommittedGrows

\* A call that returns without an error has committed its batch.
LEMMA OkFrame ==
    ASSUME HandInv, Next
    PROVE  \/ \A i \in Batch : done'[i] = "ok" => done[i] = "ok"
           \/ /\ n = 2 /\ done' = [done EXCEPT ![b] = "ok"]
              /\ \A j \in 1..n : <<b, j>> \in Committed'
<1>0. /\ WriterInv /\ done \in [Batch -> {"no", "ok", "err"}] /\ n \in 0..2
      /\ handed # None /\ n > 0 => pend
    BY TypedNat DEF HandInv, TypeOK, WriterInv
<1>1. CASE UNCHANGED done
    BY <1>1
<1>2. ASSUME Return("err") PROVE \A i \in Batch : done'[i] = "ok" => done[i] = "ok"
    BY <1>0, <1>2 DEF Return
<1>3. ASSUME Return("ok"), \A j \in 1..n : <<b, j>> \in Committed'
      PROVE  \/ UNCHANGED done
             \/ /\ n = 2 /\ done' = [done EXCEPT ![b] = "ok"]
                /\ \A j \in 1..n : <<b, j>> \in Committed'
    BY <1>3 DEF Return
<1>4. ASSUME ~pend, CommitMem, Return("ok") PROVE \A j \in 1..n : <<b, j>> \in Committed'
    BY <1>4, CommitsBatch
<1>5. ASSUME ~pend, handed # None PROVE \A j \in 1..n : <<b, j>> \in Committed'
    BY <1>0, <1>5
<1>6. ASSUME wpc \in {"first", "hand", "drain"} PROVE \A j \in 1..n : <<b, j>> \in Committed'
    BY <1>6, CommittedGrows DEF HandInv, SaidInv, Said
<1>7. CASE Commit
    <2>1. \/ UNCHANGED done \/ Return("err")
          \/ ~pend /\ handed # None /\ Return("ok")
          \/ ~pend /\ CommitMem /\ Return("ok")
        BY <1>7, Zenon DEF Commit
    <2> QED
        BY <2>1, <1>1, <1>2, <1>3, <1>4, <1>5
<1>8. CASE Sync
    <2>1. \/ UNCHANGED done \/ Return("err")
          \/ ~pend /\ handed # None /\ Return("ok")
          \/ ~pend /\ CommitMem /\ Return("ok")
        BY <1>8 DEF Sync
    <2> QED
        BY <2>1, <1>1, <1>2, <1>3, <1>4, <1>5
<1>9. CASE SealCommits
    <2>1. ~pend /\ CommitMem /\ (UNCHANGED done \/ Return("ok"))
        BY <1>0, <1>9 DEF SealCommits, WriterInv
    <2> QED
        BY <2>1, <1>1, <1>3, <1>4
<1>10. CASE HandSeal
    <2>1. wpc = "hand" /\ (UNCHANGED done \/ Return("ok"))
        BY <1>10 DEF HandSeal
    <2> QED
        BY <2>1, <1>1, <1>3, <1>6
<1>11. CASE Answered
    <2>1. wpc = "drain" /\ (Return("err") \/ Return("ok"))
        BY <1>11 DEF Answered
    <2> QED
        BY <2>1, <1>1, <1>2, <1>3, <1>6
<1>12. CASE \E c \in {"seal", "flush"} : Seal(c)
    <2>1. UNCHANGED done \/ Return("err")
        BY <1>12 DEF Seal
    <2> QED
        BY <2>1, <1>1, <1>2
<1>13. CASE AskErr \/ AskWedged \/ LastErr
    <2>1. UNCHANGED done \/ Return("err")
        BY <1>13 DEF AskErr, AskWedged, LastErr, GivesUp
    <2> QED
        BY <2>1, <1>1, <1>2
<1>14. CASE Put \/ PutGoes \/ ReadCount \/ ReadState \/ Freeze \/ FreezeSwap \/ FirstCount
    BY <1>1, <1>14 DEF Put, PutGoes, ReadCount, ReadState, Freeze, FreezeSwap, FirstCount, ghost
<1> QED
    BY <1>1, <1>7, <1>8, <1>9, <1>10, <1>11, <1>12, <1>13, <1>14, OthersFrame DEF Caller, Writer

\* The batch goes on with a write made, or dropped and told of, and a call that
\* has come to its seal has committed it.
LEMMA StepsOn ==
    ASSUME HandInv, Next
    PROVE  /\ ~pend' => \/ ~pend /\ UNCHANGED <<b, n>>
                        \/ Staged \/ n' = 0
           /\ wpc' \in {"first", "hand", "drain"} =>
                 \/ wpc \in {"first", "hand", "drain", "swap"} /\ UNCHANGED <<b, n>>
                 \/ CommitMem /\ ~pend /\ UNCHANGED <<b, n>>
<1>0. WriterInv /\ n \in 0..2 /\ pend \in BOOLEAN
    BY TypedNat DEF HandInv, TypeOK
<1>1. CASE Put \/ PutGoes
    BY <1>0, <1>1, PutStages DEF Put, PutGoes, Waits, Stage, Staged, WriterInv
<1>2. CASE Commit
    BY <1>0, <1>2 DEF Commit, Boundary, Return, Waits
<1>3. CASE Sync
    BY <1>0, <1>3 DEF Sync, Boundary, Return
<1>4. CASE \E c \in {"seal", "flush"} : Seal(c)
    BY <1>0, <1>4 DEF Seal, Boundary, Return, Waits
<1>5. CASE SealCommits
    BY <1>0, <1>5 DEF SealCommits, Return, Waits, WriterInv
<1>6. CASE ReadCount \/ FirstCount
    BY <1>0, <1>6 DEF ReadCount, FirstCount, ghost
<1>7. CASE ReadState
    BY <1>0, <1>7 DEF ReadState, Fresh, ghost
<1>8. CASE AskErr
    BY <1>0, <1>8 DEF AskErr, GivesUp, Return, WriterInv
<1>9. CASE AskWedged
    BY <1>0, <1>9 DEF AskWedged, GivesUp, Return, WriterInv
<1>10. CASE LastErr
    BY <1>0, <1>10 DEF LastErr, Return
<1>11. CASE Freeze \/ FreezeSwap
    BY <1>0, <1>11 DEF Freeze, FreezeSwap, Fresh, ghost
<1>12. CASE HandSeal
    BY <1>0, <1>12 DEF HandSeal, Return
<1>13. CASE Answered
    BY <1>0, <1>13 DEF Answered, Return
<1> QED
    BY <1>1, <1>2, <1>3, <1>4, <1>5, <1>6, <1>7, <1>8, <1>9, <1>10, <1>11, <1>12, <1>13,
       OthersFrame DEF Caller, Writer

LEMMA SaidStep ==
    ASSUME HandInv, Next PROVE SaidInv'
<1>1. /\ st.mem \in Table /\ b \in Nat /\ n \in 0..2 /\ cont \in [Table -> SUBSET Op]
      /\ comm \in [Table -> SUBSET Op]
    BY Typed, TypedNat
<1>2. /\ ~pend => \A j \in 1..n : <<b, j>> \in cont[st.mem] \/ <<b, j>> \in Committed
      /\ wpc \in {"first", "hand", "drain"} => \A j \in 1..n : <<b, j>> \in Committed
      /\ OkWhole
    BY DEF HandInv, SaidInv, Said
<1>3. Committed \subseteq Committed'
    BY CommittedGrows
<1>4. ASSUME wpc = "swap", loop = "land"
      PROVE  \A j \in 1..n : <<b, j>> \in Committed
    <2>1. comm[st.mem] = cont[st.mem] /\ ~pend
        BY <1>4 DEF HandInv, WriterInv, InWait
    <2>2. comm[st.mem] \subseteq Committed
        BY <1>1 DEF Committed
    <2> QED
        BY <1>2, <2>1, <2>2
<1>5. ASSUME ~pend' PROVE \A j \in 1..n' : <<b', j>> \in cont'[st'.mem] \/ <<b', j>> \in Committed'
    <2>1. CASE n' = 0
        BY <2>1
    <2>2. CASE Staged
        <3>1. /\ st' = st /\ b' = b /\ n' = n + 1 /\ ~pend
              /\ cont'[st.mem] = cont[st.mem] \cup {<<b, n + 1>>}
            BY <1>1, <1>5, <2>2 DEF Staged, shared
        <3>2. \A j \in 1..n' : j \in 1..n \/ j = n + 1
            BY <1>1, <3>1
        <3> QED
            BY <1>2, <1>3, <3>1, <3>2
    <2>3. CASE ~pend /\ UNCHANGED <<b, n>> /\ n' # 0
        <3>1. CASE UNCHANGED st
            <4>1. cont[st.mem] \subseteq cont'[st.mem]
                BY <1>1, PutStages DEF Staged, HandInv
            <4> QED
                BY <1>2, <1>3, <2>3, <3>1, <4>1
        <3>2. handed = None
            BY <1>1, <2>3 DEF HandInv, WriterInv
        <3>3. CASE LandSwap
            <4>1. st'.mem = st.mem /\ cont' = cont
                BY <3>2, <3>3, LandKeeps DEF LandSwap
            <4> QED
                BY <1>2, <1>3, <2>3, <4>1
        <3>4. CASE FreezeSwap
            <4>1. wpc = "swap" /\ (loop = "land" \/ UNCHANGED st)
                BY <3>2, <3>4 DEF FreezeSwap, HandInv, WriterInv, InWait, TypeOK
            <4> QED
                BY <1>3, <1>4, <2>3, <3>1, <4>1
        <3> QED
            BY <3>1, <3>3, <3>4, StFrame
    <2> QED
        BY <1>5, <2>1, <2>2, <2>3, StepsOn
<1>6. ASSUME wpc' \in {"first", "hand", "drain"}
      PROVE  \A j \in 1..n' : <<b', j>> \in Committed'
    <2>1. CASE CommitMem /\ ~pend /\ UNCHANGED <<b, n>>
        BY <2>1, CommitsBatch
    <2>2. CASE wpc \in {"first", "hand", "drain"} /\ UNCHANGED <<b, n>>
        BY <1>2, <1>3, <2>2
    <2>3. CASE wpc = "swap" /\ UNCHANGED <<b, n>>
        <3>1. loop = "land"
            BY <1>6, <2>3 DEF Next, Caller, Writer, Maint, Put, Commit, Sync, Seal, Boundary, PutGoes,
               SealCommits, ReadCount, ReadState, AskErr, AskWedged, LastErr, Freeze, FreezeSwap,
               Fresh, FirstCount, HandSeal, Answered, LandReadable, LandSwap, LandFails,
               FrontFailed, LandDurable, CountsOut, CountOut, SetWedged, PutErr, DrainTaken,
               DrainAnswer, MergeFails, Promote, Thread, SealNames, SealSyncs, SealThreadFails,
               writer, HandInv, TypeOK
        <3> QED
            BY <1>3, <1>4, <2>3, <3>1
    <2> QED
        BY <1>6, <2>1, <2>2, <2>3, StepsOn
<1>7. OkWhole'
    <2> SUFFICES ASSUME NEW i \in Batch, done'[i] = "ok" PROVE {i} \X {1, 2} \subseteq Committed'
        BY DEF OkWhole
    <2>1. CASE done[i] = "ok"
        BY <1>2, <1>3, <2>1 DEF OkWhole
    <2>2. CASE done[i] # "ok"
        <3>1. /\ n = 2 /\ done' = [done EXCEPT ![b] = "ok"]
              /\ \A j \in 1..n : <<b, j>> \in Committed'
            BY <2>2, OkFrame
        <3>2. i = b
            BY <2>2, <3>1
        <3>3. <<b, 1>> \in Committed' /\ <<b, 2>> \in Committed'
            BY <3>1
        <3> QED
            BY <3>2, <3>3
    <2> QED
        BY <2>1, <2>2
<1> QED
    BY <1>5, <1>6, <1>7 DEF SaidInv, Said

-----------------------------------------------------------------------------
(* The invariant, and what follows from it.                                  *)

LEMMA HandInit == Init => HandInv
<1> SUFFICES ASSUME Init PROVE HandInv
    OBVIOUS
<1> USE HandoffAssumption
<1>1. st = [mem |-> 1, frozen |-> <<>>, segs |-> {}] /\ 1 \in Table /\ nextTab = 2
    BY DEF Init, Table
<1>2. st.mem = 1 /\ st.frozen = <<>> /\ st.segs = {} /\ st \in State
    BY <1>1 DEF State
<1>3. cont = [t \in Table |-> {}] /\ comm = cont /\ seg = cont /\ queue = <<>> /\ handed = 0
    BY DEF Init, None
<1>4. TypeOK
    <2>1. seen \in State /\ mcur \in State /\ queue \in Seq(Job)
        BY <1>2, <1>3 DEF Init
    <2>2. cont \in [Table -> SUBSET Op] /\ comm \in [Table -> SUBSET Op] /\ seg \in [Table -> SUBSET Op]
        BY <1>3
    <2>3. 1 \in 1..(MaxBatch + 1) /\ 0 \in 0..MaxFail /\ 2 \in 2..(2 * MaxBatch + 2)
        OBVIOUS
    <2>4. done \in [Batch -> {"no", "ok", "err"}]
        BY DEF Init
    <2>5. nextTab \in 2..(2 * MaxBatch + 2) /\ b \in 1..(MaxBatch + 1) /\ fails \in 0..MaxFail
        BY <2>3 DEF Init
    <2>6. inSeal \in Nat /\ parts \in Nat /\ seals \in Nat /\ n \in 0..2
        BY DEF Init
    <2>7. /\ wedged \in BOOLEAN /\ merr \in BOOLEAN /\ pend \in BOOLEAN /\ alarm \in BOOLEAN
        BY Zenon DEF Init
    <2> QED
        BY <1>2, <2>1, <2>2, <2>4, <2>5, <2>6, <2>7, Zenon DEF Init, TypeOK, None
<1>5. TabsInv
    <2>1. \A t \in Table : t < nextTab => t = st.mem
        BY <1>1, <1>2 DEF Table
    <2> QED
        BY <1>1, <1>2, <2>1 DEF TabsInv
<1>6. ContInv /\ RoomInv
    BY <1>1, <1>2, <1>3 DEF ContInv, RoomInv, Init
<1>7. JobsInv /\ SegInv
    BY <1>1, <1>2, <1>3 DEF JobsInv, SegInv, Init
<1>8. ChainInv
    BY <1>2, <1>3 DEF ChainInv, Landed, Handed, Unsealed, Init
<1>9. WriterInv
    BY <1>1, <1>2, <1>3 DEF WriterInv, InWait, Init, None
<1>10. SaidInv
    BY DEF SaidInv, OkWhole, Init
<1>11. AlarmInv /\ FirstInv
    BY <1>3 DEF AlarmInv, FirstInv, NoFalseAlarm, Init
<1> QED
    BY <1>4, <1>5, <1>6, <1>7, <1>8, <1>9, <1>10, <1>11 DEF HandInv

LEMMA HandStutters == ASSUME HandInv, UNCHANGED vars PROVE HandInv'
<1>1. UNCHANGED <<shared, data, writer, maint, ghost, fails>>
    BY DEF vars
<1>2. /\ UNCHANGED <<st, inSeal, wedged, merr>> /\ UNCHANGED <<cont, comm, seg, nextTab, parts>>
      /\ UNCHANGED <<handed, pend, wpc, call, loop, seals, seen>>
      /\ UNCHANGED <<queue, mpc, mcur, outcome, asked, b, n, done, alarm, fails>>
    BY <1>1 DEF shared, data, writer, wait, maint, ghost
<1>3. TypeOK' /\ TabsInv' /\ ContInv' /\ RoomInv'
    BY <1>2 DEF HandInv, TypeOK, TabsInv, Frozen, ContInv, RoomInv
<1>4. JobsInv' /\ SegInv' /\ ChainInv'
    BY <1>2 DEF HandInv, JobsInv, Frozen, SegInv, ChainInv, Going, Landed, Handed, Unsealed
<1>5. WriterInv'
    BY <1>2 DEF HandInv, WriterInv, InWait, Room
<1>6. SaidInv'
    BY <1>2 DEF HandInv, SaidInv, Said, Committed, OkWhole
<1>7. AlarmInv' /\ FirstInv'
    BY <1>2 DEF HandInv, AlarmInv, NoFalseAlarm, Going, FirstInv
<1> QED
    BY <1>3, <1>4, <1>5, <1>6, <1>7 DEF HandInv

\* Every step keeps the invariant.
LEMMA HandStep == ASSUME HandInv, [Next]_vars PROVE HandInv'
<1>1. CASE Next
    BY <1>1, TypeStep, TabsStep, ContStep, RoomStep, JobsStep, SegStep, ChainStep, WriterStep,
       SaidStep, AlarmStep, FirstStep DEF HandInv
<1>2. CASE UNCHANGED vars
    BY <1>2, HandStutters
<1> QED
    BY <1>1, <1>2

\* The invariant holds of every state of every behaviour.
THEOREM HandAlways == Spec => []HandInv
<1>1. HandInv /\ [Next]_vars => HandInv'
    BY HandStep
<1> QED
    BY HandInit, <1>1, PTL DEF Spec

\* Every variable holds what the code's fields can: in particular no more than
\* two fresh tables are made for a batch, and the count of seals in flight is
\* never taken below zero.
THEOREM TypeCorrect == Spec => []TypeOK
<1>1. HandInv => TypeOK
    BY DEF HandInv
<1> QED
    BY HandAlways, <1>1, PTL

\* A landing finds its table where publish_segs_with looks for it, and the
\* writer's own freeze finds the room its wait for it left.
THEOREM LandingsInOrder == Spec => []OldestLands
<1>1. ASSUME HandInv PROVE OldestLands
    <2>1. ASSUME queue # <<>>, ~wedged, mpc \notin {"out", "wedge"}, ~Front.landed
          PROVE  IF st.mem = Front.tab THEN st.frozen = <<>>
                 ELSE st.frozen # <<>> /\ Head(st.frozen) = Front.tab
        <3>1. queue \in Seq(Job) /\ st.frozen \in Seq(Table) /\ Front = queue[1]
            BY <1>1, <2>1, Typed DEF Front
        <3>2. Going
            BY <2>1 DEF Going
        <3>3. IF st.mem = queue[1].tab THEN st.frozen = <<>> /\ handed = st.mem
              ELSE st.frozen # <<>> /\ st.frozen[1] = queue[1].tab
            BY <1>1, <2>1, <3>1, <3>2, FrontFound DEF HandInv
        <3> QED
            BY <3>1, <3>3
    <2>2. wpc = "freeze" /\ loop = "land" => Room(st)
        BY <1>1 DEF HandInv, WriterInv
    <2> QED
        BY <2>1, <2>2 DEF OldestLands
<1> QED
    BY HandAlways, <1>1, PTL

\* Every write committed has one home: the live table, a frozen one or a
\* segment, and none is written into a table its seal has read.
THEOREM EveryWriteHasOneHome == Spec => []OneHome
<1>1. ASSUME HandInv PROVE OneHome
    <2> SUFFICES ASSUME NEW w \in Committed PROVE Homes(w) = 1
        BY DEF OneHome
    <2> DEFINE At(t) == \/ t \in st.segs /\ w \in seg[t]
                        \/ t \notin st.segs /\ w \in comm[t]
                           /\ (t = st.mem \/ \E i \in DOMAIN st.frozen : st.frozen[i] = t)
    <2>1. PICK t \in Table : w \in comm[t]
        BY DEF Committed
    <2>2. /\ \A u \in Table : comm[u] \subseteq cont[u] /\ (u >= nextTab => cont[u] = {})
          /\ \A u, v \in Table : u # v => cont[u] \cap cont[v] = {}
          /\ \A u \in st.segs : seg[u] = cont[u]
          /\ \A u \in Table : u < nextTab => u = st.mem \/ u \in st.segs \/ Frozen(u)
        BY <1>1 DEF HandInv, ContInv, SegInv, TabsInv
    <2>3. w \in cont[t] /\ t < nextTab
        BY <1>1, <2>1, <2>2, TypedNat
    <2>4. At(t)
        BY <2>1, <2>2, <2>3 DEF Frozen
    <2>5. ASSUME NEW u \in Table, At(u) PROVE u = t
        <3>1. w \in cont[u]
            BY <2>2, <2>5
        <3> QED
            BY <2>2, <2>3, <3>1
    <2>6. {u \in Table : At(u)} = {t}
        BY <2>4, <2>5
    <2>7. Homes(w) = Cardinality({u \in Table : At(u)})
        BY DEF Homes
    <2> QED
        BY <2>6, <2>7, FS_Singleton
<1> QED
    BY HandAlways, <1>1, PTL

\* A batch whose commit, sync, seal or flush returned without an error was
\* committed whole.
THEOREM OkMeansWhole == Spec => []OkWhole
<1>1. HandInv => OkWhole
    BY DEF HandInv, SaidInv
<1> QED
    BY HandAlways, <1>1, PTL

\* The writer is told that a seal did not land only where one did not.
THEOREM AlarmsAreTrue == Spec => []NoFalseAlarm
<1>1. HandInv => NoFalseAlarm
    BY DEF HandInv, AlarmInv
<1> QED
    BY HandAlways, <1>1, PTL

\* No two partitions cover the key range, however the seal that names the first
\* one and the promotion come together.
THEOREM PartitionsDisjoint == Spec => []OnePartition
<1>1. HandInv => OnePartition
    BY DEF HandInv, FirstInv, OnePartition
<1> QED
    BY HandAlways, <1>1, PTL
=============================================================================
