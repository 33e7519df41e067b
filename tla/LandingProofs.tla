--------------------------- MODULE LandingProofs ---------------------------
(***************************************************************************)
(* What Landing keeps for every number of batches, segments and failures:    *)
(* its type invariant, and that no manifest is written that names a segment  *)
(* not yet durable.                                                          *)
(***************************************************************************)
EXTENDS Landing, TLAPS

\* The larger of two batch numbers is one.
LEMMA LargerType ==
    \A N \in Nat : \A a, b \in 0..N : Larger(a, b) \in 0..N
BY DEF Larger

\* The initial states of Db::create are typed.
LEMMA TypeInit == Init => TypeOK
<1> SUFFICES ASSUME Init PROVE TypeOK
    OBVIOUS
<1>1. Blank \in Manifest
    BY LandingAssumption DEF Blank, Manifest
<1>2. \A b \in BOOLEAN : [ok |-> b, m |-> Blank] \in Content
    BY <1>1 DEF Content
<1>3. slot \in [Slots -> Content] /\ device \in [Slots -> SUBSET Content]
    BY <1>2 DEF Init, Slots
<1>4. merge \in [in : SUBSET Seg, out : SUBSET Seg, done : BOOLEAN]
    BY DEF Init, NoMerge
<1>5. TypeLog /\ TypeState /\ TypeWork /\ TypeRest
    BY LandingAssumption DEF Init, TypeLog, TypeState, TypeWork, TypeRest
<1>6. TypeFiles
    BY DEF Init, TypeFiles
<1>7. TypeFlight
    BY <1>4, LandingAssumption DEF Init, TypeFlight
<1>8. TypeStep
    BY LandingAssumption DEF Init, TypeStep
<1>9. TypeFlags
    BY Zenon DEF Init, TypeFlags
<1> QED
    BY <1>3, <1>5, <1>6, <1>7, <1>8, <1>9 DEF TypeOK, TypeSlots

\* The front of a queue that is not empty, and what is behind it.
LEMMA QueueType ==
    ASSUME TypeFlight, queue # <<>>
    PROVE  /\ Head(queue) \in Job /\ Tail(queue) \in Seq(Job)
           /\ Head(queue).seg \in Seg /\ Head(queue).end \in 0..MaxBatch
<1>1. Head(queue) \in Job /\ Tail(queue) \in Seq(Job)
    BY DEF TypeFlight
<1> QED
    BY <1>1, LandingAssumption DEF Job, Batch

\* A publish of live segments is a manifest.
LEMMA LiveSetType ==
    ASSUME TypeWork, NEW live \in SUBSET Seg, NEW c \in 0..MaxBatch
    PROVE  LiveSet(live, c) \in Manifest
BY DEF TypeWork, LiveSet, Manifest

\* Writing a manifest into its slot, or failing to, keeps the slots typed.
LEMMA SlotWritten ==
    ASSUME TypeSlots, NEW m \in Manifest, WriteSlotFails(m)
    PROVE  TypeSlots'
<1>1. CASE WriteSlot(m)
    <2>1. [ok |-> TRUE, m |-> m] \in Content /\ Torn \in Content
        BY LandingAssumption DEF Content, Torn, Blank, Manifest
    <2>2. m.seq % 2 \in Slots
        BY DEF Manifest, Slots
    <2> QED
        BY <1>1, <2>1, <2>2 DEF WriteSlot, TypeSlots
<1>2. CASE UNCHANGED slots
    BY <1>2 DEF slots, TypeSlots
<1> QED
    BY <1>1, <1>2 DEF WriteSlotFails

\* So does syncing a slot.
LEMMA SlotSynced ==
    ASSUME TypeSlots, NEW i \in Slots, SyncSlot(i)
    PROVE  device' \in [Slots -> SUBSET Content]
BY DEF TypeSlots, SyncSlot

\* A table handed to a seal keeps the types of what it changes.
LEMMA HandType ==
    ASSUME TypeLog, TypeFiles, TypeState, TypeFlight, NEW d \in BOOLEAN, Hand(d)
    PROVE  /\ queue' \in Seq(Job) /\ holds' \in [Seg -> SUBSET Batch]
           /\ frozen' \subseteq Seg /\ mem' \subseteq Batch
           /\ nextSeg' \in 1..(MaxSeg + 1)
<1> USE LandingAssumption
<1>1. nextSeg \in Seg
    BY DEF Hand, TypeFlight, Seg
<1>2. [seg |-> nextSeg, end |-> last, draining |-> d,
       walUnsynced |-> logSync < last, st |-> "writing"] \in Job
    BY <1>1 DEF TypeLog, Job
<1>3. queue' \in Seq(Job)
    BY <1>2 DEF Hand, TypeFlight
<1>4. holds' \in [Seg -> SUBSET Batch] /\ frozen' \subseteq Seg
      /\ mem' \subseteq Batch
    BY <1>1 DEF Hand, TypeFiles, TypeState
<1>5. nextSeg' \in 1..(MaxSeg + 1)
    BY DEF Hand, TypeFlight
<1> QED
    BY <1>3, <1>4, <1>5

\* The writer's steps keep the types.
LEMMA TypeWriter == TypeOK /\ Writer => TypeOK'
<1> SUFFICES ASSUME TypeOK, Writer PROVE TypeOK'
    OBVIOUS
<1> USE LandingAssumption
<1>1. CASE Write
    <2>1. TypeLog' /\ TypeFiles' /\ TypeSlots' /\ TypeState'
          /\ TypeWork' /\ TypeFlight' /\ TypeStep' /\ TypeRest'
        BY <1>1
        DEF TypeOK, Write, Batch, log, segf, slots, state, work, flight, step,
            TypeLog, TypeFiles, TypeSlots, TypeState, TypeWork, TypeFlight, TypeStep, TypeRest
    <2>2. TypeFlags'
        BY <1>1, Zenon DEF TypeOK, Write, flight, step, TypeFlags
    <2> QED
        BY <2>1, <2>2 DEF TypeOK
<1>2. CASE SealTable
    <2>a. /\ queue' \in Seq(Job) /\ holds' \in [Seg -> SUBSET Batch]
          /\ frozen' \subseteq Seg /\ mem' \subseteq Batch
          /\ nextSeg' \in 1..(MaxSeg + 1)
        BY <1>2, HandType, Zenon DEF TypeOK, SealTable
    <2>1. TypeLog' /\ TypeFiles' /\ TypeSlots' /\ TypeState'
          /\ TypeWork' /\ TypeFlight' /\ TypeStep' /\ TypeRest'
        BY <1>2, <2>a
        DEF TypeOK, SealTable, log, segf, slots, state, work, flight, step,
            TypeLog, TypeFiles, TypeSlots, TypeState, TypeWork, TypeFlight, TypeStep, TypeRest
    <2>2. TypeFlags'
        BY <1>2, Zenon DEF TypeOK, SealTable, flight, step, TypeFlags
    <2> QED
        BY <2>1, <2>2 DEF TypeOK
<1>3. CASE Flush
    <2>a. /\ queue' \in Seq(Job) /\ holds' \in [Seg -> SUBSET Batch]
          /\ frozen' \subseteq Seg /\ mem' \subseteq Batch
          /\ nextSeg' \in 1..(MaxSeg + 1)
        <3>1. CASE Hand(TRUE)
            BY <3>1, HandType, Zenon DEF TypeOK
        <3>2. CASE UNCHANGED <<queue, holds, frozen, nextSeg, mem>>
            BY <3>2 DEF TypeOK, TypeFiles, TypeState, TypeFlight
        <3> QED
            BY <1>3, <3>1, <3>2 DEF Flush
    <2>1. TypeLog' /\ TypeFiles' /\ TypeSlots' /\ TypeState'
          /\ TypeWork' /\ TypeFlight' /\ TypeStep' /\ TypeRest'
        BY <1>3, <2>a
        DEF TypeOK, Flush, log, segf, slots, state, work, flight, step,
            TypeLog, TypeFiles, TypeSlots, TypeState, TypeWork, TypeFlight, TypeStep, TypeRest
    <2>2. TypeFlags'
        BY <1>3, Zenon DEF TypeOK, Flush, flight, step, TypeFlags
    <2> QED
        BY <2>1, <2>2 DEF TypeOK
<1>4. CASE SealRefused
    <2>1. TypeLog' /\ TypeFiles' /\ TypeSlots' /\ TypeState'
          /\ TypeWork' /\ TypeFlight' /\ TypeStep' /\ TypeRest'
        BY <1>4
        DEF TypeOK, SealRefused, log, segf, slots, state, work, flight, step,
            TypeLog, TypeFiles, TypeSlots, TypeState, TypeWork, TypeFlight, TypeStep, TypeRest
    <2>2. TypeFlags'
        BY <1>4, Zenon DEF TypeOK, SealRefused, flight, step, TypeFlags
    <2> QED
        BY <2>1, <2>2 DEF TypeOK
<1> QED
    BY <1>1, <1>2, <1>3, <1>4 DEF Writer

\* A seal thread's report keeps the queue typed.
LEMMA SetStType ==
    ASSUME TypeFlight, NEW i \in DOMAIN queue,
           NEW st \in {"writing", "named", "synced", "failed"}, SetSt(i, st)
    PROVE  queue' \in Seq(Job) /\ queue[i].seg \in Seg
<1>1. queue[i] \in Job
    BY DEF TypeFlight
<1>2. [queue[i] EXCEPT !.st = st] \in Job
    BY <1>1 DEF Job
<1>3. queue' = [queue EXCEPT ![i] = [queue[i] EXCEPT !.st = st]]
    BY DEF SetSt
<1> QED
    BY <1>1, <1>2, <1>3 DEF TypeFlight, Job

\* The seal threads' steps keep the types.
LEMMA TypeThread ==
    ASSUME TypeOK, NEW i \in DOMAIN queue,
           SealNames(i) \/ SealSyncs(i) \/ SealThreadFails(i)
    PROVE  TypeOK'
<1> USE LandingAssumption
<1>1. CASE SealNames(i)
    <2>a. queue' \in Seq(Job) /\ queue[i].seg \in Seg
        BY <1>1, SetStType DEF TypeOK, SealNames
    <2>1. TypeLog' /\ TypeFiles' /\ TypeSlots' /\ TypeState'
          /\ TypeWork' /\ TypeFlight' /\ TypeStep' /\ TypeRest'
        BY <1>1, <2>a
        DEF TypeOK, SealNames, log, segf, slots, state, work, flight, step,
            TypeLog, TypeFiles, TypeSlots, TypeState, TypeWork, TypeFlight, TypeStep, TypeRest
    <2>2. TypeFlags'
        BY <1>1, Zenon DEF TypeOK, SealNames, flight, step, TypeFlags
    <2> QED
        BY <2>1, <2>2 DEF TypeOK
<1>2. CASE SealSyncs(i)
    <2>a. queue' \in Seq(Job) /\ queue[i].seg \in Seg
        BY <1>2, SetStType DEF TypeOK, SealSyncs
    <2>1. TypeLog' /\ TypeFiles' /\ TypeSlots' /\ TypeState'
          /\ TypeWork' /\ TypeFlight' /\ TypeStep' /\ TypeRest'
        BY <1>2, <2>a
        DEF TypeOK, SealSyncs, log, segf, slots, state, work, flight, step,
            TypeLog, TypeFiles, TypeSlots, TypeState, TypeWork, TypeFlight, TypeStep, TypeRest
    <2>2. TypeFlags'
        BY <1>2, Zenon DEF TypeOK, SealSyncs, flight, step, TypeFlags
    <2> QED
        BY <2>1, <2>2 DEF TypeOK
<1>3. CASE SealThreadFails(i)
    <2>a. queue' \in Seq(Job) /\ queue[i].seg \in Seg
        BY <1>3, SetStType DEF TypeOK, SealThreadFails
    <2>1. TypeLog' /\ TypeFiles' /\ TypeSlots' /\ TypeState'
          /\ TypeWork' /\ TypeFlight' /\ TypeStep' /\ TypeRest'
        BY <1>3, <2>a
        DEF TypeOK, SealThreadFails, Fault, log, segf, slots, state, work, flight, step,
            TypeLog, TypeFiles, TypeSlots, TypeState, TypeWork, TypeFlight, TypeStep, TypeRest
    <2>2. TypeFlags'
        BY <1>3, Zenon DEF TypeOK, SealThreadFails, flight, step, TypeFlags
    <2> QED
        BY <2>1, <2>2 DEF TypeOK
<1> QED
    BY <1>1, <1>2, <1>3

\* The segment work's landings keep the types.
LEMMA TypeLanding ==
    ASSUME TypeOK,
           \/ LandReadable \/ WritePending \/ LandPending \/ LandFailed
           \/ LandNamed \/ LandDeferred \/ LandDurable
    PROVE  TypeOK'
<1> USE LandingAssumption
<1> USE DEF FrontIs
<1>1. CASE LandReadable
    <2>q. /\ Head(queue) \in Job /\ Tail(queue) \in Seq(Job)
          /\ Head(queue).seg \in Seg /\ Head(queue).end \in 0..MaxBatch
        BY <1>1, QueueType DEF TypeOK, LandReadable, Readable
    <2>1. TypeLog'
        BY <1>1, <2>q
        DEF TypeOK, LandReadable, Publish, Wedge, Errs, NoErr, Fault, Larger, log, TypeLog
    <2>2. TypeFiles'
        BY <1>1, <2>q
        DEF TypeOK, LandReadable, Publish, Wedge, Errs, NoErr, Fault, Larger, segf, TypeFiles
    <2>3. TypeSlots'
        BY <1>1, <2>q
        DEF TypeOK, LandReadable, Publish, Wedge, Errs, NoErr, Fault, Larger, slots, TypeSlots
    <2>4. TypeState'
        BY <1>1, <2>q
        DEF TypeOK, LandReadable, Publish, Wedge, Errs, NoErr, Fault, Larger, state, TypeState
    <2>5. TypeWork'
        BY <1>1, <2>q
        DEF TypeOK, LandReadable, Publish, Wedge, Errs, NoErr, Fault, Larger, work, TypeWork
    <2>6. TypeFlight'
        BY <1>1, <2>q
        DEF TypeOK, LandReadable, Publish, Wedge, Errs, NoErr, Fault, Larger, flight, TypeFlight
    <2>7. TypeStep'
        BY <1>1, <2>q
        DEF TypeOK, LandReadable, Publish, Wedge, Errs, NoErr, Fault, Larger, step, TypeStep
    <2>8. TypeRest'
        BY <1>1, <2>q
        DEF TypeOK, LandReadable, Publish, Wedge, Errs, NoErr, Fault, Larger, step, TypeRest
    <2>9. TypeFlags'
        BY <1>1, Zenon DEF TypeOK, LandReadable, Wedge, Errs, NoErr, flight, step, TypeFlags
    <2> QED
        BY <2>1, <2>2, <2>3, <2>4, <2>5, <2>6, <2>7, <2>8, <2>9 DEF TypeOK
<1>2. CASE WritePending
    <2>q. /\ Head(queue) \in Job /\ Tail(queue) \in Seq(Job)
          /\ Head(queue).seg \in Seg /\ Head(queue).end \in 0..MaxBatch
        BY <1>2, QueueType DEF TypeOK, WritePending, Readable
    <2>m. DEFINE m == [LiveSet(segs \cup {Head(queue).seg},
                               Larger(covered, Head(queue).end))
                         EXCEPT !.pending = {Head(queue).seg}]
    <2>b. Larger(covered, Head(queue).end) \in 0..MaxBatch
        BY <2>q DEF TypeOK, TypeWork, Larger
    <2>c. LiveSet(segs \cup {Head(queue).seg},
                  Larger(covered, Head(queue).end)) \in Manifest
        BY <2>b, <2>q, LiveSetType DEF TypeOK, TypeState
    <2>d. m \in Manifest
        BY <2>c, <2>q DEF Manifest
    <2>e. WriteSlotFails(m)
        BY <1>2 DEF WritePending, WriteSlotFails
    <2>1. TypeSlots'
        BY <2>d, <2>e, SlotWritten DEF TypeOK
    <2>2. TypeLog'
        BY <1>2, <2>q
        DEF TypeOK, WritePending, Wedge, Errs, NoErr, Fault, log, TypeLog
    <2>3. TypeFiles'
        BY <1>2, <2>q
        DEF TypeOK, WritePending, Wedge, Errs, NoErr, Fault, segf, TypeFiles
    <2>4. TypeState'
        BY <1>2, <2>q
        DEF TypeOK, WritePending, Wedge, Errs, NoErr, Fault, state, TypeState
    <2>5. TypeWork'
        BY <1>2, <2>q
        DEF TypeOK, WritePending, Wedge, Errs, NoErr, Fault, work, TypeWork
    <2>6. TypeFlight'
        BY <1>2, <2>q
        DEF TypeOK, WritePending, Wedge, Errs, NoErr, Fault, flight, TypeFlight
    <2>7. TypeStep'
        BY <1>2, <2>q
        DEF TypeOK, WritePending, Wedge, Errs, NoErr, Fault, step, TypeStep
    <2>8. TypeRest'
        BY <1>2, <2>q
        DEF TypeOK, WritePending, Wedge, Errs, NoErr, Fault, step, TypeRest
    <2>9. TypeFlags'
        BY <1>2, Zenon DEF TypeOK, WritePending, Wedge, Errs, NoErr, flight, step, TypeFlags
    <2> QED
        BY <2>1, <2>2, <2>3, <2>4, <2>5, <2>6, <2>7, <2>8, <2>9 DEF TypeOK
<1>3. CASE LandPending
    <2>q. /\ Head(queue) \in Job /\ Tail(queue) \in Seq(Job)
          /\ Head(queue).seg \in Seg /\ Head(queue).end \in 0..MaxBatch
        BY <1>3, QueueType DEF TypeOK, LandPending
    <2>b. mseq % 2 \in Slots
        BY DEF TypeOK, TypeWork, Slots
    <2>1. TypeSlots'
        BY <1>3, <2>b, SlotSynced DEF TypeOK, LandPending, TypeSlots
    <2>2. TypeLog'
        BY <1>3 DEF TypeOK, LandPending, Retire, Larger, TypeLog, TypeWork
    <2>3. TypeFiles'
        BY <1>3, <2>q
        DEF TypeOK, LandPending, Publish, Wedge, Errs, NoErr, Fault, Larger, Retire, segf, TypeFiles
    <2>4. TypeState'
        BY <1>3, <2>q
        DEF TypeOK, LandPending, Publish, Wedge, Errs, NoErr, Fault, Larger, Retire, state, TypeState
    <2>5. TypeWork'
        BY <1>3, <2>q
        DEF TypeOK, LandPending, Publish, Wedge, Errs, NoErr, Fault, Larger, Retire, work, TypeWork
    <2>6. TypeFlight'
        BY <1>3, <2>q
        DEF TypeOK, LandPending, Publish, Wedge, Errs, NoErr, Fault, Larger, Retire, flight, TypeFlight
    <2>7. TypeStep'
        BY <1>3, <2>q
        DEF TypeOK, LandPending, Publish, Wedge, Errs, NoErr, Fault, Larger, Retire, step, TypeStep
    <2>8. TypeRest'
        BY <1>3, <2>q
        DEF TypeOK, LandPending, Publish, Wedge, Errs, NoErr, Fault, Larger, Retire, step, TypeRest
    <2>9. TypeFlags'
        BY <1>3, Zenon DEF TypeOK, LandPending, Wedge, Errs, NoErr, flight, step, TypeFlags
    <2> QED
        BY <2>1, <2>2, <2>3, <2>4, <2>5, <2>6, <2>7, <2>8, <2>9 DEF TypeOK
<1>4. CASE LandFailed
    <2>q. /\ Head(queue) \in Job /\ Tail(queue) \in Seq(Job)
          /\ Head(queue).seg \in Seg /\ Head(queue).end \in 0..MaxBatch
        BY <1>4, QueueType DEF TypeOK, LandFailed
    <2>1. TypeLog' /\ TypeFiles' /\ TypeSlots' /\ TypeState'
          /\ TypeWork' /\ TypeFlight' /\ TypeStep' /\ TypeRest'
        BY <1>4, <2>q
        DEF TypeOK, LandFailed, Errs, log, segf, slots, state, work, flight, step,
            TypeLog, TypeFiles, TypeSlots, TypeState, TypeWork, TypeFlight, TypeStep, TypeRest
    <2>2. TypeFlags'
        BY <1>4, Zenon DEF TypeOK, LandFailed, Errs, flight, step, TypeFlags
    <2> QED
        BY <2>1, <2>2 DEF TypeOK
<1>5. CASE LandNamed
    <2>q. /\ Head(queue) \in Job /\ Tail(queue) \in Seq(Job)
          /\ Head(queue).seg \in Seg /\ Head(queue).end \in 0..MaxBatch
        BY <1>5, QueueType DEF TypeOK, LandNamed, Durable
    <2>1. TypeLog' /\ TypeFiles' /\ TypeSlots' /\ TypeState'
          /\ TypeWork' /\ TypeFlight' /\ TypeStep' /\ TypeRest'
        BY <1>5, <2>q
        DEF TypeOK, LandNamed, Larger, log, segf, slots, state, work, flight, step,
            TypeLog, TypeFiles, TypeSlots, TypeState, TypeWork, TypeFlight, TypeStep, TypeRest
    <2>2. TypeFlags'
        BY <1>5, Zenon DEF TypeOK, LandNamed, flight, step, TypeFlags
    <2> QED
        BY <2>1, <2>2 DEF TypeOK
<1>6. CASE LandDeferred
    <2>q. /\ Head(queue) \in Job /\ Tail(queue) \in Seq(Job)
          /\ Head(queue).seg \in Seg /\ Head(queue).end \in 0..MaxBatch
        BY <1>6, QueueType DEF TypeOK, LandDeferred, Durable
    <2>b. LiveSet(segs, covered) \in Manifest
        BY LiveSetType DEF TypeOK, TypeState, TypeWork
    <2>c. WriteSlotFails(LiveSet(segs, covered))
        BY <1>6 DEF LandDeferred, WriteSlotFails
    <2>d. LiveSet(segs, covered).seq % 2 \in Slots
        BY <2>b DEF Manifest, Slots
    <2>e. owed' = owed \/ owed' = {LiveSet(segs, covered).seq % 2}
        BY <1>6 DEF LandDeferred
    <2>1. TypeSlots'
        BY <2>b, <2>c, SlotWritten DEF TypeOK
    <2>2. TypeWork'
        BY <1>6, <2>q, <2>d, <2>e DEF TypeOK, LandDeferred, Larger, TypeWork
    <2>3. TypeLog'
        BY <1>6, <2>q
        DEF TypeOK, LandDeferred, Larger, Errs, NoErr, Fault, LiveSet, Slots, log, TypeLog
    <2>4. TypeFiles'
        BY <1>6, <2>q
        DEF TypeOK, LandDeferred, Larger, Errs, NoErr, Fault, LiveSet, Slots, segf, TypeFiles
    <2>5. TypeState'
        BY <1>6, <2>q
        DEF TypeOK, LandDeferred, Larger, Errs, NoErr, Fault, LiveSet, Slots, state, TypeState
    <2>6. TypeFlight'
        BY <1>6, <2>q
        DEF TypeOK, LandDeferred, Larger, Errs, NoErr, Fault, LiveSet, Slots, flight, TypeFlight
    <2>7. TypeStep'
        BY <1>6, <2>q
        DEF TypeOK, LandDeferred, Larger, Errs, NoErr, Fault, LiveSet, Slots, step, TypeStep
    <2>8. TypeRest'
        BY <1>6, <2>q
        DEF TypeOK, LandDeferred, Larger, Errs, NoErr, Fault, LiveSet, Slots, step, TypeRest
    <2>9. TypeFlags'
        BY <1>6, Zenon DEF TypeOK, LandDeferred, Errs, NoErr, flight, step, TypeFlags
    <2> QED
        BY <2>1, <2>2, <2>3, <2>4, <2>5, <2>6, <2>7, <2>8, <2>9 DEF TypeOK
<1>7. CASE LandDurable
    <2>q. /\ Head(queue) \in Job /\ Tail(queue) \in Seq(Job)
          /\ Head(queue).seg \in Seg /\ Head(queue).end \in 0..MaxBatch
        BY <1>7, QueueType DEF TypeOK, LandDurable, Durable
    <2>b. LiveSet(segs, covered) \in Manifest
        BY LiveSetType DEF TypeOK, TypeState, TypeWork
    <2>c. WriteSlotFails(LiveSet(segs, covered))
        BY <1>7 DEF LandDurable, WriteSlotFails
    <2>1. TypeSlots'
        BY <2>b, <2>c, SlotWritten DEF TypeOK
    <2>2. TypeLog' /\ TypeFiles' /\ TypeState' /\ TypeWork'
          /\ TypeFlight' /\ TypeStep' /\ TypeRest'
        BY <1>7, <2>q
        DEF TypeOK, LandDurable, log, segf, slots, state, work, flight, step,
            TypeLog, TypeFiles, TypeState, TypeWork, TypeFlight, TypeStep, TypeRest
    <2>3. TypeFlags'
        BY <1>7, Zenon DEF TypeOK, LandDurable, flight, step, TypeFlags
    <2> QED
        BY <2>1, <2>2, <2>3 DEF TypeOK
<1> QED
    BY <1>1, <1>2, <1>3, <1>4, <1>5, <1>6, <1>7

\* So do its publishes, its merges and the drain.
LEMMA TypeMaint ==
    ASSUME TypeOK,
           \/ PublishSync \/ PublishFails \/ StartMerge \/ MergeDone \/ LandMerge
           \/ DrainTaken \/ DrainJoins \/ DrainAnswer \/ SyncOwedSlot
    PROVE  TypeOK'
<1> USE LandingAssumption
<1>1. CASE PublishSync
    <2>b. mseq % 2 \in Slots
        BY DEF TypeOK, TypeWork, Slots
    <2>1. TypeSlots'
        BY <1>1, <2>b, SlotSynced DEF TypeOK, PublishSync, TypeSlots
    <2>2. TypeLog'
        BY <1>1 DEF TypeOK, PublishSync, Retire, Larger, TypeLog, TypeWork, TypeStep
    <2>3. TypeWork'
        BY <1>1 DEF TypeOK, PublishSync, Larger, TypeWork, TypeStep
    <2>4. TypeFiles'
        BY <1>1
        DEF TypeOK, PublishSync, segf, TypeFiles
    <2>5. TypeState'
        BY <1>1
        DEF TypeOK, PublishSync, state, TypeState
    <2>6. TypeFlight'
        BY <1>1
        DEF TypeOK, PublishSync, flight, TypeFlight
    <2>7. TypeStep'
        BY <1>1
        DEF TypeOK, PublishSync, step, TypeStep
    <2>8. TypeRest'
        BY <1>1
        DEF TypeOK, PublishSync, step, TypeRest
    <2>9. TypeFlags'
        BY <1>1, Zenon DEF TypeOK, PublishSync, flight, step, TypeFlags
    <2> QED
        BY <2>1, <2>2, <2>3, <2>4, <2>5, <2>6, <2>7, <2>8, <2>9 DEF TypeOK
<1>2. CASE PublishFails
    <2>1. TypeLog' /\ TypeFiles' /\ TypeSlots' /\ TypeState'
          /\ TypeWork' /\ TypeFlight' /\ TypeStep' /\ TypeRest'
        BY <1>2
        DEF TypeOK, PublishFails, Errs, Fault, log, segf, slots, state, work, flight, step,
            TypeLog, TypeFiles, TypeSlots, TypeState, TypeWork, TypeFlight, TypeStep, TypeRest
    <2>2. TypeFlags'
        BY <1>2, Zenon DEF TypeOK, PublishFails, Errs, flight, step, TypeFlags
    <2> QED
        BY <2>1, <2>2 DEF TypeOK
<1>3. CASE StartMerge
    <2>b. nextSeg \in Seg
        BY <1>3 DEF TypeOK, StartMerge, TypeFlight, Seg
    <2>1. TypeFlight'
        BY <1>3, <2>b DEF TypeOK, StartMerge, TypeFlight, TypeState
    <2>2. TypeFiles'
        BY <1>3, <2>b DEF TypeOK, StartMerge, TypeFiles, TypeState
    <2>3. TypeLog' /\ TypeSlots' /\ TypeState'
          /\ TypeWork' /\ TypeStep' /\ TypeRest'
        BY <1>3
        DEF TypeOK, StartMerge, log, segf, slots, state, work, flight, step,
            TypeLog, TypeSlots, TypeState, TypeWork, TypeStep, TypeRest
    <2>4. TypeFlags'
        BY <1>3, Zenon DEF TypeOK, StartMerge, flight, step, TypeFlags
    <2> QED
        BY <2>1, <2>2, <2>3, <2>4 DEF TypeOK
<1>4. CASE MergeDone
    <2>1. TypeLog' /\ TypeFiles' /\ TypeSlots' /\ TypeState'
          /\ TypeWork' /\ TypeFlight' /\ TypeStep' /\ TypeRest'
        BY <1>4
        DEF TypeOK, MergeDone, log, segf, slots, state, work, flight, step,
            TypeLog, TypeFiles, TypeSlots, TypeState, TypeWork, TypeFlight, TypeStep, TypeRest
    <2>2. TypeFlags'
        BY <1>4, Zenon DEF TypeOK, MergeDone, flight, step, TypeFlags
    <2> QED
        BY <2>1, <2>2 DEF TypeOK
<1>5. CASE LandMerge
    <2>1. TypeState'
        BY <1>5 DEF TypeOK, LandMerge, TypeState, TypeFlight
    <2>2. TypeSlots'
        <3>1. CASE UNCHANGED slots
            BY <3>1 DEF TypeOK, TypeSlots, slots
        <3>2. CASE WriteSlot(LiveSet(segs', covered))
            <4>1. LiveSet(segs', covered) \in Manifest
                BY <2>1, LiveSetType DEF TypeOK, TypeState, TypeWork
            <4> QED
                BY <3>2, <4>1, SlotWritten DEF TypeOK, WriteSlotFails
        <3> QED
            BY <1>5, <3>1, <3>2 DEF LandMerge
    <2>3. TypeStep'
        BY <1>5 DEF TypeOK, LandMerge, TypeStep, TypeFlight
    <2>4. TypeLog'
        BY <1>5
        DEF TypeOK, LandMerge, NoErr, Errs, Fault, NoMerge, log, TypeLog
    <2>5. TypeFiles'
        BY <1>5
        DEF TypeOK, LandMerge, NoErr, Errs, Fault, NoMerge, segf, TypeFiles
    <2>6. TypeWork'
        BY <1>5
        DEF TypeOK, LandMerge, NoErr, Errs, Fault, NoMerge, work, TypeWork
    <2>7. TypeFlight'
        BY <1>5
        DEF TypeOK, LandMerge, NoErr, Errs, Fault, NoMerge, flight, TypeFlight
    <2>8. TypeRest'
        BY <1>5
        DEF TypeOK, LandMerge, NoErr, Errs, Fault, NoMerge, step, TypeRest
    <2>9. TypeFlags'
        BY <1>5, Zenon DEF TypeOK, LandMerge, NoErr, Errs, flight, step, TypeFlags
    <2> QED
        BY <2>1, <2>2, <2>3, <2>4, <2>5, <2>6, <2>7, <2>8, <2>9 DEF TypeOK
<1>6. CASE DrainTaken
    <2>1. TypeLog' /\ TypeFiles' /\ TypeSlots' /\ TypeState'
          /\ TypeWork' /\ TypeFlight' /\ TypeStep' /\ TypeRest'
        BY <1>6
        DEF TypeOK, DrainTaken, log, segf, slots, state, work, flight, step,
            TypeLog, TypeFiles, TypeSlots, TypeState, TypeWork, TypeFlight, TypeStep, TypeRest
    <2>2. TypeFlags'
        BY <1>6, Zenon DEF TypeOK, DrainTaken, flight, step, TypeFlags
    <2> QED
        BY <2>1, <2>2 DEF TypeOK
<1>7. CASE DrainJoins
    <2>1. TypeLog' /\ TypeFiles' /\ TypeSlots' /\ TypeState'
          /\ TypeWork' /\ TypeFlight' /\ TypeStep' /\ TypeRest'
        BY <1>7
        DEF TypeOK, DrainJoins, log, segf, slots, state, work, flight, step,
            TypeLog, TypeFiles, TypeSlots, TypeState, TypeWork, TypeFlight, TypeStep, TypeRest
    <2>2. TypeFlags'
        BY <1>7, Zenon DEF TypeOK, DrainJoins, flight, step, TypeFlags
    <2> QED
        BY <2>1, <2>2 DEF TypeOK
<1>8. CASE DrainAnswer
    <2>1. TypeLog' /\ TypeFiles' /\ TypeSlots' /\ TypeState'
          /\ TypeWork' /\ TypeFlight' /\ TypeStep' /\ TypeRest'
        BY <1>8
        DEF TypeOK, DrainAnswer, log, segf, slots, state, work, flight, step,
            TypeLog, TypeFiles, TypeSlots, TypeState, TypeWork, TypeFlight, TypeStep, TypeRest
    <2>2. TypeFlags'
        BY <1>8, Zenon DEF TypeOK, DrainAnswer, flight, step, TypeFlags
    <2> QED
        BY <2>1, <2>2 DEF TypeOK
<1>9. CASE SyncOwedSlot
    <2>1. TypeSlots'
        BY <1>9, SlotSynced DEF TypeOK, SyncOwedSlot, TypeSlots, TypeWork
    <2>2. TypeLog'
        BY <1>9 DEF TypeOK, SyncOwedSlot, Retire, Larger, TypeLog, TypeWork
    <2>3. TypeFiles'
        BY <1>9
        DEF TypeOK, SyncOwedSlot, Fault, segf, TypeFiles
    <2>4. TypeState'
        BY <1>9
        DEF TypeOK, SyncOwedSlot, Fault, state, TypeState
    <2>5. TypeWork'
        BY <1>9
        DEF TypeOK, SyncOwedSlot, Fault, work, TypeWork
    <2>6. TypeFlight'
        BY <1>9
        DEF TypeOK, SyncOwedSlot, Fault, flight, TypeFlight
    <2>7. TypeStep'
        BY <1>9
        DEF TypeOK, SyncOwedSlot, Fault, step, TypeStep
    <2>8. TypeRest'
        BY <1>9
        DEF TypeOK, SyncOwedSlot, Fault, step, TypeRest
    <2>9. TypeFlags'
        BY <1>9, Zenon DEF TypeOK, SyncOwedSlot, flight, step, TypeFlags
    <2> QED
        BY <2>1, <2>2, <2>3, <2>4, <2>5, <2>6, <2>7, <2>8, <2>9 DEF TypeOK
<1> QED
    BY <1>1, <1>2, <1>3, <1>4, <1>5, <1>6, <1>7, <1>8, <1>9

\* Of the manifests in a set of slots that read whole the newest is one of them.
LEMMA NewestOf ==
    ASSUME TypeSlots, NEW ms \in SUBSET Valid, ms # {}
    PROVE  /\ Newest(ms) \in ms /\ Newest(ms) \in Manifest
           /\ \A n \in ms : n.seq <= Newest(ms).seq
<1>1. Valid \subseteq {slot[0].m, slot[1].m} /\ Valid \subseteq Manifest
    BY DEF Valid, TypeSlots, Slots, Content
<1>2. PICK a \in ms : TRUE
    OBVIOUS
<1>3. \E m \in ms : \A n \in ms : n.seq <= m.seq
    <2>1. \A n \in ms : n.seq \in Nat
        BY <1>1 DEF Manifest
    <2>2. CASE \E b \in ms : b.seq > a.seq
        <3>1. PICK b \in ms : b.seq > a.seq
            BY <2>2
        <3>2. ms \subseteq {a, b}
            BY <1>1, <3>1, <2>1
        <3> QED
            BY <3>1, <3>2, <2>1
    <2>3. CASE ~ \E b \in ms : b.seq > a.seq
        BY <2>1, <2>3
    <2> QED
        BY <2>2, <2>3
<1>4. Newest(ms) \in ms /\ \A n \in ms : n.seq <= Newest(ms).seq
    BY <1>3 DEF Newest
<1> QED
    BY <1>1, <1>4

\* The close, the failures and the open keep the types.
LEMMA TypeFails ==
    ASSUME TypeOK, Stop \/ Kill \/ PowerLoss \/ Opens
    PROVE  TypeOK'
<1> USE LandingAssumption
<1>f. ASSUME Forget
      PROVE  /\ TypeState' /\ TypeWork' /\ TypeFlight' /\ TypeStep' /\ TypeFlags'
             /\ holds' = holds /\ logSync' \in 0..MaxBatch
             /\ acked' = acked /\ phase' = "down" /\ asked' = "no"
    <2>1. merge' \in [in : SUBSET Seg, out : SUBSET Seg, done : BOOLEAN]
        BY <1>f DEF Forget, NoMerge
    <2>2. TypeFlags'
        BY <1>f, Zenon DEF Forget, TypeFlags
    <2> QED
        BY <1>f, <2>1, <2>2 DEF Forget, TypeState, TypeWork, TypeFlight, TypeStep
<1>1. CASE Stop
    <2>f. Forget
        BY <1>1 DEF Stop
    <2>1. TypeLog'
        BY <1>1, <1>f, <2>f DEF TypeOK, Stop, TypeLog, TypeWork, Retire, Larger, slots
    <2>2. TypeFiles'
        <3>1. \A j \in DOMAIN queue : queue[j].seg \in Seg
            <4>1. \A j \in DOMAIN queue : queue[j] \in Job
                BY DEF TypeOK, TypeFlight
            <4> QED
                BY <4>1 DEF Job
        <3>2. merge.out \subseteq Seg
            BY DEF TypeOK, TypeFlight
        <3> QED
            BY <1>1, <1>f, <2>f, <3>1, <3>2 DEF TypeOK, Stop, TypeFiles
    <2>3. TypeSlots'
        <3>1. LiveSet(segs, covered) \in Manifest
            BY LiveSetType DEF TypeOK, TypeState, TypeWork
        <3>2. [ok |-> TRUE, m |-> LiveSet(segs, covered)] \in Content
            BY <3>1 DEF Content
        <3>3. CASE \E i \in owed : SyncSlot(i) /\ UNCHANGED slot
            BY <3>3, SlotSynced DEF TypeOK, TypeSlots, TypeWork
        <3>4. CASE UNCHANGED slots
            BY <3>4 DEF TypeOK, TypeSlots, slots
        <3>5. CASE pending # {}
            <4>1. LiveSet(segs, covered).seq % 2 \in Slots
                BY <3>1 DEF Manifest, Slots
            <4> QED
                BY <1>1, <3>2, <3>5, <4>1 DEF TypeOK, Stop, TypeSlots
        <3> QED
            BY <1>1, <3>3, <3>4, <3>5 DEF Stop
    <2>4. TypeRest'
        BY <1>1, <1>f, <2>f DEF TypeOK, Stop, TypeRest
    <2> QED
        BY <1>f, <2>f, <2>1, <2>2, <2>3, <2>4 DEF TypeOK
<1>2. CASE Kill
    <2>f. Forget
        BY <1>2 DEF Kill
    <2>1. TypeLog' /\ TypeFiles' /\ TypeSlots'
        BY <1>2, <1>f, <2>f DEF TypeOK, Kill, TypeLog, TypeFiles, TypeSlots, slots
    <2>2. TypeRest'
        BY <1>2, <1>f, <2>f DEF TypeOK, Kill, Fault, TypeRest
    <2> QED
        BY <1>f, <2>f, <2>1, <2>2 DEF TypeOK
<1>3. CASE PowerLoss
    <2>f. Forget
        BY <1>3 DEF PowerLoss
    <2>1. TypeLog'
        BY <1>3, <1>f, <2>f DEF TypeOK, PowerLoss, TypeLog, Larger
    <2>2. TypeFiles'
        BY <1>3, <1>f, <2>f DEF TypeOK, PowerLoss, TypeFiles
    <2>3. TypeSlots'
        <3>1. slot' \in [Slots -> Content]
            BY <1>3 DEF TypeOK, PowerLoss, TypeSlots, Slots
        <3> QED
            BY <1>3, <3>1 DEF PowerLoss, TypeSlots
    <2>4. TypeRest'
        BY <1>3, <1>f, <2>f DEF TypeOK, PowerLoss, Fault, TypeRest
    <2> QED
        BY <1>f, <2>f, <2>1, <2>2, <2>3, <2>4 DEF TypeOK
<1>4. CASE Open
    <2>1. TypeFlags'
        BY <1>4, Zenon DEF TypeOK, Open, step, TypeFlags
    <2>2. TypeRest' /\ TypeStep'
        BY <1>4 DEF TypeOK, Open, step, TypeRest, TypeStep
    <2>3. CASE Refuses
        BY <1>4, <2>1, <2>2, <2>3
        DEF TypeOK, Open, log, segf, slots, TypeLog, TypeFiles, TypeSlots, TypeState,
            TypeWork, TypeFlight
    <2>4. CASE ~Refuses
        <3> DEFINE m == Newest(Candidates)
        <3>1. m \in Manifest
            <4>1. Candidates \in SUBSET Valid /\ Candidates # {}
                BY <2>4 DEF Candidates, Refuses
            <4> QED
                BY <4>1, NewestOf DEF TypeOK
        <3>2. /\ m.seq \in Nat /\ m.covered \in 0..MaxBatch
              /\ m.names \subseteq Seg
            BY <3>1 DEF Manifest
        <3>3. /\ segs' = m.names /\ covered' = m.covered
              /\ last' = IF last > walLow THEN Larger(last, m.covered) ELSE m.covered
              /\ mem' = (m.covered + 1)..last'
              /\ walLow' \in {m.covered, walLow} /\ logDur' \in {m.covered, logDur}
              /\ logSync' = last' /\ retireTo' = walLow'
              /\ nextSeg' \in 1..(MaxSeg + 1)
              /\ mseq' \in {m.seq, m.seq + 1}
              /\ \/ UNCHANGED slots
                 \/ WriteSlot([m EXCEPT !.seq = mseq', !.pending = {}])
            BY <1>4, <2>4 DEF Open
        <3> HIDE DEF m
        <3>a. mseq' \in Nat
            BY <3>2, <3>3
        <3>b. owed' = owed /\ pending' = pending
            BY <1>4 DEF Open
        <3>4. last' \in 0..MaxBatch
            BY <3>2, <3>3 DEF TypeOK, TypeLog, Larger
        <3>5. TypeLog'
            BY <3>2, <3>3, <3>4 DEF TypeOK, TypeLog
        <3>6. TypeFiles'
            BY <1>4, <2>4 DEF TypeOK, Open, TypeFiles
        <3>7. TypeSlots'
            <4>1. CASE UNCHANGED slots
                BY <4>1 DEF TypeOK, TypeSlots, slots
            <4>2. CASE WriteSlot([m EXCEPT !.seq = mseq', !.pending = {}])
                <5>1. [m EXCEPT !.seq = mseq', !.pending = {}] \in Manifest
                    BY <3>1, <3>a DEF Manifest
                <5> QED
                    BY <4>2, <5>1, SlotWritten DEF TypeOK, WriteSlotFails
            <4> QED
                BY <3>3, <4>1, <4>2
        <3>8. TypeState'
            BY <1>4, <3>2, <3>3, <3>4 DEF TypeOK, TypeState, Open, Batch
        <3>9. TypeWork'
            BY <3>2, <3>3, <3>5, <3>a, <3>b DEF TypeOK, TypeWork, TypeLog
        <3>10. TypeFlight'
            BY <1>4, <3>3 DEF TypeOK, TypeFlight, Open
        <3> QED
            BY <2>1, <2>2, <3>5, <3>6, <3>7, <3>8, <3>9, <3>10 DEF TypeOK
    <2> QED
        BY <2>3, <2>4
<1>5. CASE OpenSyncs
    <2>b. mseq % 2 \in Slots
        BY DEF TypeOK, TypeWork, Slots
    <2>1. TypeSlots'
        BY <1>5, <2>b, SlotSynced DEF TypeOK, OpenSyncs, TypeSlots
    <2>2. TypeLog' /\ TypeFiles' /\ TypeState' /\ TypeWork'
          /\ TypeFlight' /\ TypeStep' /\ TypeRest'
        BY <1>5
        DEF TypeOK, OpenSyncs, log, segf, slots, state, work, flight, step,
            TypeLog, TypeFiles, TypeState, TypeWork, TypeFlight, TypeStep, TypeRest
    <2>3. TypeFlags'
        BY <1>5, Zenon DEF TypeOK, OpenSyncs, flight, step, TypeFlags
    <2> QED
        BY <2>1, <2>2, <2>3 DEF TypeOK
<1> QED
    BY <1>1, <1>2, <1>3, <1>4, <1>5 DEF Opens

\* A step that changes nothing.
LEMMA TypeStutter == TypeOK /\ UNCHANGED vars => TypeOK'
<1> SUFFICES ASSUME TypeOK, UNCHANGED vars PROVE TypeOK'
    OBVIOUS
<1>1. TypeLog' /\ TypeFiles' /\ TypeSlots' /\ TypeState'
    BY DEF TypeOK, vars, log, segf, slots, state, TypeLog, TypeFiles, TypeSlots,
           TypeState
<1>2. TypeWork' /\ TypeFlight' /\ TypeStep' /\ TypeRest'
    BY DEF TypeOK, vars, work, flight, step, TypeWork, TypeFlight, TypeStep, TypeRest
<1>3. TypeFlags'
    BY Zenon DEF TypeOK, vars, flight, step, TypeFlags
<1> QED
    BY <1>1, <1>2, <1>3 DEF TypeOK

\* No operation, landing, failure or open of src/src/db.rs puts a value outside
\* its type into the state the segment work, the writer and the open share.
THEOREM TypeCorrect == Spec => []TypeOK
<1>1. ASSUME TypeOK, [Next]_vars PROVE TypeOK'
    <2>1. CASE Writer
        BY <1>1, <2>1, TypeWriter
    <2>2. CASE \E s \in Seg : Thread(s)
        BY <1>1, <2>2, TypeThread DEF Thread
    <2>3. CASE Maint
        BY <1>1, <2>3, TypeLanding, TypeMaint DEF Maint
    <2>4. CASE StartMerge \/ MergeDone
        BY <1>1, <2>4, TypeMaint
    <2>5. CASE Stop \/ Kill \/ PowerLoss \/ Opens
        BY <1>1, <2>5, TypeFails
    <2>6. CASE UNCHANGED vars
        BY <1>1, <2>6, TypeStutter
    <2> QED
        BY <1>1, <2>1, <2>2, <2>3, <2>4, <2>5, <2>6 DEF Next
<1> QED
    BY <1>1, TypeInit, PTL DEF Spec


-----------------------------------------------------------------------------
(* No manifest names a segment that is not yet durable: the rule that Maint's *)
(* two-phase landings, its merges and its publishes keep between them, and    *)
(* why it needs more than the guard of any one of them.                       *)

\* Where the rule holds: no pending names, and no fsync that returns an error
\* (Landing's runs show what each of the two does to it).
FsyncsReturn ==
    /\ ~Pending
    /\ "fsync" \notin Faults /\ "dirsync" \notin Faults

\* Without Options::manifest_pending no slot flags a name.
NoPending ==
    /\ pending = {} /\ mpc # "pend" /\ phase # "opening"
    /\ \A i \in Slots : /\ slot[i].m.pending = {}
                        /\ \A c \in device[i] : c.m.pending = {}

FileNames == fent \subseteq files

\* A segment id is allotted once: Shared::next_seg is past every one in use.
IdsUsed ==
    \A s \in segs \cup frozen \cup merge.in \cup merge.out \cup drop : s < nextSeg

\* The seals in flight: what each thread's report says of its files, that only
\* the front's table may have retired, and that no seal writes a segment some
\* other work is about.
JobInv(i) ==
    LET s == queue[i].seg IN
    /\ s < nextSeg
    /\ s \notin merge.in \cup merge.out \cup drop
    /\ i > 1 => s \in frozen
    /\ queue[i].st \in {"writing", "failed"} => s \in frozen
    /\ queue[i].st \in {"named", "synced"} => s \in files
    /\ queue[i].st = "synced" => s \in fdur
    /\ s \notin frozen => s \in fent
    /\ \A k \in 1..Len(queue) : k # i => queue[k].seg # s
QueueInv == \A i \in 1..Len(queue) : JobInv(i)

\* A merge in flight works on live segments into one that is not, and what a
\* publish is about to unlink is neither live nor a merge's; a live segment's
\* table has retired.
MergeInv ==
    /\ merge.in \subseteq segs /\ merge.out \cap segs = {}
    /\ drop \cap (segs \cup merge.in \cup merge.out) = {}
    /\ frozen \cap (segs \cup merge.out) = {}
    /\ merge.done => OnDevice(merge.out)

\* A live segment is durable, unless it is that of the seal between its phases.
SegsDurable ==
    \A s \in segs : s \in fent \cap fdur \/ (Between /\ s = Head(queue).seg)

\* The newest slot names durable segments, so that an open after a crash that
\* left the page cache standing does not bring others back.
SlotUp ==
    /\ OnDevice(Newest(Valid).names)
    /\ \A i \in Slots : slot[i].ok => slot[i].m.seq <= mseq
    /\ mpc = "sync" => Newest(Valid).names = segs
SlotDown ==
    \/ fent = files /\ fdur = files \ torn
    \/ OnDevice(Newest(Valid).names)
Idle == queue = <<>> /\ frozen = {} /\ drop = {} /\ merge = NoMerge /\ mpc = "idle"
SlotInv == (phase = "up" => SlotUp) /\ (phase = "down" => SlotDown /\ Idle)

DurableInv == /\ NoPending /\ FileNames /\ IdsUsed /\ QueueInv /\ MergeInv
              /\ SegsDurable /\ SlotInv

-----------------------------------------------------------------------------
\* Db::create's state.
LEMMA DurableInit == Init => DurableInv
<1> SUFFICES ASSUME Init PROVE DurableInv
    OBVIOUS
<1>1. NoPending
    BY DEF Init, NoPending, Blank, Slots
<1>2. FileNames /\ IdsUsed /\ QueueInv /\ MergeInv /\ SegsDurable
    BY DEF Init, FileNames, IdsUsed, QueueInv, MergeInv, SegsDurable, NoMerge
<1>3. SlotInv
    <2>1. Valid = {Blank}
        BY DEF Init, Valid, Slots
    <2>2. Newest(Valid) = Blank
        BY <2>1 DEF Newest, Blank
    <2> QED
        BY <2>2 DEF Init, SlotInv, SlotUp, OnDevice, Blank, Slots
<1> QED
    BY <1>1, <1>2, <1>3 DEF DurableInv

\* The slot a publish of the next sequence writes is then the newest.
LEMMA NewestWritten ==
    ASSUME TypeSlots, NEW m \in Manifest, WriteSlot(m),
           \A i \in Slots : slot[i].ok => slot[i].m.seq < m.seq
    PROVE  /\ Newest(Valid)' = m
           /\ \A i \in Slots : slot'[i].ok => slot'[i].m.seq <= m.seq
           /\ \A i \in Slots : slot'[i] = slot[i] \/ slot'[i].m = m
<1>1. m.seq % 2 \in Slots /\ m.seq \in Nat
    BY DEF Manifest, Slots
<1>2. slot' = [slot EXCEPT ![m.seq % 2] = [ok |-> TRUE, m |-> m]]
    BY DEF WriteSlot
<1>3. \A i \in Slots : slot[i].m.seq \in Nat
    BY DEF TypeSlots, Content, Manifest
<1>4. /\ \A i \in Slots : slot'[i].ok => slot'[i].m = m \/ slot'[i].m.seq < m.seq
      /\ \A i \in Slots : slot'[i] = slot[i] \/ slot'[i].m = m
    BY <1>1, <1>2 DEF TypeSlots
<1>a. \A i \in Slots : slot'[i].m.seq \in Nat
    BY <1>1, <1>2, <1>3 DEF TypeSlots
<1>5. m \in Valid'
    BY <1>1, <1>2 DEF Valid, TypeSlots
<1>6. \A n \in Valid' : n = m \/ (n.seq < m.seq /\ n.seq \in Nat)
    BY <1>4, <1>a DEF Valid
<1>7. Newest(Valid') = m
    <2>1. \A n \in Valid' : n.seq <= m.seq
        BY <1>1, <1>6
    <2>2. \A x \in Valid' : (\A n \in Valid' : n.seq <= x.seq) => x = m
        BY <1>1, <1>5, <1>6
    <2> QED
        BY <1>5, <2>1, <2>2 DEF Newest
<1> QED
    BY <1>1, <1>3, <1>4, <1>7


\* What a step leaves alone of the invariant.
LEMMA SlotFrame ==
    ASSUME SlotInv,
           UNCHANGED <<files, fent, fdur, torn, slot, mseq, mpc, segs, phase>>,
           phase = "up" \/ UNCHANGED <<queue, frozen, drop, merge>>
    PROVE  SlotInv'
<1>1. Valid' = Valid /\ Newest(Valid)' = Newest(Valid)
    BY DEF Valid, Newest
<1> QED
    BY <1>1 DEF SlotInv, SlotUp, SlotDown, OnDevice, Idle

\* A step that leaves the segment files, the slots and the segment work alone
\* keeps the whole of the invariant.
LEMMA DurableFrame ==
    ASSUME DurableInv,
           UNCHANGED <<files, fent, fdur, torn, slot, device, frozen, segs, queue,
                       merge, nextSeg, mseq, pending, mpc, drop, phase>>
    PROVE  DurableInv'
<1>1. SlotInv'
    BY SlotFrame DEF DurableInv
<1>2. NoPending' /\ FileNames' /\ IdsUsed' /\ MergeInv'
    BY DEF DurableInv, NoPending, FileNames, IdsUsed, MergeInv, OnDevice
<1>3. QueueInv' /\ SegsDurable'
    BY DEF DurableInv, QueueInv, JobInv, SegsDurable, Between, Landed
<1> QED
    BY <1>1, <1>2, <1>3 DEF DurableInv

\* The ids in use are ids.
LEMMA IdsTyped ==
    ASSUME TypeOK
    PROVE  segs \cup frozen \cup merge.in \cup merge.out \cup drop \subseteq Seg
<1>1. merge.in \subseteq Seg /\ merge.out \subseteq Seg
    BY DEF TypeOK, TypeFlight
<1> QED
    BY <1>1 DEF TypeOK, TypeState, TypeStep

\* The queue's seals and their ids.
LEMMA JobsTyped ==
    ASSUME TypeOK
    PROVE  /\ queue \in Seq(Job) /\ Len(queue) \in Nat
           /\ \A k \in 1..Len(queue) : queue[k] \in Job /\ queue[k].seg \in Seg
<1>1. queue \in Seq(Job) /\ Len(queue) \in Nat
    BY DEF TypeOK, TypeFlight
<1>2. \A k \in 1..Len(queue) : queue[k] \in Job
    BY <1>1
<1> QED
    BY <1>1, <1>2 DEF Job

\* A table handed to a seal thread.
LEMMA DurableHand ==
    ASSUME TypeOK, DurableInv, phase = "up", NEW d \in BOOLEAN, Hand(d),
           UNCHANGED <<files, fent, fdur, torn, slot, device, segs, merge, mseq,
                       pending, mpc, drop, phase>>
    PROVE  DurableInv'
<1>1. SlotInv'
    BY SlotFrame DEF DurableInv
<1>2. NoPending' /\ FileNames'
    BY DEF DurableInv, NoPending, FileNames
<1>3. nextSeg \in Nat /\ nextSeg' = nextSeg + 1 /\ frozen' = frozen \cup {nextSeg}
    BY DEF TypeOK, TypeFlight, Hand
<1>4. segs \cup frozen \cup merge.in \cup merge.out \cup drop \subseteq Nat
    BY IdsTyped DEF Seg
<1>5. IdsUsed'
    BY <1>3, <1>4 DEF DurableInv, IdsUsed
<1>a. MergeInv'
    BY <1>3, <1>4 DEF DurableInv, IdsUsed, MergeInv, OnDevice
<1>6. /\ queue \in Seq(Job) /\ Len(queue') = Len(queue) + 1 /\ Len(queue) \in Nat
      /\ \A k \in 1..Len(queue) : queue'[k] = queue[k] /\ queue[k].seg \in Nat
      /\ queue'[Len(queue) + 1].seg = nextSeg
      /\ queue'[Len(queue) + 1].st = "writing"
    BY JobsTyped DEF Hand, Seg
<1>7. QueueInv'
    <2> SUFFICES ASSUME NEW i \in 1..Len(queue') PROVE JobInv(i)'
        BY DEF QueueInv
    <2>1. CASE i \in 1..Len(queue)
        <3>1. JobInv(i)
            BY <2>1 DEF DurableInv, QueueInv
        <3>2. /\ queue'[i] = queue[i] /\ queue[i].seg \in Nat
              /\ queue[i].seg < nextSeg
            BY <1>6, <2>1, <3>1 DEF JobInv
        <3>3. \A k \in 1..Len(queue') : k # i => queue'[k].seg # queue[i].seg
            <4> SUFFICES ASSUME NEW k \in 1..Len(queue'), k # i
                         PROVE  queue'[k].seg # queue[i].seg
                OBVIOUS
            <4>1. CASE k \in 1..Len(queue)
                BY <1>6, <3>1, <4>1 DEF JobInv
            <4>2. CASE k = Len(queue) + 1
                BY <1>3, <1>6, <3>2, <4>2
            <4> QED
                BY <1>6, <4>1, <4>2
        <3> QED
            BY <1>3, <3>1, <3>2, <3>3 DEF JobInv
    <2>2. CASE i = Len(queue) + 1
        <3>1. \A k \in 1..Len(queue) : queue[k].seg < nextSeg
            BY DEF DurableInv, QueueInv, JobInv
        <3> QED
            BY <1>3, <1>4, <1>6, <2>2, <3>1 DEF DurableInv, IdsUsed, JobInv
    <2> QED
        BY <1>6, <2>1, <2>2
<1>8. SegsDurable'
    <2>1. CASE queue = <<>>
        BY <2>1 DEF DurableInv, SegsDurable, Between
    <2>2. CASE queue # <<>>
        <3>1. Len(queue) >= 1 /\ Head(queue') = Head(queue) /\ queue' # <<>>
              /\ Head(queue) = queue[1]
            BY <1>6, <2>2
        <3>2. queue[1].seg < nextSeg
            BY <1>6, <3>1 DEF DurableInv, QueueInv, JobInv
        <3> QED
            BY <1>3, <1>6, <3>1, <3>2 DEF DurableInv, SegsDurable, Between, Landed
    <2> QED
        BY <2>1, <2>2
<1> QED
    BY <1>1, <1>2, <1>5, <1>7, <1>8, <1>a DEF DurableInv

\* The writer's steps.
LEMMA DurableWriter == TypeOK /\ DurableInv /\ Writer => DurableInv'
<1> SUFFICES ASSUME TypeOK, DurableInv, Writer PROVE DurableInv'
    OBVIOUS
<1>1. CASE Write \/ SealRefused
    BY <1>1, DurableFrame
    DEF Write, SealRefused, segf, slots, state, work, flight, step
<1>2. CASE SealTable
    BY <1>2, DurableHand DEF SealTable, slots, work, step
<1>3. CASE Flush
    <2>1. CASE Hand(TRUE)
        BY <1>3, <2>1, DurableHand DEF Flush, slots, work, step
    <2>2. CASE UNCHANGED <<queue, holds, frozen, nextSeg, mem>>
        BY <1>3, <2>2, DurableFrame DEF Flush, slots, work, step
    <2> QED
        BY <1>3, <2>1, <2>2 DEF Flush
<1> QED
    BY <1>1, <1>2, <1>3 DEF Writer


\* A seal thread's report.
LEMMA DurableThread ==
    ASSUME FsyncsReturn, TypeOK, DurableInv, NEW i \in DOMAIN queue,
           SealNames(i) \/ SealSyncs(i) \/ SealThreadFails(i)
    PROVE  DurableInv'
<1>1. PICK st \in {"named", "synced", "failed"} :
        /\ SetSt(i, st)
        /\ st = "named" => SealNames(i)
        /\ st = "synced" => SealSyncs(i)
        /\ st = "failed" => SealThreadFails(i)
    BY DEF SealNames, SealSyncs, SealThreadFails
<1>2. UNCHANGED <<slot, device, frozen, segs, merge, nextSeg, mseq, pending, mpc,
                  drop, phase>>
    BY DEF SealNames, SealSyncs, SealThreadFails, slots, state, work, step
<1>3. /\ files \subseteq files' /\ fent' = fent /\ fdur \subseteq fdur'
      /\ st = "named" => queue[i].seg \in files'
      /\ st = "synced" => queue[i].seg \in fdur' /\ queue[i].st = "named"
      /\ st = "failed" => queue[i].st = "writing"
    BY <1>1 DEF SealNames, SealSyncs, SealThreadFails, FsyncsReturn, Fault, segf
<1>4. phase = "up"
    BY DEF SealNames, SealSyncs, SealThreadFails
<1>5. /\ queue \in Seq(Job) /\ i \in 1..Len(queue) /\ Len(queue') = Len(queue)
      /\ \A k \in 1..Len(queue) :
            /\ queue'[k].seg = queue[k].seg
            /\ k # i => queue'[k].st = queue[k].st
      /\ queue'[i].st = st
    <2>1. queue \in Seq(Job) /\ i \in 1..Len(queue)
        BY JobsTyped
    <2>2. queue[i] \in Job
        BY <2>1, JobsTyped
    <2>3. queue' = [queue EXCEPT ![i] = [queue[i] EXCEPT !.st = st]]
        BY <1>1 DEF SetSt
    <2> QED
        BY <2>1, <2>2, <2>3 DEF Job
<1>6. NoPending' /\ FileNames' /\ IdsUsed' /\ MergeInv'
    BY <1>2, <1>3 DEF DurableInv, NoPending, FileNames, IdsUsed, MergeInv, OnDevice
<1>7. QueueInv'
    <2> SUFFICES ASSUME NEW k \in 1..Len(queue) PROVE JobInv(k)'
        BY <1>5 DEF QueueInv
    <2>1. JobInv(k)
        BY DEF DurableInv, QueueInv
    <2>2. CASE k = i
        BY <1>2, <1>3, <1>5, <2>1, <2>2 DEF JobInv
    <2>3. CASE k # i
        BY <1>2, <1>3, <1>5, <2>1, <2>3 DEF JobInv
    <2> QED
        BY <2>2, <2>3
<1>8. SegsDurable'
    <2>1. queue # <<>> /\ queue' # <<>> /\ Head(queue').seg = Head(queue).seg
        BY <1>5
    <2> QED
        BY <1>2, <1>3, <2>1 DEF DurableInv, SegsDurable, Between, Landed
<1>9. SlotInv'
    <2>1. Valid' = Valid /\ Newest(Valid)' = Newest(Valid)
        BY <1>2 DEF Valid, Newest
    <2> QED
        BY <1>2, <1>3, <1>4, <2>1 DEF DurableInv, SlotInv, SlotUp, OnDevice
<1> QED
    BY <1>6, <1>7, <1>8, <1>9 DEF DurableInv

\* A seal leaving the front of the queue: those behind it are as they were.
LEMMA QueuePopped ==
    ASSUME TypeOK, QueueInv, queue # <<>>, queue' = Tail(queue), fdur \subseteq fdur',
           UNCHANGED <<files, fent, frozen, merge, drop, nextSeg>>
    PROVE  QueueInv' /\ ~Between'
<1>1. /\ Len(queue') = Len(queue) - 1 /\ Len(queue) >= 1
      /\ \A k \in 1..Len(queue') : queue'[k] = queue[k + 1]
    BY JobsTyped
<1>2. QueueInv'
    <2> SUFFICES ASSUME NEW k \in 1..Len(queue') PROVE JobInv(k)'
        BY DEF QueueInv
    <2>1. JobInv(k + 1) /\ k + 1 \in 1..Len(queue)
        BY <1>1, JobsTyped DEF QueueInv
    <2> QED
        BY <1>1, <2>1, JobsTyped DEF JobInv
<1>3. ~Between'
    <2> SUFFICES ASSUME queue' # <<>> PROVE Head(queue').seg \in frozen
        BY DEF Between, Landed
    <2>1. Len(queue) >= 2 /\ Head(queue') = queue[2]
        BY <1>1, JobsTyped
    <2>2. JobInv(2)
        BY <2>1, JobsTyped DEF QueueInv
    <2> QED
        BY <2>1, <2>2 DEF JobInv
<1> QED
    BY <1>2, <1>3

\* What is live is durable where no seal is between its phases, or the one that
\* is has been synced.
LEMMA LiveDurable ==
    ASSUME TypeOK, DurableInv, ~Between \/ Head(queue).st = "synced"
    PROVE  OnDevice(segs)
<1>1. CASE ~Between
    BY <1>1 DEF DurableInv, SegsDurable, OnDevice
<1>2. CASE Between /\ Head(queue).st = "synced"
    <2>1. Head(queue) = queue[1] /\ 1 \in 1..Len(queue)
        BY <1>2, JobsTyped DEF Between
    <2>2. JobInv(1)
        BY <2>1 DEF DurableInv, QueueInv
    <2> QED
        BY <1>2, <2>1, <2>2 DEF JobInv, Between, Landed, DurableInv, SegsDurable, OnDevice
<1> QED
    BY <1>1, <1>2


\* A publish of live segments that are durable.
LEMMA Published ==
    ASSUME TypeOK, DurableInv, phase = "up", NEW live \in SUBSET Seg,
           OnDevice(live), WriteSlot(LiveSet(live, covered)),
           mseq' = mseq + 1, segs' = live, UNCHANGED <<fent, fdur, phase>>
    PROVE  /\ SlotInv'
           /\ \A i \in Slots : /\ slot'[i].m.pending = {}
                               /\ \A c \in device'[i] : c.m.pending = {}
<1> DEFINE m == LiveSet(live, covered)
<1>1. m \in Manifest /\ m.seq = mseq + 1 /\ m.names = live /\ m.pending = {}
      /\ mseq \in Nat
    BY LiveSetType DEF TypeOK, TypeWork, LiveSet
<1>2. \A i \in Slots : slot[i].m.seq \in Nat
    BY DEF TypeOK, TypeSlots, Content, Manifest
<1>3. \A i \in Slots : slot[i].ok => slot[i].m.seq <= mseq
    BY DEF DurableInv, SlotInv, SlotUp
<1>4. \A i \in Slots : slot[i].ok => slot[i].m.seq < m.seq
    BY <1>1, <1>2, <1>3
<1>5. /\ Newest(Valid)' = m
      /\ \A i \in Slots : slot'[i].ok => slot'[i].m.seq <= m.seq
      /\ \A i \in Slots : slot'[i] = slot[i] \/ slot'[i].m = m
    <2> HIDE DEF m
    <2> QED
        BY <1>1, <1>4, NewestWritten DEF TypeOK, m
<1>6. SlotInv'
    BY <1>1, <1>5 DEF SlotInv, SlotUp, OnDevice
<1>7. m.seq % 2 \in Slots
    BY <1>1 DEF Slots
<1>8. \A i \in Slots : \A c \in device'[i] : c.m.pending = {}
    BY <1>1, <1>7 DEF WriteSlot, TypeOK, TypeSlots, Torn, Blank, DurableInv, NoPending
<1>9. \A i \in Slots : slot'[i].m.pending = {}
    BY <1>1, <1>5 DEF DurableInv, NoPending
<1> QED
    BY <1>6, <1>8, <1>9

\* The readable landing, with the error it may return.
LEMMA DurableReadable ==
    ASSUME FsyncsReturn, TypeOK, DurableInv, LandReadable
    PROVE  DurableInv'
<1> DEFINE h == Head(queue).seg
<1>1. /\ phase = "up" /\ mpc = "idle" /\ queue # <<>> /\ h \in frozen
      /\ Head(queue).st \in {"named", "synced"}
    BY DEF LandReadable, Readable, MaintReady, FrontIs, Landed
<1>2. /\ Head(queue) = queue[1] /\ 1 \in 1..Len(queue) /\ JobInv(1)
    BY <1>1, JobsTyped DEF DurableInv, QueueInv
<1>3. UNCHANGED <<files, torn, slot, device, mseq, pending, merge, nextSeg, mpc,
                  drop, phase>>
    BY DEF LandReadable, slots
<1>4. OnDevice(segs)
    BY <1>1, LiveDurable DEF Between, Landed
<1>5. Valid' = Valid /\ Newest(Valid)' = Newest(Valid)
    BY <1>3 DEF Valid, Newest
<1>6. CASE /\ Publish(Head(queue)) /\ fent' = files
           /\ UNCHANGED <<queue, fdur>>
    <2>1. /\ segs' = segs \cup {h} /\ frozen' = frozen \ {h} /\ h \in files
          /\ h < nextSeg /\ h \notin merge.in \cup merge.out \cup drop
          /\ fent \subseteq fent'
        BY <1>1, <1>2, <1>6 DEF Publish, JobInv, DurableInv, FileNames
    <2>2. NoPending' /\ FileNames' /\ IdsUsed'
        BY <1>3, <1>6, <2>1 DEF DurableInv, NoPending, FileNames, IdsUsed
    <2>3. MergeInv'
        BY <1>3, <1>6, <2>1 DEF DurableInv, MergeInv, OnDevice
    <2>4. QueueInv'
        <3> SUFFICES ASSUME NEW k \in 1..Len(queue) PROVE JobInv(k)'
            BY <1>6 DEF QueueInv
        <3>1. JobInv(k)
            BY DEF DurableInv, QueueInv
        <3>2. CASE k = 1
            BY <1>1, <1>2, <1>3, <1>6, <2>1, <3>1, <3>2 DEF JobInv
        <3>3. CASE k # 1
            <4>1. queue[k].seg # h /\ queue[k].seg \in frozen'
                BY <1>2, <2>1, <3>1, <3>3, JobsTyped DEF JobInv
            <4> QED
                BY <1>3, <1>6, <2>1, <3>1, <4>1 DEF JobInv
        <3> QED
            BY <3>2, <3>3
    <2>5. SegsDurable'
        BY <1>1, <1>4, <1>6, <2>1 DEF SegsDurable, OnDevice, Between, Landed
    <2>6. SlotInv'
        BY <1>1, <1>3, <1>5, <1>6, <2>1 DEF DurableInv, SlotInv, SlotUp, OnDevice
    <2> QED
        BY <2>2, <2>3, <2>4, <2>5, <2>6 DEF DurableInv
<1>7. CASE Wedge /\ UNCHANGED <<segs, frozen, covered, fent>>
    <2>1. queue' = Tail(queue) /\ fdur \subseteq fdur'
        BY <1>7 DEF Wedge
    <2>2. QueueInv' /\ ~Between'
        BY <1>1, <1>3, <1>7, <2>1, QueuePopped DEF DurableInv
    <2>3. NoPending' /\ FileNames' /\ IdsUsed' /\ MergeInv'
        BY <1>3, <1>7, <2>1 DEF DurableInv, NoPending, FileNames, IdsUsed, MergeInv, OnDevice
    <2>4. SegsDurable'
        BY <1>4, <1>7, <2>1 DEF SegsDurable, OnDevice
    <2>5. SlotInv'
        BY <1>1, <1>3, <1>5, <1>7, <2>1 DEF DurableInv, SlotInv, SlotUp, OnDevice
    <2> QED
        BY <2>2, <2>3, <2>4, <2>5 DEF DurableInv
<1> QED
    BY <1>6, <1>7 DEF LandReadable, FsyncsReturn, Fault

\* A landing whose thread returned an error: before its names, since its fsyncs
\* return none.
LEMMA DurableFailed ==
    ASSUME TypeOK, DurableInv, LandFailed
    PROVE  DurableInv'
<1>1. /\ queue # <<>> /\ Head(queue).st = "failed" /\ queue' = Tail(queue)
      /\ phase = "up"
    BY DEF LandFailed, FrontIs, MaintReady
<1>2. UNCHANGED <<files, fent, fdur, torn, slot, device, frozen, segs, merge,
                  nextSeg, mseq, pending, mpc, drop, phase>>
    BY DEF LandFailed, segf, slots, state, work
<1>3. Head(queue) = queue[1] /\ 1 \in 1..Len(queue) /\ JobInv(1)
    BY <1>1, JobsTyped DEF DurableInv, QueueInv
<1>4. ~Between
    BY <1>1, <1>3 DEF JobInv, Between, Landed
<1>5. QueueInv' /\ ~Between'
    BY <1>1, <1>2, QueuePopped DEF DurableInv
<1>6. NoPending' /\ FileNames' /\ IdsUsed' /\ MergeInv'
    BY <1>2 DEF DurableInv, NoPending, FileNames, IdsUsed, MergeInv, OnDevice
<1>7. SegsDurable'
    BY <1>2, <1>4 DEF DurableInv, SegsDurable
<1>8. SlotInv'
    BY <1>1, <1>2, SlotFrame DEF DurableInv
<1> QED
    BY <1>5, <1>6, <1>7, <1>8 DEF DurableInv

\* The durable landing, its slot's sync deferred or not, or failed.
LEMMA DurableLanding ==
    ASSUME TypeOK, DurableInv, LandDeferred \/ LandDurable
    PROVE  DurableInv' /\ OnDevice(segs)
<1>1. /\ phase = "up" /\ mpc = "idle" /\ queue # <<>> /\ Head(queue).st = "synced"
      /\ mseq' = mseq + 1 /\ queue' = Tail(queue)
    BY DEF LandDeferred, LandDurable, Durable, MaintReady, FrontIs
<1>2. /\ UNCHANGED <<files, fent, fdur, torn, frozen, segs, merge, nextSeg,
                     pending, drop, phase>>
      /\ mpc' \in {"idle", "sync"} /\ (mpc' = "sync" => LandDurable)
    BY <1>1 DEF LandDeferred, LandDurable, segf, state
<1>3. OnDevice(segs)
    BY <1>1, LiveDurable
<1>4. QueueInv' /\ ~Between'
    BY <1>1, <1>2, QueuePopped DEF DurableInv
<1>5. FileNames' /\ IdsUsed' /\ MergeInv'
    BY <1>2 DEF DurableInv, FileNames, IdsUsed, MergeInv, OnDevice
<1>6. SegsDurable'
    BY <1>2, <1>3 DEF SegsDurable, OnDevice
<1>7. CASE WriteSlot(LiveSet(segs, covered))
    <2>1. segs \in SUBSET Seg
        BY DEF TypeOK, TypeState
    <2>2. /\ SlotInv'
          /\ \A i \in Slots : /\ slot'[i].m.pending = {}
                              /\ \A c \in device'[i] : c.m.pending = {}
        BY <1>1, <1>2, <1>3, <1>7, <2>1, Published
    <2>3. NoPending'
        BY <1>2, <2>2 DEF DurableInv, NoPending
    <2> QED
        BY <1>3, <1>4, <1>5, <1>6, <2>2, <2>3 DEF DurableInv
<1>8. CASE UNCHANGED slots /\ LandDeferred
    <2>1. UNCHANGED <<slot, device, mpc>> /\ mseq \in Nat
        BY <1>8 DEF LandDeferred, slots, TypeOK, TypeWork
    <2>2. Valid' = Valid /\ Newest(Valid)' = Newest(Valid)
        BY <2>1 DEF Valid, Newest
    <2>3. \A i \in Slots : slot[i].m.seq \in Nat
        BY DEF TypeOK, TypeSlots, Content, Manifest
    <2>4. SlotInv'
        BY <1>1, <1>2, <2>1, <2>2, <2>3 DEF DurableInv, SlotInv, SlotUp, OnDevice
    <2>5. NoPending'
        BY <1>2, <2>1 DEF DurableInv, NoPending
    <2> QED
        BY <1>3, <1>4, <1>5, <1>6, <2>4, <2>5 DEF DurableInv
<1> QED
    BY <1>7, <1>8 DEF LandDeferred, LandDurable, WriteSlotFails


\* A publish's fsync, and the unlinks behind it, or its error.
LEMMA DurablePublish ==
    ASSUME TypeOK, DurableInv, PublishSync \/ PublishFails
    PROVE  DurableInv'
<1>1. phase = "up" /\ mpc = "sync" /\ mpc' = "idle" /\ drop' = {}
    BY DEF PublishSync, PublishFails
<1>2. UNCHANGED <<slot, frozen, segs, queue, merge, nextSeg, mseq, phase>>
    BY DEF PublishSync, PublishFails, slots, state, work, flight
<1>3. \/ UNCHANGED <<files, fent, fdur>>
      \/ files' = files \ drop /\ fent' = fent \ drop /\ fdur' = fdur \ drop
    BY DEF PublishSync, PublishFails, segf
<1>4. NoPending'
    <2>1. pending' = {}
        BY DEF PublishSync, PublishFails, work, DurableInv, NoPending
    <2>2. mseq % 2 \in Slots
        BY DEF TypeOK, TypeWork, Slots
    <2>3. \A i \in Slots : device'[i] = device[i] \/ device'[i] = {slot[i]}
        BY <2>2 DEF PublishSync, PublishFails, slots, SyncSlot, TypeOK, TypeSlots
    <2> QED
        BY <1>1, <1>2, <2>1, <2>3 DEF DurableInv, NoPending
<1>5. FileNames' /\ IdsUsed'
    BY <1>1, <1>2, <1>3 DEF DurableInv, FileNames, IdsUsed
<1>6. MergeInv'
    BY <1>1, <1>2, <1>3 DEF DurableInv, MergeInv, OnDevice
<1>7. QueueInv'
    <2> SUFFICES ASSUME NEW k \in 1..Len(queue) PROVE JobInv(k)'
        BY <1>2 DEF QueueInv
    <2>1. JobInv(k)
        BY DEF DurableInv, QueueInv
    <2> QED
        BY <1>1, <1>2, <1>3, <2>1 DEF JobInv
<1>8. SegsDurable'
    BY <1>2, <1>3 DEF DurableInv, SegsDurable, MergeInv, Between, Landed
<1>9. SlotInv'
    <2>1. Valid' = Valid /\ Newest(Valid)' = Newest(Valid)
        BY <1>2 DEF Valid, Newest
    <2>2. Newest(Valid).names = segs /\ OnDevice(segs)
        BY <1>1 DEF DurableInv, SlotInv, SlotUp
    <2>3. OnDevice(segs)'
        BY <1>2, <1>3, <2>2 DEF DurableInv, MergeInv, OnDevice
    <2> QED
        BY <1>1, <1>2, <2>1, <2>2, <2>3 DEF DurableInv, SlotInv, SlotUp, OnDevice
<1> QED
    BY <1>4, <1>5, <1>6, <1>7, <1>8, <1>9 DEF DurableInv

\* A merge begun, and its thread's return.
LEMMA DurableMerge ==
    ASSUME TypeOK, DurableInv, StartMerge \/ MergeDone
    PROVE  DurableInv'
<1>1. phase = "up" /\ UNCHANGED <<slot, device, frozen, segs, queue, mseq, pending,
                                  mpc, drop, phase>>
    BY DEF StartMerge, MergeDone, MaintReady, slots, state, work, step
<1>2. NoPending'
    BY <1>1 DEF DurableInv, NoPending
<1>3. Valid' = Valid /\ Newest(Valid)' = Newest(Valid)
    BY <1>1 DEF Valid, Newest
<1>4. nextSeg \in Nat
    BY DEF TypeOK, TypeFlight
<1>5. segs \cup frozen \cup merge.in \cup merge.out \cup drop \subseteq Nat
    BY IdsTyped DEF Seg
<1>6. \A k \in 1..Len(queue) : queue[k].seg \in Nat /\ JobInv(k)
    BY JobsTyped DEF Seg, DurableInv, QueueInv
<1>7. CASE StartMerge
    <2>1. PICK in \in SUBSET segs :
            merge' = [in |-> in, out |-> {nextSeg}, done |-> FALSE]
        BY <1>7 DEF StartMerge
    <2>2. merge'.in = in /\ merge'.out = {nextSeg} /\ ~merge'.done
        BY <2>1
    <2>3. UNCHANGED <<files, fent, fdur, torn>> /\ nextSeg' = nextSeg + 1
          /\ nextSeg \notin segs \cup frozen \cup drop
        BY <1>4, <1>5, <1>7 DEF StartMerge, DurableInv, IdsUsed
    <2>4. FileNames' /\ MergeInv'
        BY <1>1, <2>1, <2>2, <2>3 DEF DurableInv, FileNames, MergeInv, OnDevice
    <2>5. IdsUsed'
        BY <1>1, <1>4, <1>5, <2>1, <2>2, <2>3 DEF DurableInv, IdsUsed
    <2>6. QueueInv'
        <3> SUFFICES ASSUME NEW k \in 1..Len(queue) PROVE JobInv(k)'
            BY <1>1 DEF QueueInv
        <3>1. queue[k].seg < nextSeg /\ queue[k].seg \in Nat
            BY <1>6 DEF JobInv
        <3>2. queue[k].seg \notin in
            <4>1. CASE k = 1
                <5>1. queue[1] = Head(queue) /\ queue # <<>>
                    BY <4>1, JobsTyped
                <5>2. queue[1].seg \in frozen
                    BY <1>7, <5>1 DEF StartMerge, Between, Landed
                <5> QED
                    BY <4>1, <5>2 DEF DurableInv, MergeInv
            <4>2. CASE k # 1
                BY <1>6, <4>2, JobsTyped DEF JobInv, DurableInv, MergeInv
            <4> QED
                BY <4>1, <4>2
        <3> QED
            BY <1>1, <1>4, <1>6, <2>2, <2>3, <3>1, <3>2 DEF JobInv
    <2>7. SegsDurable'
        BY <1>1, <2>3 DEF DurableInv, SegsDurable, Between, Landed
    <2>8. SlotInv'
        BY <1>1, <2>3, SlotFrame DEF DurableInv
    <2> QED
        BY <1>2, <2>4, <2>5, <2>6, <2>7, <2>8 DEF DurableInv
<1>8. CASE MergeDone
    <2>1. /\ merge'.in = merge.in /\ merge'.out = merge.out /\ nextSeg' = nextSeg
          /\ files' = files \cup merge.out /\ fdur' = fdur \cup merge.out
          /\ fent' = files'
        <3>1. merge \in [in : SUBSET Seg, out : SUBSET Seg, done : BOOLEAN]
            BY DEF TypeOK, TypeFlight
        <3> QED
            BY <1>8, <3>1 DEF MergeDone
    <2>2. files \subseteq files' /\ fent \subseteq fent' /\ fdur \subseteq fdur'
        BY <2>1 DEF DurableInv, FileNames
    <2>3. FileNames' /\ IdsUsed' /\ MergeInv'
        BY <1>1, <2>1 DEF DurableInv, FileNames, IdsUsed, MergeInv, OnDevice
    <2>4. QueueInv'
        <3> SUFFICES ASSUME NEW k \in 1..Len(queue) PROVE JobInv(k)'
            BY <1>1 DEF QueueInv
        <3> QED
            BY <1>1, <1>6, <2>1, <2>2 DEF JobInv
    <2>5. SegsDurable'
        BY <1>1, <2>2 DEF DurableInv, SegsDurable, Between, Landed
    <2>6. SlotInv'
        BY <1>1, <1>3, <2>2 DEF DurableInv, SlotInv, SlotUp, OnDevice
    <2> QED
        BY <1>2, <2>3, <2>4, <2>5, <2>6 DEF DurableInv
<1> QED
    BY <1>7, <1>8

\* A merge landed, up to its publish's fsync, or its error.
LEMMA DurableMerged ==
    ASSUME TypeOK, DurableInv, LandMerge
    PROVE  DurableInv' /\ OnDevice((segs \ merge.in) \cup merge.out)
<1>1. /\ phase = "up" /\ mpc = "idle" /\ merge.done /\ ~Between /\ merge' = NoMerge
      /\ UNCHANGED <<files, fent, fdur, torn, frozen, queue, pending, nextSeg, phase>>
    BY DEF LandMerge, MaintReady, segf
<1>2. merge'.in = {} /\ merge'.out = {} /\ ~merge'.done
    BY <1>1 DEF NoMerge
<1>3. OnDevice(segs) /\ OnDevice(merge.out)
    BY <1>1, LiveDurable DEF DurableInv, MergeInv
<1>4. OnDevice((segs \ merge.in) \cup merge.out)
    BY <1>3 DEF OnDevice
<1>5. FileNames' /\ ~Between'
    BY <1>1 DEF DurableInv, FileNames, Between, Landed
<1>6. CASE /\ segs' = (segs \ merge.in) \cup merge.out
           /\ WriteSlot(LiveSet(segs', covered))
           /\ mseq' = mseq + 1
           /\ drop' = merge.in /\ mpc' = "sync"
    <2>1. segs' \in SUBSET Seg
        BY <1>6, IdsTyped
    <2>2. /\ SlotInv'
          /\ \A i \in Slots : /\ slot'[i].m.pending = {}
                              /\ \A c \in device'[i] : c.m.pending = {}
        <3>1. OnDevice(segs')
            BY <1>4, <1>6
        <3> QED
            BY <1>1, <1>6, <2>1, <3>1, Published
    <2>3. NoPending' /\ IdsUsed' /\ MergeInv'
        BY <1>1, <1>2, <1>6, <2>2 DEF DurableInv, NoPending, IdsUsed, MergeInv
    <2>4. QueueInv'
        <3> SUFFICES ASSUME NEW k \in 1..Len(queue) PROVE JobInv(k)'
            BY <1>1 DEF QueueInv
        <3>1. JobInv(k)
            BY DEF DurableInv, QueueInv
        <3> QED
            BY <1>1, <1>2, <1>6, <3>1 DEF JobInv
    <2>5. SegsDurable'
        BY <1>1, <1>4, <1>6 DEF SegsDurable, OnDevice
    <2> QED
        BY <1>4, <1>5, <2>2, <2>3, <2>4, <2>5 DEF DurableInv
<1>7. CASE UNCHANGED <<segs, slots, mseq, drop, mpc>>
    <2>1. NoPending' /\ IdsUsed' /\ MergeInv'
        BY <1>1, <1>2, <1>7 DEF DurableInv, NoPending, IdsUsed, MergeInv, slots
    <2>2. QueueInv'
        <3> SUFFICES ASSUME NEW k \in 1..Len(queue) PROVE JobInv(k)'
            BY <1>1 DEF QueueInv
        <3>1. JobInv(k)
            BY DEF DurableInv, QueueInv
        <3> QED
            BY <1>1, <1>2, <1>7, <3>1 DEF JobInv
    <2>3. SegsDurable'
        BY <1>1, <1>3, <1>7 DEF SegsDurable, OnDevice
    <2>4. SlotInv'
        BY <1>1, <1>7, SlotFrame DEF DurableInv, slots
    <2> QED
        BY <1>4, <1>5, <2>1, <2>2, <2>3, <2>4 DEF DurableInv
<1> QED
    BY <1>6, <1>7 DEF LandMerge


\* The drain, and the slot synced behind its answer.
LEMMA DurableDrain ==
    ASSUME TypeOK, DurableInv,
           DrainTaken \/ DrainJoins \/ DrainAnswer \/ SyncOwedSlot
    PROVE  DurableInv'
<1>1. CASE DrainTaken \/ DrainJoins
    BY <1>1, DurableFrame
    DEF DrainTaken, DrainJoins, segf, slots, state, work, flight, step
<1>2. CASE DrainAnswer \/ SyncOwedSlot
    <2>1. /\ UNCHANGED <<files, fent, fdur, torn, slot, frozen, segs, queue, merge,
                         nextSeg, mseq, pending, drop, phase>>
          /\ mpc' \in {"idle", "owed"} /\ phase = "up"
        BY <1>2 DEF DrainAnswer, SyncOwedSlot, MaintReady, segf, slots, state, work, flight
    <2>2. \A i \in Slots : device'[i] = device[i] \/ device'[i] = {slot[i]}
        BY <1>2 DEF DrainAnswer, SyncOwedSlot, SyncSlot, slots, TypeOK, TypeSlots,
                    TypeWork
    <2>3. NoPending'
        BY <2>1, <2>2 DEF DurableInv, NoPending
    <2>4. FileNames' /\ IdsUsed' /\ MergeInv' /\ QueueInv' /\ SegsDurable'
        BY <2>1 DEF DurableInv, FileNames, IdsUsed, MergeInv, OnDevice, QueueInv,
                    JobInv, SegsDurable, Between, Landed
    <2>5. Valid' = Valid /\ Newest(Valid)' = Newest(Valid)
        BY <2>1 DEF Valid, Newest
    <2>6. SlotInv'
        BY <2>1, <2>5 DEF DurableInv, SlotInv, SlotUp, OnDevice
    <2> QED
        BY <2>3, <2>4, <2>6 DEF DurableInv
<1> QED
    BY <1>1, <1>2

\* The process gone: nothing is live or in flight.
LEMMA DurableForget ==
    ASSUME Forget, FileNames', SlotDown',
           \A i \in Slots : /\ slot'[i].m.pending = {}
                            /\ \A c \in device'[i] : c.m.pending = {}
    PROVE  DurableInv'
<1>1. merge'.in = {} /\ merge'.out = {} /\ ~merge'.done
    BY DEF Forget, NoMerge
<1>2. NoPending' /\ SlotInv'
    BY DEF Forget, NoPending, SlotInv, Idle
<1>3. IdsUsed' /\ MergeInv' /\ QueueInv' /\ SegsDurable'
    BY <1>1 DEF Forget, IdsUsed, MergeInv, QueueInv, SegsDurable
<1> QED
    BY <1>2, <1>3 DEF DurableInv

\* The close and the failures.
LEMMA DurableFails ==
    ASSUME TypeOK, DurableInv, Stop \/ Kill \/ PowerLoss
    PROVE  DurableInv'
<1>1. CASE Stop
    <2>1. /\ phase = "up" /\ pending = {} /\ fent' = fent /\ slot' = slot
          /\ files \subseteq files' /\ fdur \subseteq fdur'
        BY <1>1 DEF Stop, MaintReady, slots, DurableInv, NoPending
    <2>2. \A i \in Slots : device'[i] = device[i] \/ device'[i] = {slot[i]}
        BY <1>1, <2>1 DEF Stop, SyncSlot, slots, TypeOK, TypeSlots, TypeWork
    <2>3. Valid' = Valid /\ Newest(Valid)' = Newest(Valid)
        BY <2>1 DEF Valid, Newest
    <2>4. SlotDown'
        BY <2>1, <2>3 DEF DurableInv, SlotInv, SlotUp, SlotDown, OnDevice
    <2>5. FileNames'
        BY <2>1 DEF DurableInv, FileNames
    <2>6. \A i \in Slots : /\ slot'[i].m.pending = {}
                           /\ \A c \in device'[i] : c.m.pending = {}
        BY <2>1, <2>2 DEF DurableInv, NoPending
    <2>7. Forget
        BY <1>1 DEF Stop
    <2> QED
        BY <2>4, <2>5, <2>6, <2>7, DurableForget
<1>2. CASE Kill
    <2>1. /\ phase = "up" /\ UNCHANGED <<files, fent, fdur, torn, slot, device>>
        BY <1>2 DEF Kill, slots, DurableInv, NoPending
    <2>2. Valid' = Valid /\ Newest(Valid)' = Newest(Valid)
        BY <2>1 DEF Valid, Newest
    <2>3. SlotDown' /\ FileNames'
        BY <2>1, <2>2 DEF DurableInv, SlotInv, SlotUp, SlotDown, OnDevice, FileNames
    <2>4. \A i \in Slots : /\ slot'[i].m.pending = {}
                           /\ \A c \in device'[i] : c.m.pending = {}
        BY <2>1 DEF DurableInv, NoPending
    <2>5. Forget
        BY <1>2 DEF Kill
    <2> QED
        BY <2>3, <2>4, <2>5, DurableForget
<1>3. CASE PowerLoss
    <2>1. fent' = files' /\ fdur' = files' \ torn'
        BY <1>3 DEF PowerLoss
    <2>2. \A i \in Slots : slot'[i] \in device[i] /\ device'[i] = {slot'[i]}
        BY <1>3 DEF PowerLoss, Slots
    <2>3. \A i \in Slots : /\ slot'[i].m.pending = {}
                           /\ \A c \in device'[i] : c.m.pending = {}
        BY <2>2 DEF DurableInv, NoPending
    <2>4. SlotDown' /\ FileNames'
        BY <2>1 DEF SlotDown, FileNames
    <2>5. Forget
        BY <1>3 DEF PowerLoss
    <2> QED
        BY <2>3, <2>4, <2>5, DurableForget
<1> QED
    BY <1>1, <1>2, <1>3

\* Where no slot flags a name the open skips none and rewrites none.
LEMMA NothingSkipped ==
    ASSUME TypeSlots, NoPending, ~Refuses
    PROVE  /\ Candidates = Valid /\ Newest(Valid) \in Valid
           /\ ~Skipped /\ Newest(Valid).pending = {}
           /\ Newest(Valid) \in Manifest
           /\ \A n \in Valid : n.seq <= Newest(Valid).seq
<1>1. \A n \in Valid : n.pending = {}
    BY DEF Valid, NoPending
<1>2. Candidates = Valid /\ ~Skipped
    <2>1. CASE Valid = {}
        BY <2>1 DEF Candidates, Skipped
    <2>2. CASE Valid # {}
        <3>1. Newest(Valid) \in Valid
            BY <2>2, NewestOf
        <3> QED
            BY <1>1, <3>1 DEF Candidates, Skipped, Whole
    <2> QED
        BY <2>1, <2>2
<1>3. Valid # {}
    BY <1>2 DEF Refuses
<1> QED
    BY <1>1, <1>2, <1>3, NewestOf

\* The open: what it brings back is durable, whichever way the store went down.
LEMMA DurableOpen ==
    ASSUME TypeOK, DurableInv, Open
    PROVE  DurableInv'
<1>1. phase = "down" /\ UNCHANGED <<frozen, owed, pending, queue, merge, mpc, drop>>
    BY DEF Open, step
<1>2. CASE Refuses
    <2>1. /\ phase' \in {"refused", "scanned"}
          /\ UNCHANGED <<files, fent, fdur, torn, slot, device, segs, mseq, nextSeg>>
        BY <1>2 DEF Open, segf, slots
    <2>2. NoPending' /\ FileNames' /\ IdsUsed' /\ MergeInv'
        BY <1>1, <2>1 DEF DurableInv, NoPending, FileNames, IdsUsed, MergeInv, OnDevice
    <2>3. QueueInv' /\ SegsDurable' /\ SlotInv'
        BY <1>1, <2>1 DEF DurableInv, QueueInv, JobInv, SegsDurable, Between, Landed,
                          SlotInv
    <2> QED
        BY <2>2, <2>3 DEF DurableInv
<1>3. CASE ~Refuses
    <2> DEFINE m == Newest(Valid)
    <2>1. /\ Candidates = Valid /\ m \in Valid /\ ~Skipped /\ m.pending = {}
          /\ m \in Manifest /\ \A n \in Valid : n.seq <= m.seq
        BY <1>3, NothingSkipped DEF TypeOK, DurableInv
    <2>2. /\ segs' = m.names /\ files' = files \cap m.names
          /\ fent' = fent \cap m.names /\ fdur' = fdur \cap m.names
          /\ \A s \in m.names : s < nextSeg'
          /\ mseq' = m.seq /\ UNCHANGED slots /\ phase' = "up"
        BY <1>3, <2>1 DEF Open
    <2>3. Valid' = Valid /\ Newest(Valid)' = m /\ UNCHANGED <<slot, device>>
        BY <2>2 DEF Valid, Newest, slots
    <2>4. OnDevice(m.names)
        <3>1. m.names \subseteq files \ torn
            BY <1>3, <2>1 DEF Refuses, Whole
        <3> QED
            BY <1>1, <3>1 DEF DurableInv, SlotInv, SlotDown, OnDevice
    <2>5. OnDevice(m.names)'
        BY <2>2, <2>3, <2>4 DEF OnDevice
    <2>6. NoPending' /\ FileNames'
        BY <1>1, <2>2, <2>3 DEF DurableInv, NoPending, FileNames
    <2>7. queue = <<>> /\ frozen = {} /\ drop = {} /\ merge = NoMerge
        BY <1>1 DEF DurableInv, SlotInv, Idle
    <2>a. merge'.in = {} /\ merge'.out = {} /\ ~merge'.done /\ Len(queue') = 0
          /\ drop' = {} /\ frozen' = {}
        BY <1>1, <2>7 DEF NoMerge
    <2>8. IdsUsed' /\ MergeInv' /\ QueueInv' /\ SegsDurable'
        <3> HIDE DEF m
        <3>1. QueueInv'
            BY <2>a DEF QueueInv
        <3>2. IdsUsed' /\ MergeInv'
            BY <2>2, <2>a DEF IdsUsed, MergeInv
        <3>3. SegsDurable'
            BY <2>2, <2>4 DEF SegsDurable, OnDevice
        <3> QED
            BY <3>1, <3>2, <3>3
    <2>9. SlotInv'
        <3>1. \A i \in Slots : slot[i].ok => slot[i].m.seq <= m.seq
            BY <2>1 DEF Valid
        <3>2. mpc # "sync"
            BY <1>1 DEF DurableInv, SlotInv, Idle
        <3> QED
            BY <1>1, <2>2, <2>3, <2>5, <3>1, <3>2 DEF SlotInv, SlotUp
    <2> QED
        BY <2>6, <2>8, <2>9 DEF DurableInv
<1> QED
    BY <1>2, <1>3

\* The invariant holds throughout.
LEMMA DurableNext ==
    ASSUME FsyncsReturn, TypeOK, DurableInv, [Next]_vars
    PROVE  DurableInv'
<1>1. CASE Writer
    BY <1>1, DurableWriter
<1>2. CASE \E s \in Seg : Thread(s)
    BY <1>2, DurableThread DEF Thread
<1>3. CASE Maint
    <2>1. ~WritePending /\ ~LandPending /\ ~LandNamed
        BY DEF FsyncsReturn, WritePending, LandPending, LandNamed, DurableInv, NoPending
    <2> QED
        BY <1>3, <2>1, DurableReadable, DurableFailed, DurableLanding, DurablePublish,
           DurableMerged, DurableDrain
        DEF Maint
<1>4. CASE StartMerge \/ MergeDone
    BY <1>4, DurableMerge
<1>5. CASE Stop \/ Kill \/ PowerLoss
    BY <1>5, DurableFails
<1>6. CASE Opens
    <2>1. ~OpenSyncs
        BY DEF OpenSyncs, DurableInv, NoPending
    <2> QED
        BY <1>6, <2>1, DurableOpen DEF Opens
<1>7. CASE UNCHANGED vars
    BY <1>7, DurableFrame DEF vars, segf, slots, state, work, flight, step
<1> QED
    BY <1>1, <1>2, <1>3, <1>4, <1>5, <1>6, <1>7 DEF Next

\* What a changed slot holds is what was published.
LEMMA SlotNames ==
    ASSUME TypeOK, NEW live, WriteSlot(LiveSet(live, covered)), OnDevice(live),
           NEW i \in Slots, slot'[i] # slot[i]
    PROVE  OnDevice(slot'[i].m.names)
<1>1. slot' = [slot EXCEPT ![LiveSet(live, covered).seq % 2] =
                [ok |-> TRUE, m |-> LiveSet(live, covered)]]
    BY DEF WriteSlot
<1>2. slot'[i] = [ok |-> TRUE, m |-> LiveSet(live, covered)]
    BY <1>1 DEF TypeOK, TypeSlots
<1>3. slot'[i].m.names = live
    BY <1>2 DEF LiveSet
<1> QED
    BY <1>3

\* A slot is written only by a publish, of the live segments and of them alone.
LEMMA SlotSteps ==
    ASSUME FsyncsReturn, TypeOK, DurableInv, [Next]_vars,
           phase = "up", phase' = "up", NEW i \in Slots, slot'[i] # slot[i]
    PROVE  OnDevice(slot'[i].m.names)
<1>1. \/ LandDeferred \/ LandDurable \/ LandMerge
    <2>1. slot' # slot
        OBVIOUS
    <2>2. ~Writer /\ ~(\E s \in Seg : Thread(s)) /\ ~StartMerge /\ ~MergeDone
          /\ ~UNCHANGED vars
        BY <2>1 DEF Writer, Write, SealTable, Flush, SealRefused, Thread, SealNames,
            SealSyncs, SealThreadFails, StartMerge, MergeDone, vars, slots
    <2>3. ~Stop /\ ~Kill /\ ~PowerLoss /\ ~Opens
        BY DEF Stop, Kill, PowerLoss, Opens, Open, OpenSyncs, Forget
    <2>4. Maint
        BY <2>2, <2>3 DEF Next
    <2>5. ~WritePending /\ ~LandPending /\ ~LandNamed
        BY DEF FsyncsReturn, WritePending, LandPending, LandNamed, DurableInv, NoPending
    <2>6. ~LandReadable /\ ~LandFailed /\ ~PublishSync /\ ~PublishFails
        BY <2>1 DEF LandReadable, LandFailed, PublishSync, PublishFails, slots
    <2>7. ~DrainTaken /\ ~DrainJoins /\ ~DrainAnswer /\ ~SyncOwedSlot
        BY <2>1 DEF DrainTaken, DrainJoins, DrainAnswer, SyncOwedSlot, slots
    <2> QED
        BY <2>4, <2>5, <2>6, <2>7 DEF Maint
<1>2. CASE LandDeferred \/ LandDurable
    <2>1. OnDevice(segs)
        BY <1>2, DurableLanding
    <2>2. WriteSlot(LiveSet(segs, covered))
        BY <1>2 DEF LandDeferred, LandDurable, WriteSlotFails, slots
    <2> QED
        BY <2>1, <2>2, SlotNames
<1>3. CASE LandMerge
    <2>1. OnDevice((segs \ merge.in) \cup merge.out)
        BY <1>3, DurableMerged
    <2>2. /\ segs' = (segs \ merge.in) \cup merge.out
          /\ WriteSlot(LiveSet(segs', covered))
        BY <1>3 DEF LandMerge, slots
    <2> QED
        BY <2>1, <2>2, SlotNames
<1> QED
    BY <1>1, <1>2, <1>3

\* Every manifest src/src/db.rs publishes while the store is up names durable
\* segments: Maint::land_front, join_merge, apply_promotion and publish keep one
\* another's rule, whatever seals, merges, drains, kills, power losses and opens
\* come between.
THEOREM PublishesAreDurable ==
    ASSUME FsyncsReturn
    PROVE  Spec => PublishesDurable
<1>1. Init => TypeOK /\ DurableInv
    BY TypeInit, DurableInit
<1>2. TypeOK /\ DurableInv /\ [Next]_vars => DurableInv'
    BY DurableNext
<1>3. TypeOK /\ DurableInv /\ [Next]_vars =>
        [\A i \in Slots :
            phase = "up" /\ phase' = "up" /\ slot'[i] # slot[i] =>
               OnDevice(slot'[i].m.names \ slot'[i].m.pending)]_vars
    <2> SUFFICES ASSUME TypeOK, DurableInv, [Next]_vars, NEW i \in Slots,
                        phase = "up", phase' = "up", slot'[i] # slot[i]
                 PROVE  OnDevice(slot'[i].m.names \ slot'[i].m.pending)
        OBVIOUS
    <2>1. OnDevice(slot'[i].m.names)
        BY SlotSteps
    <2> QED
        BY <2>1 DEF OnDevice
<1> QED
    BY <1>1, <1>2, <1>3, TypeCorrect, PTL DEF Spec, PublishesDurable

=============================================================================
