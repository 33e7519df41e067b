---------------------------- MODULE LandingSafe ----------------------------
(***************************************************************************)
(* A power loss at any step is survived, for any number of batches, segments *)
(* and failures: what the log, the tables, the segments and the two slots    *)
(* hold together, and why the older slot, the log behind it and the files it  *)
(* names may be let go where they are.                                       *)
(***************************************************************************)
EXTENDS LandingProofs, FiniteSetTheorems

\* Where it holds: the fsyncs that return are honest and none fails, and a drain
\* may leave its slot unsynced only over a log that every commit syncs, where a
\* slot is not torn (Landing's other runs show what each of these is for).
Steady ==
    /\ ~Pending /\ Faults \subseteq {"power", "tear", "write", "land"}
    /\ Defers => Always /\ "tear" \notin Faults

-----------------------------------------------------------------------------
(* The invariant's parts.                                                    *)

Up == phase = "up"

\* The log's marks; what a segment's fsync made durable is not torn.
LogInv ==
    /\ walLow <= last /\ logDur <= last
    /\ Always => logDur = last
    /\ fdur \cap torn = {} /\ (Up => torn = {})
    /\ Up => covered <= last /\ acked <= last
    /\ phase \in {"up", "down"}

\* The seals in flight, in order, take up the batches past what is covered, and
\* the live table those past them; once the queue has stopped only the tables
\* stand.
Before(i) == IF i = 1 THEN covered ELSE queue[i - 1].end
Tip == IF queue = <<>> THEN covered ELSE queue[Len(queue)].end
RunInv ==
    Up =>
      /\ wedged => ~Between
      /\ ~wedged =>
           /\ \A i \in 1..Len(queue) :
                IF queue[i].seg \in frozen
                THEN /\ Before(i) <= queue[i].end
                     /\ holds[queue[i].seg] = (Before(i) + 1)..queue[i].end
                ELSE queue[i].end = covered
           /\ Tip <= last /\ mem = (Tip + 1)..last
      /\ \A i \in 1..Len(queue) : queue[i].end <= last

\* The batches are shared out among the live table, the frozen ones and the
\* segments, the segments having those covered; a merge's output has what its
\* inputs have.
Apart(h, S) == \A s, t \in S : s # t => h[s] \cap h[t] = {}
In(h, S) == UNION {h[s] : s \in S}
ShareInv ==
    Up =>
      /\ In(holds, segs) = 1..covered
      /\ Apart(holds, frozen \cup segs)
      /\ mem \cap In(holds, frozen \cup segs) = {}
      /\ mem \cup In(holds, frozen \cup segs) = 1..last
      /\ merge # NoMerge => In(holds, merge.out) = In(holds, merge.in) /\ \E x \in Seg : merge.out = {x}

\* A drain waits with nothing in the live table, and is taken up only where the
\* queue goes on.
DrainInv ==
    /\ Up /\ asked # "no" => mem = {}
    /\ asked \in {"taken", "joined"} => ~wedged
    /\ asked = "joined" => queue = <<>>

\* A landing's end is kept only for its publish, and the process that is down
\* has nothing under way.
RestInv ==
    /\ mpc # "sync" => land = 0
    /\ phase = "down" => asked = "no" /\ owed = {} /\ wedged = FALSE

\* The slot of the newest sequence.
Now == slot[mseq % 2]
NowInv ==
    Up =>
      /\ Now.ok /\ Now.m.seq = mseq
      /\ retireTo <= Now.m.covered /\ Now.m.covered <= covered
      /\ ~Between => Now.m.covered = covered
      /\ mpc = "sync" => land <= Now.m.covered /\ Now.m.names = segs /\ ~Between
      /\ owed # {} => Defers /\ (mpc # "sync" => owed = {mseq % 2})

\* The slots on the device: a sequence has a slot of its own.
SeqInv ==
    \A i \in Slots :
        /\ slot[i] \in device[i]
        /\ \A c \in device[i] : c.ok => c.m.seq % 2 = i /\ (Up => c.m.seq <= mseq)

\* A manifest an open may take.
Good(m) == Safe(m) /\ Apart(holds, m.names) /\ (Up => \A s \in m.names : s < nextSeg)

\* One slot has on the device nothing older than f, and every manifest that is
\* not is good: the open takes one of those.  Where no sync is owed that slot is
\* synced, and f the newest sequence.
Synced == phase = "down" \/ (owed = {} /\ mpc # "sync")
Floor(p, f) ==
    /\ \A c \in device[p] : c.ok /\ c.m.seq >= f
    /\ \A i \in Slots : \A c \in device[i] : c.ok /\ c.m.seq >= f => Good(c.m)
    /\ Synced => /\ device[p] = {slot[p]} /\ slot[p].m.seq = f
                 /\ \A i \in Slots : \A c \in device[i] : c.ok => c.m.seq <= f
                 /\ Up => f = mseq
FloorInv == \E p \in Slots : \E c \in device[p] : Floor(p, c.m.seq)

SafeInv ==
    /\ TypeOK /\ DurableInv /\ LogInv /\ RunInv /\ ShareInv /\ DrainInv /\ NowInv /\ SeqInv
    /\ FloorInv /\ RestInv

-----------------------------------------------------------------------------
(* Batches and manifests.                                                    *)

LEMMA SteadyFsyncs == ASSUME Steady PROVE FsyncsReturn
BY DEF Steady, FsyncsReturn

LEMMA Numbers ==
    ASSUME TypeOK
    PROVE  /\ last \in Nat /\ walLow \in Nat /\ logDur \in Nat /\ logSync \in Nat
           /\ covered \in Nat /\ mseq \in Nat /\ retireTo \in Nat /\ land \in Nat
           /\ acked \in Nat /\ nextSeg \in Nat /\ MaxBatch \in Nat /\ MaxSeg \in Nat
BY LandingAssumption DEF TypeOK, TypeLog, TypeWork, TypeFlight, TypeStep, TypeRest

LEMMA Ends ==
    ASSUME TypeOK
    PROVE  \A i \in 1..Len(queue) : queue[i].end \in Nat /\ queue[i].seg \in Nat
<1>1. \A i \in 1..Len(queue) : queue[i] \in Job
    BY JobsTyped
<1> QED
    BY <1>1, LandingAssumption DEF Job, Seg

LEMMA Contents ==
    ASSUME TypeSlots, NEW i \in Slots
    PROVE  /\ \A c \in device[i] : c \in Content /\ c.m \in Manifest /\ c.m.seq \in Nat
                                   /\ c.m.covered \in Nat /\ c.m.names \subseteq Seg
           /\ slot[i] \in Content /\ slot[i].m \in Manifest /\ slot[i].m.seq \in Nat
           /\ slot[i].m.covered \in Nat /\ slot[i].m.names \subseteq Seg
<1>1. \A c \in Content : c.m \in Manifest
    BY DEF Content
<1>2. \A m \in Manifest : m.seq \in Nat /\ m.covered \in Nat /\ m.names \subseteq Seg
    BY LandingAssumption DEF Manifest
<1> QED
    BY <1>1, <1>2 DEF TypeSlots

\* What the segments of S hold depends on theirs alone.
LEMMA InSame ==
    ASSUME NEW h, NEW g, NEW S, \A s \in S : h[s] = g[s]
    PROVE  In(g, S) = In(h, S) /\ (Apart(h, S) => Apart(g, S))
BY DEF In, Apart

\* The sequence after is written to the other slot.
LEMMA Parity ==
    ASSUME NEW k \in Nat
    PROVE  k % 2 \in Slots /\ (k + 1) % 2 \in Slots /\ (k + 1) % 2 # k % 2
BY DEF Slots

LEMMA LargerOf ==
    ASSUME NEW x \in Nat, NEW y \in Nat
    PROVE  /\ Larger(x, y) \in {x, y} /\ Larger(x, y) >= x /\ Larger(x, y) >= y
           /\ Larger(x, y) \in Nat
BY DEF Larger

\* A manifest stays good where its segments are left as they are and the log
\* behind it is.
LEMMA GoodKept ==
    ASSUME TypeOK, TypeOK', NEW m \in Manifest, Good(m), Up, OnDevice(m.names)',
           \A s \in m.names : s < nextSeg => holds'[s] = holds[s],
           walLow' <= m.covered, acked' <= Larger(m.covered, logDur'),
           Up' => nextSeg' >= nextSeg
    PROVE  Good(m)'
<1>1. m.names \subseteq Nat /\ nextSeg \in Nat /\ nextSeg' \in Nat
    BY LandingAssumption, Numbers DEF Manifest, Seg, TypeOK, TypeFlight
<1>2. \A s \in m.names : s < nextSeg /\ holds'[s] = holds[s]
    BY DEF Good
<1>3. In(holds', m.names) = In(holds, m.names) /\ Apart(holds', m.names)
    BY <1>2, InSame DEF Good
<1>4. Holds(m)'
    BY <1>3 DEF Good, Safe, Holds, In
<1>5. OnDevice(m.names \ m.pending)'
    BY DEF OnDevice
<1>6. \A s \in m.names : Up' => s < nextSeg'
    BY <1>1, <1>2
<1> QED
    BY <1>3, <1>4, <1>5, <1>6 DEF Good, Safe

\* The files that only grow.
LEMMA Grow ==
    ASSUME NEW S, OnDevice(S), fent \subseteq fent', fdur \subseteq fdur'
    PROVE  OnDevice(S)'
BY DEF OnDevice

\* Without pending names a good manifest's are all on the device.
LEMMA GoodNames ==
    ASSUME TypeOK, NoPending, NEW i \in Slots, NEW c \in device[i], Good(c.m)
    PROVE  OnDevice(c.m.names)
BY DEF NoPending, Good, Safe, OnDevice

\* A step that writes no slot keeps the floor if it keeps what is good.
LEMMA FloorFrame ==
    ASSUME FloorInv, UNCHANGED <<slot, device, mseq, phase>>, Synced' => Synced,
           \A i \in Slots : \A c \in device[i] : Good(c.m) => Good(c.m)'
    PROVE  FloorInv'
<1>0. PICK p \in Slots : \E c \in device[p] : Floor(p, c.m.seq)
    BY DEF FloorInv
<1>1. PICK c \in device[p] : Floor(p, c.m.seq)
    BY <1>0
<1>2. Floor(p, c.m.seq)'
    BY <1>1 DEF Floor, Up
<1> QED
    BY <1>1, <1>2 DEF FloorInv

\* What the floor says of the newest slot.
LEMMA NowGood ==
    ASSUME SafeInv, Up
    PROVE  /\ mseq % 2 \in Slots /\ Now \in device[mseq % 2] /\ Good(Now.m) /\ Now.m \in Manifest
           /\ walLow <= Now.m.covered /\ acked <= Larger(Now.m.covered, logDur)
           /\ Now.m.covered \in Nat
<1>1. mseq \in Nat /\ mseq % 2 \in Slots
    BY Numbers, Parity DEF SafeInv
<1>2. Now \in device[mseq % 2] /\ Now.ok /\ Now.m.seq = mseq
    BY <1>1 DEF SafeInv, SeqInv, NowInv, Now
<1>0. PICK p \in Slots : \E c \in device[p] : Floor(p, c.m.seq)
    BY DEF SafeInv, FloorInv
<1>3. PICK c \in device[p] : Floor(p, c.m.seq)
    BY <1>0
<1>4. c.ok /\ c.m.seq <= mseq
    BY <1>3 DEF Floor, SafeInv, SeqInv
<1>5. Now.m.seq >= c.m.seq
    BY <1>1, <1>2, <1>3, <1>4, Contents DEF SafeInv, TypeOK
<1>6. Good(Now.m)
    BY <1>1, <1>2, <1>3, <1>5 DEF Floor
<1> QED
    BY <1>1, <1>2, <1>6, Contents DEF Good, Safe, SafeInv, TypeOK, Now

\* The newest slot synced: nothing older is taken any more.
LEMMA SyncNow ==
    ASSUME SafeInv, Up, device' = [device EXCEPT ![mseq % 2] = {slot[mseq % 2]}],
           UNCHANGED slot, Up' => mseq' = mseq,
           \A m \in Manifest : m = Now.m => Good(m)'
    PROVE  SeqInv' /\ FloorInv'
<1>1. mseq \in Nat /\ mseq % 2 \in Slots
    BY Numbers, Parity DEF SafeInv
<1>2. device \in [Slots -> SUBSET Content]
    BY DEF SafeInv, TypeOK, TypeSlots
<1>3. \A i \in Slots : device'[i] = IF i = mseq % 2 THEN {slot[i]} ELSE device[i]
    BY <1>1, <1>2
<1>4. \A i \in Slots : /\ slot[i] \in device[i]
                       /\ \A c \in device[i] : c.ok => c.m.seq % 2 = i /\ c.m.seq <= mseq
    BY DEF SafeInv, SeqInv
<1>5. \A i \in Slots : device'[i] \subseteq device[i]
    BY <1>3, <1>4
<1>6. SeqInv'
    BY <1>3, <1>4, <1>5 DEF SeqInv
<1>7. Now.ok /\ Now.m.seq = mseq /\ Now = slot[mseq % 2]
    BY DEF SafeInv, NowInv, Now
<1>8. ASSUME NEW i \in Slots, NEW c \in device'[i], c.ok, c.m.seq >= mseq
      PROVE  c = Now
    <2>1. c.m.seq \in Nat /\ c.m.seq <= mseq /\ c.m.seq % 2 = i
        BY <1>4, <1>5, <1>8, Contents DEF SafeInv, TypeOK
    <2>2. c.m.seq = mseq
        BY <1>1, <1>8, <2>1
    <2> QED
        BY <1>3, <1>7, <1>8, <2>1, <2>2
<1>a. PICK p \in Slots, f \in Nat : p = mseq % 2 /\ f = mseq
    BY <1>1
<1>9. Floor(p, f)'
    <2>1. \A c \in device'[p] : c.ok /\ c.m.seq >= f
        BY <1>1, <1>3, <1>7, <1>a
    <2>2. \A i \in Slots : \A c \in device'[i] : c.ok /\ c.m.seq >= f => Good(c.m)'
        <3> SUFFICES ASSUME NEW i \in Slots, NEW c \in device'[i], c.ok, c.m.seq >= f
                     PROVE  Good(c.m)'
            OBVIOUS
        <3>1. c = Now
            BY <1>8, <1>a
        <3>2. c.m \in Manifest /\ c.m = Now.m
            BY <3>1, NowGood
        <3> QED
            BY <3>2
    <2>3. \A i \in Slots : \A c \in device'[i] : c.ok => c.m.seq <= f
        BY <1>4, <1>5, <1>a
    <2>4. device'[p] = {slot'[p]} /\ slot'[p].m.seq = f
        BY <1>3, <1>7, <1>a
    <2> QED
        BY <1>a, <2>1, <2>2, <2>3, <2>4 DEF Floor
<1> QED
    BY <1>3, <1>6, <1>7, <1>9, <1>a DEF FloorInv

-----------------------------------------------------------------------------
(* What a step leaves alone.                                                 *)

\* A queue and its front.
LEMMA FrontOf ==
    ASSUME NEW q \in Seq(Job)
    PROVE  /\ q = <<>> <=> Len(q) = 0
           /\ q # <<>> => Head(q) = q[1] /\ 1 \in 1..Len(q) /\ Len(q) >= 1
           /\ Len(q) \in Nat
OBVIOUS

\* The queue's two ends, by their places.
LEMMA QueueEnds ==
    ASSUME TypeOK, TypeOK'
    PROVE  /\ Between <=> Len(queue) # 0 /\ queue[1].seg \notin frozen
           /\ Between' <=> Len(queue') # 0 /\ queue'[1].seg \notin frozen'
           /\ Tip = IF Len(queue) = 0 THEN covered ELSE queue[Len(queue)].end
           /\ Tip' = IF Len(queue') = 0 THEN covered' ELSE queue'[Len(queue')].end
           /\ Len(queue) \in Nat /\ Len(queue') \in Nat
           /\ queue = <<>> <=> Len(queue) = 0
           /\ queue' = <<>> <=> Len(queue') = 0
<1>1. queue \in Seq(Job) /\ queue' \in Seq(Job)
    BY DEF TypeOK, TypeFlight
<1>2. /\ queue = <<>> <=> Len(queue) = 0
      /\ queue # <<>> => Head(queue) = queue[1]
      /\ queue' = <<>> <=> Len(queue') = 0
      /\ queue' # <<>> => Head(queue') = queue'[1]
      /\ Len(queue) \in Nat /\ Len(queue') \in Nat
    BY <1>1, FrontOf
<1> QED
    BY <1>2 DEF Between, Landed, Tip

\* The same seals in flight, of the same tables.
LEMMA RunFrame ==
    ASSUME TypeOK, TypeOK', RunInv, Up, Up',
           UNCHANGED <<wedged, frozen, covered, mem, last>>,
           Len(queue') = Len(queue),
           \A i \in 1..Len(queue) :
                queue'[i].seg = queue[i].seg /\ queue'[i].end = queue[i].end
                /\ holds'[queue[i].seg] = holds[queue[i].seg]
    PROVE  RunInv' /\ (Between' <=> Between)
<1>1. Len(queue) \in Nat
    BY QueueEnds
<1>2. Between' <=> Between
    <2>1. Len(queue) # 0 => 1 \in 1..Len(queue)
        BY <1>1
    <2> QED
        BY <2>1, QueueEnds
<1>3. Tip' = Tip
    <2>1. Len(queue) # 0 => Len(queue) \in 1..Len(queue)
        BY <1>1
    <2> QED
        BY <2>1, QueueEnds
<1>4. \A i \in 1..Len(queue) : Before(i)' = Before(i)
    <2> SUFFICES ASSUME NEW i \in 1..Len(queue), i # 1
                 PROVE  queue'[i - 1].end = queue[i - 1].end
        BY DEF Before
    <2>1. i - 1 \in 1..Len(queue)
        BY <1>1
    <2> QED
        BY <2>1
<1>5. ~wedged =>
           \A i \in 1..Len(queue') :
                IF queue'[i].seg \in frozen'
                THEN /\ Before(i)' <= queue'[i].end
                     /\ holds'[queue'[i].seg] = (Before(i)' + 1)..queue'[i].end
                ELSE queue'[i].end = covered'
    <2> SUFFICES ASSUME ~wedged, NEW i \in 1..Len(queue)
                 PROVE  IF queue'[i].seg \in frozen'
                        THEN /\ Before(i)' <= queue'[i].end
                             /\ holds'[queue'[i].seg] = (Before(i)' + 1)..queue'[i].end
                        ELSE queue'[i].end = covered'
        OBVIOUS
    <2>1. IF queue[i].seg \in frozen
          THEN /\ Before(i) <= queue[i].end
               /\ holds[queue[i].seg] = (Before(i) + 1)..queue[i].end
          ELSE queue[i].end = covered
        BY DEF RunInv
    <2> QED
        BY <1>4, <2>1
<1>6. (wedged => ~Between) /\ (~wedged => Tip <= last /\ mem = (Tip + 1)..last)
      /\ \A i \in 1..Len(queue) : queue[i].end <= last
    BY DEF RunInv
<1>7. (wedged' => ~Between') /\ (~wedged' => Tip' <= last' /\ mem' = (Tip' + 1)..last')
      /\ \A i \in 1..Len(queue') : queue'[i].end <= last'
    BY <1>2, <1>3, <1>6
<1> QED
    BY <1>2, <1>5, <1>7 DEF RunInv

\* The same batches in the same places.
LEMMA ShareFrame ==
    ASSUME ShareInv, UNCHANGED <<phase, holds, segs, frozen, mem, covered, last, merge>>
    PROVE  ShareInv'
BY DEF ShareInv, Up, In, Apart

\* The slots and the promises left alone, and nothing lost of the files.
LEMMA FloorSame ==
    ASSUME SafeInv, TypeOK', Up, Up', UNCHANGED <<slot, device, mseq, walLow>>,
           acked' = acked \/ acked' = logDur',
           fent \subseteq fent', fdur \subseteq fdur', logDur' >= logDur,
           \A s \in Seg : s < nextSeg => holds'[s] = holds[s],
           nextSeg' >= nextSeg, Synced' => Synced
    PROVE  FloorInv' /\ SeqInv'
<1>1. SeqInv'
    BY DEF SafeInv, SeqInv, Up
<1>2. ASSUME NEW i \in Slots, NEW c \in device[i], Good(c.m)
      PROVE  Good(c.m)'
    <2>1. c.m \in Manifest /\ c.m.names \subseteq Seg /\ c.m.covered \in Nat
        BY Contents DEF SafeInv, TypeOK
    <2>2. OnDevice(c.m.names)
        BY <1>2, GoodNames DEF SafeInv, DurableInv
    <2>3. OnDevice(c.m.names)'
        BY <2>2, Grow
    <2>4. walLow <= c.m.covered /\ acked <= Larger(c.m.covered, logDur)
        BY <1>2 DEF Good, Safe
    <2>5. acked' <= Larger(c.m.covered, logDur')
        <3>1. acked \in Nat /\ logDur \in Nat /\ logDur' \in Nat
            BY LandingAssumption DEF SafeInv, TypeOK, TypeLog, TypeRest
        <3>2. (acked' = acked \/ acked' = logDur') /\ logDur' >= logDur
            OBVIOUS
        <3>3. acked <= Larger(c.m.covered, logDur) /\ c.m.covered \in Nat
            BY <2>1, <2>4
        <3> QED
            BY ONLY <3>1, <3>2, <3>3 DEF Larger
    <2>6. TypeOK /\ (\A s \in c.m.names : s < nextSeg => holds'[s] = holds[s])
          /\ walLow' <= c.m.covered
        BY <2>1, <2>4 DEF SafeInv
    <2> QED
        BY <1>2, <2>1, <2>3, <2>5, <2>6, GoodKept
<1> QED
    BY <1>1, <1>2, FloorFrame DEF SafeInv, Up

\* While the process is up only the publish's end is at stake.
LEMMA RestFrame ==
    ASSUME SafeInv, Up', UNCHANGED <<mpc, land>>
    PROVE  RestInv'
BY DEF SafeInv, RestInv, Up

\* The newest slot left as it is.
LEMMA NowFrame ==
    ASSUME NowInv, UNCHANGED <<phase, slot, mseq, retireTo, covered, land, segs, owed>>,
           Between' <=> Between, mpc' = "sync" <=> mpc = "sync"
    PROVE  NowInv'
BY DEF NowInv, Up, Now

-----------------------------------------------------------------------------
(* The writer and the seal threads.                                          *)

\* The number the queue's run has reached.
LEMMA TipNumber ==
    ASSUME TypeOK
    PROVE  Tip \in Nat
<1>1. queue \in Seq(Job) /\ (queue # <<>> => Len(queue) \in 1..Len(queue))
    BY FrontOf, JobsTyped
<1>2. covered \in Nat
    BY Numbers
<1> QED
    BY <1>1, <1>2, Ends DEF Tip

\* A commit: the live table takes the batch after the last.
LEMMA SafeWrite ==
    ASSUME Steady, SafeInv, TypeOK', DurableInv', Write
    PROVE  SafeInv'
<1>1. /\ Up /\ Up' /\ last' = last + 1 /\ mem' = mem \cup {last + 1}
      /\ \/ logDur' = last + 1 /\ acked' = last + 1
         \/ ~Always /\ logDur' = logDur /\ acked' = acked
    BY DEF Write, Up
<1>2. UNCHANGED <<walLow, holds, files, fent, fdur, torn, slot, device, frozen, segs,
                  covered, mseq, owed, pending, retireTo, queue, merge, wedged, nextSeg,
                  mpc, drop, land, err, asked, phase>> /\ asked = "no"
    BY DEF Write, segf, slots, work, flight, step
<1>3. /\ last \in Nat /\ walLow \in Nat /\ logDur \in Nat /\ acked \in Nat /\ covered \in Nat
      /\ mseq \in Nat /\ nextSeg \in Nat /\ last' \in Nat
    BY <1>1, Numbers DEF SafeInv
<1>4. /\ walLow <= last /\ logDur <= last /\ (Always => logDur = last)
      /\ fdur \cap torn = {} /\ torn = {} /\ covered <= last /\ acked <= last
      /\ phase \in {"up", "down"}
    BY <1>1 DEF SafeInv, LogInv
<1>5. LogInv'
    BY <1>1, <1>2, <1>3, <1>4 DEF LogInv
<1>6. RunInv'
    <2>1. Len(queue) \in Nat /\ Tip \in Nat /\ Tip' = Tip
        BY <1>2, TipNumber, JobsTyped DEF SafeInv, Tip
    <2>2. (Between' <=> Between) /\ \A i \in 1..Len(queue) : Before(i)' = Before(i)
        BY <1>2 DEF Between, Landed, Before
    <2>3. ~wedged => Tip' <= last' /\ mem' = (Tip' + 1)..last'
        <3>1. ~wedged => Tip <= last /\ mem = (Tip + 1)..last
            BY <1>1 DEF SafeInv, RunInv
        <3>2. Tip <= last => ((Tip + 1)..last) \cup {last + 1} = (Tip + 1)..(last + 1)
            BY ONLY <1>3, <2>1
        <3> QED
            BY <1>1, <1>3, <2>1, <3>1, <3>2
    <2>4. \A i \in 1..Len(queue) : queue[i].end <= last'
        <3>1. \A i \in 1..Len(queue) : queue[i].end <= last /\ queue[i].end \in Nat
            BY <1>1, Ends DEF SafeInv, RunInv
        <3> QED
            BY <1>1, <1>3, <3>1
    <2>5. \A i \in 1..Len(queue) :
            ~wedged => IF queue[i].seg \in frozen
                       THEN /\ Before(i) <= queue[i].end
                            /\ holds[queue[i].seg] = (Before(i) + 1)..queue[i].end
                       ELSE queue[i].end = covered
        BY <1>1 DEF SafeInv, RunInv
    <2>6. wedged => ~Between
        BY <1>1 DEF SafeInv, RunInv
    <2> QED
        BY <1>2, <2>2, <2>3, <2>4, <2>5, <2>6 DEF RunInv
<1>7. ShareInv'
    <2>1. /\ In(holds, segs) = 1..covered
          /\ Apart(holds, frozen \cup segs)
          /\ mem \cap In(holds, frozen \cup segs) = {}
          /\ mem \cup In(holds, frozen \cup segs) = 1..last
          /\ merge # NoMerge => /\ In(holds, merge.out) = In(holds, merge.in)
                                /\ \E x \in Seg : merge.out = {x}
        BY <1>1 DEF SafeInv, ShareInv
    <2>2. (1..last) \cup {last + 1} = 1..(last + 1) /\ last + 1 \notin 1..last
        BY <1>3
    <2> DEFINE H == In(holds, frozen \cup segs)
    <2>3. mem' \cap H = {} /\ mem' \cup H = 1..last'
        <3> HIDE DEF H
        <3>1. mem \cap H = {} /\ mem \cup H = 1..last
            BY <2>1 DEF H
        <3> QED
            BY <1>1, <2>2, <3>1
    <2>4. holds' = holds /\ frozen' = frozen /\ segs' = segs /\ merge' = merge
          /\ covered' = covered
        BY <1>2
    <2> QED
        BY <2>1, <2>3, <2>4 DEF ShareInv
<1>8. DrainInv' /\ NowInv'
    <2>1. Between' <=> Between
        BY <1>2 DEF Between, Landed
    <2>2. NowInv'
        BY <1>2, <2>1, NowFrame DEF SafeInv
    <2> QED
        BY <1>2, <2>2 DEF SafeInv, DrainInv
<1>9. FloorInv' /\ SeqInv'
    <2>1. logDur' >= logDur /\ nextSeg' >= nextSeg
        BY <1>1, <1>2, <1>3, <1>4
    <2>2. acked' = acked \/ acked' = logDur'
        BY <1>1
    <2>3. Synced' => Synced
        BY <1>2 DEF Synced
    <2> QED
        BY <1>1, <1>2, <2>1, <2>2, <2>3, FloorSame
<1> QED
    BY <1>1, <1>2, <1>5, <1>6, <1>7, <1>8, <1>9, RestFrame DEF SafeInv

\* Steps that touch none of what the invariant is about, but for the drain's
\* own state.
LEMMA SafeFrame ==
    ASSUME SafeInv, TypeOK', DurableInv',
           UNCHANGED <<last, walLow, logDur, holds, fent, fdur, torn, slot, device, mem, frozen,
                       segs, covered, mseq, owed, retireTo, queue, merge, wedged, nextSeg,
                       mpc, land, phase, acked>>,
           DrainInv', RestInv'
    PROVE  SafeInv'
<1>1. LogInv' /\ ShareInv'
    BY ShareFrame DEF SafeInv, LogInv, Up
<1>2. RunInv' /\ (Between' <=> Between)
    BY DEF SafeInv, RunInv, Up, Between, Landed, Before, Tip
<1>3. NowInv' /\ SeqInv'
    BY <1>2, NowFrame DEF SafeInv, SeqInv, Up
<1>4. FloorInv'
    <2>1. \A m : Good(m) => Good(m)'
        BY DEF Good, Safe, OnDevice, Holds, Apart, Up
    <2> QED
        BY <2>1, FloorFrame DEF SafeInv, Synced
<1> QED
    BY <1>1, <1>2, <1>3, <1>4 DEF SafeInv

\* A seal turned away, a drain taken up and its seals and merges joined.
LEMMA SafeAsk ==
    ASSUME SafeInv, TypeOK', DurableInv', SealRefused \/ DrainTaken \/ DrainJoins
    PROVE  SafeInv'
<1>1. UNCHANGED <<last, walLow, logDur, holds, fent, fdur, torn, slot, device, mem, frozen,
                  segs, covered, mseq, owed, retireTo, queue, merge, wedged, nextSeg,
                  mpc, land, phase, acked>>
    BY DEF SealRefused, DrainTaken, DrainJoins, log, segf, slots, state, work, flight, step
<1>2. /\ asked' # "no" => asked # "no"
      /\ asked' \in {"taken", "joined"} => ~wedged
      /\ asked' = "joined" => queue = <<>>
    BY DEF SealRefused, DrainTaken, DrainJoins, SafeInv, DrainInv
<1>3. DrainInv'
    BY <1>1, <1>2 DEF SafeInv, DrainInv, Up
<1>4. RestInv'
    BY <1>1, RestFrame DEF SealRefused, DrainTaken, DrainJoins, MaintReady, Up
<1> QED
    BY <1>1, <1>3, <1>4, SafeFrame

\* A table handed to its seal: the run goes on from its tip.
LEMMA SafeHand ==
    ASSUME SafeInv, TypeOK', DurableInv', Up, NEW d \in BOOLEAN, Hand(d), DrainInv',
           UNCHANGED <<last, walLow, logDur, fent, fdur, torn, slot, device, segs, covered,
                       mseq, owed, retireTo, merge, wedged, mpc, land, phase, acked>>
    PROVE  SafeInv'
<1>1. /\ Up' /\ nextSeg' = nextSeg + 1 /\ nextSeg \in Nat /\ mem' = {}
      /\ frozen' = frozen \cup {nextSeg} /\ holds' = [holds EXCEPT ![nextSeg] = mem]
      /\ nextSeg \in Seg /\ holds \in [Seg -> SUBSET Batch]
    BY LandingAssumption DEF SafeInv, TypeOK, TypeFlight, TypeFiles, Hand, Up, Seg
<1>2. /\ Len(queue) \in Nat /\ Len(queue') = Len(queue) + 1
      /\ \A k \in 1..Len(queue) : queue'[k] = queue[k]
      /\ queue'[Len(queue) + 1].seg = nextSeg /\ queue'[Len(queue) + 1].end = last
    BY JobsTyped DEF Hand, SafeInv
<1>3. \A k \in 1..Len(queue) : queue[k].seg \in Seg /\ queue[k].seg # nextSeg
                               /\ queue[k].end \in Nat
    <2>1. \A k \in 1..Len(queue) : queue[k].seg \in Nat /\ queue[k].seg < nextSeg
                                   /\ queue[k].end \in Nat
        BY Ends DEF SafeInv, DurableInv, QueueInv, JobInv
    <2>2. \A k \in 1..Len(queue) : queue[k].seg # nextSeg
        BY <1>1, <2>1
    <2> QED
        BY <2>1, <2>2, JobsTyped DEF SafeInv
<1>4. /\ segs \cup frozen \cup merge.in \cup merge.out \subseteq Seg
      /\ nextSeg \notin segs \cup frozen \cup merge.in \cup merge.out
    BY <1>1, IdsTyped DEF SafeInv, DurableInv, IdsUsed, Seg
<1>5. /\ \A s \in Seg : s # nextSeg => holds'[s] = holds[s]
      /\ holds'[nextSeg] = mem
    BY <1>1
<1>6. last \in Nat /\ covered \in Nat /\ Tip \in Nat
    BY Numbers, TipNumber DEF SafeInv
<1>7. /\ Between <=> Len(queue) # 0 /\ queue[1].seg \notin frozen
      /\ Between' <=> Len(queue') # 0 /\ queue'[1].seg \notin frozen'
      /\ Tip = IF Len(queue) = 0 THEN covered ELSE queue[Len(queue)].end
      /\ Tip' = IF Len(queue') = 0 THEN covered' ELSE queue'[Len(queue')].end
    BY QueueEnds DEF SafeInv
<1>8. Between' <=> Between
    <2>1. CASE Len(queue) = 0
        BY <1>1, <1>2, <1>7, <2>1
    <2>2. CASE Len(queue) # 0
        <3>1. 1 \in 1..Len(queue)
            BY <1>2, <2>2
        <3>2. queue'[1] = queue[1] /\ queue[1].seg # nextSeg /\ Len(queue') # 0
            BY <1>2, <1>3, <3>1
        <3> QED
            BY <1>1, <1>7, <2>2, <3>2
    <2> QED
        BY <2>1, <2>2
<1>9. RunInv'
    <2>1. Tip' = last
        <3>1. Len(queue') # 0
            BY <1>2
        <3> QED
            BY <1>2, <1>7, <3>1
    <2>2. mem' = (Tip' + 1)..last' /\ Tip' <= last'
        BY <1>1, <1>6, <2>1
    <2>3. ASSUME NEW i \in 1..Len(queue'), i \in 1..Len(queue), ~wedged
          PROVE  IF queue'[i].seg \in frozen'
                 THEN /\ Before(i)' <= queue'[i].end
                      /\ holds'[queue'[i].seg] = (Before(i)' + 1)..queue'[i].end
                 ELSE queue'[i].end = covered'
        <3>1. Before(i)' = Before(i)
            <4>1. i # 1 => i - 1 \in 1..Len(queue)
                BY <1>2
            <4> QED
                BY <1>2, <2>3, <4>1 DEF Before
        <3>2. queue'[i] = queue[i] /\ holds'[queue[i].seg] = holds[queue[i].seg]
              /\ (queue[i].seg \in frozen' <=> queue[i].seg \in frozen)
            BY <1>1, <1>2, <1>3, <1>5, <2>3
        <3>3. IF queue[i].seg \in frozen
              THEN /\ Before(i) <= queue[i].end
                   /\ holds[queue[i].seg] = (Before(i) + 1)..queue[i].end
              ELSE queue[i].end = covered
            BY <2>3 DEF SafeInv, RunInv
        <3> QED
            BY <3>1, <3>2, <3>3
    <2>4. ASSUME NEW i \in 1..Len(queue'), i = Len(queue) + 1, ~wedged
          PROVE  IF queue'[i].seg \in frozen'
                 THEN /\ Before(i)' <= queue'[i].end
                      /\ holds'[queue'[i].seg] = (Before(i)' + 1)..queue'[i].end
                 ELSE queue'[i].end = covered'
        <3>1. Before(i)' = Tip
            <4>1. CASE Len(queue) = 0
                <5>1. i = 1
                    BY <2>4, <4>1
                <5> QED
                    BY <1>7, <4>1, <5>1 DEF Before
            <4>2. CASE Len(queue) # 0
                <5>1. i # 1 /\ i - 1 = Len(queue) /\ Len(queue) \in 1..Len(queue)
                    BY <1>2, <2>4, <4>2
                <5> QED
                    BY <1>2, <1>7, <4>2, <5>1 DEF Before
            <4> QED
                BY <4>1, <4>2
        <3>2. Tip <= last /\ mem = (Tip + 1)..last
            BY <2>4 DEF SafeInv, RunInv
        <3>3. queue'[i].seg \in frozen' /\ queue'[i].end = last /\ holds'[queue'[i].seg] = mem
            BY <1>1, <1>2, <1>5, <2>4
        <3> QED
            BY <3>1, <3>2, <3>3
    <2>5. \A i \in 1..Len(queue') : i \in 1..Len(queue) \/ i = Len(queue) + 1
        BY <1>2
    <2>6. \A i \in 1..Len(queue') : queue'[i].end <= last
        <3>1. \A i \in 1..Len(queue) : queue[i].end <= last
            BY DEF SafeInv, RunInv
        <3>2. last <= last
            BY <1>6
        <3> QED
            BY <1>2, <2>5, <3>1, <3>2
    <2>7. wedged' => ~Between'
        BY <1>8 DEF SafeInv, RunInv
    <2> QED
        BY <2>2, <2>3, <2>4, <2>5, <2>6, <2>7 DEF RunInv
<1>a. ShareInv'
    <2>1. /\ In(holds, segs) = 1..covered
          /\ Apart(holds, frozen \cup segs)
          /\ mem \cap In(holds, frozen \cup segs) = {}
          /\ mem \cup In(holds, frozen \cup segs) = 1..last
          /\ merge # NoMerge => /\ In(holds, merge.out) = In(holds, merge.in)
                                /\ \E x \in Seg : merge.out = {x}
        BY DEF SafeInv, ShareInv
    <2>2. \A S : S \subseteq segs \cup frozen \cup merge.in \cup merge.out =>
                    In(holds', S) = In(holds, S) /\ (Apart(holds, S) => Apart(holds', S))
        <3> SUFFICES ASSUME NEW S, S \subseteq segs \cup frozen \cup merge.in \cup merge.out
                     PROVE  In(holds', S) = In(holds, S) /\ (Apart(holds, S) => Apart(holds', S))
            OBVIOUS
        <3>1. \A s \in S : holds[s] = holds'[s]
            BY <1>4, <1>5
        <3> QED
            BY <3>1, InSame
    <2>3. /\ In(holds', segs) = In(holds, segs)
          /\ In(holds', frozen \cup segs) = In(holds, frozen \cup segs)
          /\ Apart(holds', frozen \cup segs)
          /\ In(holds', merge.out) = In(holds, merge.out)
          /\ In(holds', merge.in) = In(holds, merge.in)
        BY <2>1, <2>2
    <2>4. frozen' \cup segs = (frozen \cup segs) \cup {nextSeg}
        BY <1>1
    <2>5. In(holds', frozen' \cup segs) = In(holds, frozen \cup segs) \cup mem
        BY <1>5, <2>3, <2>4 DEF In
    <2>6. Apart(holds', frozen' \cup segs)
        <3>1. \A s \in frozen \cup segs : holds'[s] \cap mem = {}
            BY <2>1, <2>3 DEF In
        <3> QED
            BY <1>5, <2>3, <2>4, <3>1 DEF Apart
    <2> QED
        BY <1>1, <2>1, <2>3, <2>5, <2>6 DEF ShareInv
<1>b. LogInv' /\ NowInv'
    BY <1>8, NowFrame DEF SafeInv, LogInv, Up
<1>c. FloorInv' /\ SeqInv'
    <2>1. \A s \in Seg : s < nextSeg => holds'[s] = holds[s]
        BY <1>1, <1>5
    <2>2. logDur' >= logDur /\ nextSeg' >= nextSeg
        <3>1. logDur \in Nat
            BY Numbers DEF SafeInv
        <3> QED
            BY <1>1, <3>1
    <2>3. Synced' => Synced
        BY DEF Synced
    <2> QED
        BY <1>1, <2>1, <2>2, <2>3, FloorSame
<1> QED
    BY <1>1, <1>9, <1>a, <1>b, <1>c, RestFrame DEF SafeInv

\* A seal or a flush begun.
LEMMA SafeSeal ==
    ASSUME SafeInv, TypeOK', DurableInv', SealTable \/ Flush
    PROVE  SafeInv'
<1>1. /\ Up /\ asked = "no"
      /\ UNCHANGED <<last, walLow, logDur, fent, fdur, torn, slot, device, segs, covered,
                     mseq, owed, retireTo, merge, wedged, mpc, land, phase, acked>>
      /\ asked' \in {"no", "sent"} /\ (asked' = "sent" => Flush)
    BY DEF SealTable, Flush, log, slots, work, step, Up
<1>2. CASE \E d \in BOOLEAN : Hand(d)
    <2>1. DrainInv'
        BY <1>1, <1>2 DEF Hand, DrainInv
    <2> QED
        BY <1>1, <1>2, <2>1, SafeHand
<1>3. CASE mem = {} /\ UNCHANGED <<queue, holds, frozen, nextSeg, mem>>
    <2>1. DrainInv'
        BY <1>1, <1>3 DEF DrainInv
    <2> QED
        BY <1>1, <1>3, <2>1, SafeFrame, RestFrame DEF Up
<1> QED
    BY <1>2, <1>3 DEF SealTable, Flush

\* A seal thread's report: files that are there, and durable, that were not.
LEMMA SafeThread ==
    ASSUME Steady, SafeInv, TypeOK', DurableInv', NEW i \in DOMAIN queue,
           SealNames(i) \/ SealSyncs(i) \/ SealThreadFails(i)
    PROVE  SafeInv'
<1>1. /\ Up /\ Up' /\ fdur \subseteq fdur' /\ torn' \subseteq torn
      /\ UNCHANGED <<last, walLow, logDur, holds, fent, slot, device, mem, frozen, segs,
                     covered, mseq, owed, retireTo, merge, wedged, nextSeg, mpc, land, phase,
                     asked, acked>>
    BY DEF SealNames, SealSyncs, SealThreadFails, log, segf, slots, state, work, step, Up
<1>2. PICK st \in {"named", "synced", "failed"} : SetSt(i, st)
    BY DEF SealNames, SealSyncs, SealThreadFails
<1>3. /\ Len(queue') = Len(queue) /\ (queue = <<>> => queue' = <<>>)
      /\ \A k \in 1..Len(queue) : queue'[k].seg = queue[k].seg /\ queue'[k].end = queue[k].end
    <2>1. queue \in Seq(Job) /\ i \in 1..Len(queue)
        BY JobsTyped DEF SafeInv
    <2>2. queue[i] \in Job
        BY <2>1, JobsTyped DEF SafeInv
    <2>3. queue' = [queue EXCEPT ![i] = [queue[i] EXCEPT !.st = st]]
        BY <1>2 DEF SetSt
    <2> QED
        BY <2>1, <2>2, <2>3 DEF Job
<1>4. RunInv' /\ (Between' <=> Between)
    BY <1>1, <1>3, RunFrame DEF SafeInv
<1>5. ShareInv' /\ NowInv' /\ DrainInv'
    BY <1>1, <1>3, <1>4, ShareFrame, NowFrame DEF SafeInv, DrainInv, Up
<1>6. LogInv'
    <2>1. torn = {}
        BY <1>1 DEF SafeInv, LogInv
    <2> QED
        BY <1>1, <2>1 DEF SafeInv, LogInv
<1>7. FloorInv' /\ SeqInv'
    <2>1. logDur' >= logDur /\ nextSeg' >= nextSeg
        <3>1. logDur \in Nat /\ nextSeg \in Nat
            BY Numbers DEF SafeInv
        <3> QED
            BY <1>1, <3>1
    <2>2. Synced' => Synced
        BY <1>1 DEF Synced
    <2> QED
        BY <1>1, <2>1, <2>2, FloorSame
<1> QED
    BY <1>1, <1>4, <1>5, <1>6, <1>7, RestFrame DEF SafeInv

-----------------------------------------------------------------------------
(* A seal's landing.                                                         *)

\* What is behind a seal that leaves the front.
LEMMA PopEnds ==
    ASSUME TypeOK, queue # <<>>, queue' = Tail(queue)
    PROVE  /\ Len(queue) \in Nat /\ Len(queue) >= 1 /\ Len(queue') = Len(queue) - 1
           /\ \A k \in 1..Len(queue') : queue'[k] = queue[k + 1] /\ k + 1 \in 1..Len(queue)
           /\ Head(queue) = queue[1] /\ 1 \in 1..Len(queue)
BY JobsTyped

\* A readable landing that fails, and one of a thread that failed: the queue
\* stops, with every table where it was.
LEMMA SafeWedge ==
    ASSUME SafeInv, TypeOK', DurableInv', Up, queue # <<>>, Head(queue).seg \in frozen,
           queue' = Tail(queue), wedged' = TRUE, Errs, fdur \subseteq fdur',
           UNCHANGED <<last, walLow, logDur, holds, files, fent, torn, slot, device, mem, frozen,
                       segs, covered, mseq, owed, retireTo, merge, nextSeg, mpc, drop, land,
                       phase, acked>>
    PROVE  SafeInv'
<1>1. Up' /\ ~Between /\ ~Between'
    <2>1. ~Between'
        BY QueuePopped DEF SafeInv, DurableInv
    <2> QED
        BY <2>1 DEF Up, Between, Landed
<1>2. RunInv'
    <2>1. /\ \A k \in 1..Len(queue') : queue'[k] = queue[k + 1] /\ k + 1 \in 1..Len(queue)
        BY PopEnds DEF SafeInv
    <2>2. \A k \in 1..Len(queue) : queue[k].end <= last
        BY DEF SafeInv, RunInv
    <2>3. \A k \in 1..Len(queue') : queue'[k].end <= last'
        BY <2>1, <2>2
    <2> QED
        BY <1>1, <2>3 DEF RunInv
<1>3. ShareInv' /\ NowInv'
    BY <1>1, ShareFrame, NowFrame DEF SafeInv
<1>4. LogInv'
    <2>1. torn = {}
        BY DEF SafeInv, LogInv
    <2> QED
        BY <2>1 DEF SafeInv, LogInv, Up
<1>5. DrainInv'
    <2>1. asked' \notin {"taken", "joined"} /\ (asked' # "no" => asked # "no")
        BY DEF Errs
    <2> QED
        BY <2>1 DEF SafeInv, DrainInv, Up
<1>6. FloorInv' /\ SeqInv'
    <2>1. logDur' >= logDur /\ nextSeg' >= nextSeg
        <3>1. logDur \in Nat /\ nextSeg \in Nat
            BY Numbers DEF SafeInv
        <3> QED
            BY <3>1
    <2>2. Synced' => Synced
        BY DEF Synced
    <2> QED
        BY <1>1, <2>1, <2>2, FloorSame
<1> QED
    BY <1>1, <1>2, <1>3, <1>4, <1>5, <1>6, RestFrame DEF SafeInv

\* Two sets of segments, and one more segment.
LEMMA InUnion ==
    ASSUME NEW h, NEW S, NEW T
    PROVE  In(h, S \cup T) = In(h, S) \cup In(h, T)
BY DEF In

LEMMA InAdd ==
    ASSUME NEW h, NEW S, NEW x
    PROVE  In(h, S \cup {x}) = In(h, S) \cup h[x]
BY DEF In

\* A table's batches become a segment's: the covered prefix reaches their end.
LEMMA SafePublish ==
    ASSUME SafeInv, TypeOK', DurableInv', Up, ~wedged, mpc = "idle", queue # <<>>,
           Head(queue).seg \in frozen, Publish(Head(queue)), fent \subseteq fent',
           UNCHANGED <<last, walLow, logDur, holds, fdur, torn, slot, device, mem,
                       mseq, owed, retireTo, queue, merge, wedged, nextSeg, mpc, land,
                       phase, asked, acked>>
    PROVE  SafeInv'
<1>1. /\ Head(queue) = queue[1] /\ 1 \in 1..Len(queue) /\ Len(queue) \in Nat /\ Len(queue) # 0
      /\ queue[1].seg \in Seg /\ queue[1].end \in Nat
    BY JobsTyped, FrontOf, Ends DEF SafeInv
<1>n. covered \in Nat /\ last \in Nat /\ logDur \in Nat /\ nextSeg \in Nat
    BY Numbers DEF SafeInv
<1>2. /\ covered <= queue[1].end /\ holds[queue[1].seg] = (covered + 1)..queue[1].end
      /\ queue[1].end <= last
    <2>1. /\ Before(1) <= queue[1].end
          /\ holds[queue[1].seg] = (Before(1) + 1)..queue[1].end
          /\ queue[1].end <= last
        BY <1>1 DEF SafeInv, RunInv
    <2> QED
        BY <2>1 DEF Before
<1>3. /\ covered' = queue[1].end /\ segs' = segs \cup {queue[1].seg}
      /\ frozen' = frozen \ {queue[1].seg} /\ Up'
    <2>1. covered' = Larger(covered, queue[1].end)
        BY <1>1 DEF Publish
    <2>2. Larger(covered, queue[1].end) = queue[1].end
        BY ONLY <1>1, <1>n, <1>2 DEF Larger
    <2> QED
        BY <1>1, <2>1, <2>2 DEF Publish, Up
<1>4. \A k \in 1..Len(queue) : k # 1 => queue[k].seg \in frozen'
    <2> SUFFICES ASSUME NEW k \in 1..Len(queue), k # 1 PROVE queue[k].seg \in frozen'
        OBVIOUS
    <2>1. JobInv(k)
        BY DEF SafeInv, DurableInv, QueueInv
    <2>2. queue[k].seg \in frozen /\ queue[1].seg # queue[k].seg
        BY <1>1, <2>1 DEF JobInv
    <2> QED
        BY <1>3, <2>2
<1>5. Tip' = Tip
    BY <1>1, QueueEnds DEF SafeInv
<1>6. RunInv'
    <2>1. ASSUME NEW i \in 1..Len(queue)
          PROVE  IF queue[i].seg \in frozen'
                 THEN /\ Before(i)' <= queue[i].end
                      /\ holds[queue[i].seg] = (Before(i)' + 1)..queue[i].end
                 ELSE queue[i].end = covered'
        <3>1. CASE i = 1
            BY <1>3, <3>1
        <3>2. CASE i # 1
            <4>1. Before(i)' = Before(i) /\ queue[i].seg \in frozen
                BY <1>3, <1>4, <3>2 DEF Before
            <4>2. /\ Before(i) <= queue[i].end
                  /\ holds[queue[i].seg] = (Before(i) + 1)..queue[i].end
                BY <4>1 DEF SafeInv, RunInv
            <4> QED
                BY <1>4, <3>2, <4>1, <4>2
        <3> QED
            BY <3>1, <3>2
    <2>2. Tip <= last /\ mem = (Tip + 1)..last /\ \A i \in 1..Len(queue) : queue[i].end <= last
        BY DEF SafeInv, RunInv
    <2> QED
        BY <1>5, <2>1, <2>2 DEF RunInv
<1>7. ShareInv'
    <2>1. /\ In(holds, segs) = 1..covered
          /\ Apart(holds, frozen \cup segs)
          /\ mem \cap In(holds, frozen \cup segs) = {}
          /\ mem \cup In(holds, frozen \cup segs) = 1..last
          /\ merge # NoMerge => /\ In(holds, merge.out) = In(holds, merge.in)
                                /\ \E x \in Seg : merge.out = {x}
        BY DEF SafeInv, ShareInv
    <2>2. frozen' \cup segs' = frozen \cup segs
        BY <1>1, <1>3
    <2>3. In(holds, segs') = (1..covered) \cup ((covered + 1)..queue[1].end)
        <3>1. In(holds, segs \cup {queue[1].seg}) = In(holds, segs) \cup holds[queue[1].seg]
            BY InAdd
        <3> QED
            BY <1>2, <1>3, <2>1, <3>1
    <2>4. (1..covered) \cup ((covered + 1)..queue[1].end) = 1..queue[1].end
        BY ONLY <1>1, <1>n, <1>2
    <2>5. In(holds', segs') = 1..covered'
        BY <1>3, <2>3, <2>4
    <2> QED
        BY <2>1, <2>2, <2>5 DEF ShareInv
<1>8. LogInv' /\ DrainInv'
    BY <1>2, <1>3 DEF SafeInv, LogInv, DrainInv, Up
<1>9. NowInv'
    <2>1. Now.m.covered \in Nat
        BY NowGood
    <2>2. Between' /\ Now' = Now
        BY <1>1, <1>3, QueueEnds DEF SafeInv, Now
    <2>3. /\ Now.ok /\ Now.m.seq = mseq
          /\ retireTo <= Now.m.covered /\ Now.m.covered <= covered
          /\ owed # {} => Defers /\ (mpc # "sync" => owed = {mseq % 2})
        BY DEF SafeInv, NowInv
    <2>4. Now.m.covered <= covered'
        BY <1>n, <1>1, <1>2, <1>3, <2>1, <2>3
    <2> QED
        BY <2>2, <2>3, <2>4 DEF NowInv
<1>a. FloorInv' /\ SeqInv'
    <2>1. logDur' >= logDur /\ nextSeg' >= nextSeg
        BY <1>n
    <2>2. Synced' => Synced
        BY DEF Synced
    <2> QED
        BY <1>3, <2>1, <2>2, FloorSame
<1> QED
    BY <1>3, <1>6, <1>7, <1>8, <1>9, <1>a, RestFrame DEF SafeInv

\* The readable landing, and that of a failed thread.
LEMMA SafeReadable ==
    ASSUME Steady, SafeInv, TypeOK', DurableInv', LandReadable \/ LandFailed
    PROVE  SafeInv'
<1>1. /\ Up /\ ~wedged /\ mpc = "idle" /\ queue # <<>>
      /\ UNCHANGED <<last, walLow, logDur, holds, files, torn, slot, device, mem, mseq, owed,
                     retireTo, merge, nextSeg, mpc, drop, land, phase, acked>>
    BY DEF LandReadable, Readable, LandFailed, MaintReady, FrontIs, Up, log, segf, slots, state,
           work
<1>2. CASE LandFailed
    <2>1. Head(queue) = queue[1] /\ 1 \in 1..Len(queue)
        BY <1>1, JobsTyped, FrontOf DEF SafeInv
    <2>2. Head(queue).st = "failed" /\ queue' = Tail(queue) /\ Errs
          /\ wedged' = ~Landed(Head(queue))
          /\ UNCHANGED <<frozen, segs, covered, fent, fdur>>
        BY <1>2 DEF LandFailed, FrontIs, segf, state, work
    <2>3. JobInv(1)
        BY <2>1 DEF SafeInv, DurableInv, QueueInv
    <2>4. Head(queue).seg \in frozen
        BY <2>1, <2>2, <2>3 DEF JobInv
    <2>5. wedged' = TRUE
        BY <2>2, <2>4 DEF Landed
    <2> QED
        BY <1>1, <2>2, <2>4, <2>5, SafeWedge
<1>3. CASE LandReadable
    <2>1. Head(queue).seg \in frozen /\ "dirsync" \notin Faults /\ fent \subseteq files
        BY <1>3 DEF LandReadable, Readable, Landed, Steady, SafeInv, DurableInv, FileNames
    <2>2. CASE /\ Publish(Head(queue)) /\ fent' = files
               /\ NoErr /\ UNCHANGED <<queue, fdur, wedged>>
        BY <1>1, <2>1, <2>2, SafePublish DEF NoErr
    <2>3. CASE Wedge /\ UNCHANGED <<segs, frozen, covered, fent>>
        BY <1>1, <2>1, <2>3, SafeWedge DEF Wedge
    <2> QED
        BY <1>3, <2>1, <2>2, <2>3 DEF LandReadable, Fault
<1> QED
    BY <1>2, <1>3

\* A manifest of live segments that are durable and hold what is covered.
LEMMA LiveGood ==
    ASSUME SafeInv, Up, Up', NEW m \in Manifest, m.covered = covered, m.pending = {},
           OnDevice(m.names)', In(holds', m.names) = 1..covered, Apart(holds', m.names),
           \A s \in m.names : s < nextSeg', UNCHANGED <<walLow, acked, logDur>>
    PROVE  Good(m)'
<1>1. Now.m.covered \in Nat /\ walLow <= Now.m.covered
      /\ acked <= Larger(Now.m.covered, logDur) /\ Now.m.covered <= covered
    BY NowGood DEF SafeInv, NowInv
<1>2. walLow \in Nat /\ acked \in Nat /\ logDur \in Nat /\ covered \in Nat
    BY Numbers DEF SafeInv
<1>3. walLow <= covered /\ acked <= Larger(covered, logDur)
    <2> DEFINE x == Now.m.covered
    <2>1. x \in Nat /\ walLow <= x /\ acked <= Larger(x, logDur) /\ x <= covered
        BY <1>1
    <2> HIDE DEF x
    <2> QED
        BY ONLY <1>2, <2>1 DEF Larger
<1>4. OnDevice(m.names \ m.pending)' /\ Holds(m)'
    BY DEF OnDevice, Holds, In
<1> QED
    BY <1>3, <1>4 DEF Good, Safe

\* The next sequence's slot written: nothing on the device that an open would
\* have taken is lost to a tear, since the slot written is the other one.
LEMMA SlotWrite ==
    ASSUME Steady, SafeInv, TypeOK', Up, Up', mpc # "sync", ~Synced',
           NEW m \in Manifest, m.seq = mseq + 1, WriteSlot(m), Good(m)', mseq' = mseq + 1,
           UNCHANGED <<holds, fent, fdur, walLow, acked, logDur, nextSeg>>
    PROVE  SeqInv' /\ FloorInv' /\ Now'.ok /\ Now'.m = m
<1> DEFINE j == m.seq % 2
           new == [ok |-> TRUE, m |-> m]
<1>1. mseq \in Nat /\ j \in Slots /\ mseq % 2 \in Slots /\ j # mseq % 2 /\ j = mseq' % 2
    BY Numbers, Parity DEF SafeInv
<1>2. slot \in [Slots -> Content] /\ device \in [Slots -> SUBSET Content]
    BY DEF SafeInv, TypeOK, TypeSlots
<1>3. /\ \A i \in Slots : slot'[i] = IF i = j THEN new ELSE slot[i]
      /\ \A i \in Slots : i # j => device'[i] = device[i]
      /\ \A c \in device'[j] : c \in device[j] \/ c = new \/ (c = Torn /\ "tear" \in Faults)
      /\ device[j] \subseteq device'[j] /\ new \in device'[j]
    BY <1>1, <1>2 DEF WriteSlot
<1>4. new.ok /\ new.m = m /\ ~Torn.ok
    BY DEF Torn
<1>5. \A i \in Slots : /\ slot[i] \in device[i]
                       /\ \A c \in device[i] : c.ok => c.m.seq % 2 = i /\ c.m.seq <= mseq
    BY DEF SafeInv, SeqInv
<1>6. \A i \in Slots : \A c \in device[i] : c.m.seq \in Nat
    BY Contents DEF SafeInv, TypeOK
<1> HIDE DEF new
<1>7. ASSUME NEW i \in Slots, NEW c \in device'[i], c.ok
      PROVE  c \in device[i] \/ (i = j /\ c = new)
    BY <1>3, <1>4, <1>7
<1>8. SeqInv'
    <2>1. \A i \in Slots : slot'[i] \in device'[i]
        BY <1>3, <1>5
    <2>2. ASSUME NEW i \in Slots, NEW c \in device'[i], c.ok
          PROVE  c.m.seq % 2 = i /\ c.m.seq <= mseq'
        <3>1. CASE c \in device[i]
            <4>1. c.m.seq % 2 = i /\ c.m.seq <= mseq /\ c.m.seq \in Nat
                BY <1>5, <1>6, <2>2, <3>1
            <4> QED
                BY <1>1, <4>1
        <3>2. CASE i = j /\ c = new
            BY <1>1, <1>4, <3>2
        <3> QED
            BY <1>7, <2>2, <3>1, <3>2
    <2> QED
        BY <2>1, <2>2 DEF SeqInv
<1>9. Now'.ok /\ Now'.m = m
    BY <1>1, <1>3, <1>4 DEF Now
<1>a. \A n : Good(n) => Good(n)'
    BY DEF Good, Safe, OnDevice, Holds, Apart, Up
<1>b. PICK p \in Slots : \E c \in device[p] : Floor(p, c.m.seq)
    BY DEF SafeInv, FloorInv
<1>c. PICK c \in device[p] : Floor(p, c.m.seq)
    BY <1>b
<1>d. c.ok /\ c.m.seq \in Nat /\ c.m.seq <= mseq /\ c.m.seq % 2 = p
    BY <1>5, <1>6, <1>c DEF Floor
<1>e. "tear" \in Faults => p # j
    <2> SUFFICES ASSUME "tear" \in Faults PROVE p # j
        OBVIOUS
    <2>1. Synced
        BY DEF Steady, SafeInv, NowInv, Synced
    <2>2. c.m.seq = mseq
        BY <1>c, <2>1 DEF Floor
    <2> QED
        BY <1>1, <1>d, <2>2
<1>f. \A d \in device'[p] : d.ok /\ d.m.seq >= c.m.seq
    <2> SUFFICES ASSUME NEW d \in device'[p] PROVE d.ok /\ d.m.seq >= c.m.seq
        OBVIOUS
    <2>1. CASE d \in device[p]
        BY <1>c, <2>1 DEF Floor
    <2>2. CASE d = new
        BY <1>1, <1>4, <1>d, <2>2
    <2> QED
        BY <1>3, <1>e, <2>1, <2>2
<1>g. \A i \in Slots : \A d \in device'[i] : d.ok /\ d.m.seq >= c.m.seq => Good(d.m)'
    <2> SUFFICES ASSUME NEW i \in Slots, NEW d \in device'[i], d.ok, d.m.seq >= c.m.seq
                 PROVE  Good(d.m)'
        OBVIOUS
    <2>1. CASE d \in device[i]
        BY <1>a, <1>c, <2>1 DEF Floor
    <2>2. CASE d = new
        <3>1. d.m = m
            BY <1>4, <2>2
        <3> QED
            BY <3>1
    <2> QED
        BY <1>7, <2>1, <2>2
<1>h. Floor(p, c.m.seq)'
    BY <1>f, <1>g DEF Floor
<1>i. c \in device'[p]
    BY <1>3
<1>j. FloorInv'
    BY <1>h, <1>i DEF FloorInv
<1> QED
    BY <1>8, <1>9, <1>j

\* The run after its front, a landed one, has left.
LEMMA RunPopped ==
    ASSUME SafeInv, TypeOK', Up, Up', ~wedged, queue # <<>>, Head(queue).seg \notin frozen,
           queue' = Tail(queue),
           UNCHANGED <<wedged, frozen, covered, mem, last, holds>>, ~Between'
    PROVE  RunInv' /\ queue[1].end = covered /\ Head(queue) = queue[1] /\ covered \in Nat
<1>1. /\ Len(queue) \in Nat /\ Len(queue) >= 1 /\ Len(queue') = Len(queue) - 1
      /\ \A k \in 1..Len(queue') : queue'[k] = queue[k + 1] /\ k + 1 \in 1..Len(queue)
      /\ Head(queue) = queue[1] /\ 1 \in 1..Len(queue)
    BY PopEnds DEF SafeInv
<1>2. queue[1].end = covered
    BY <1>1 DEF SafeInv, RunInv
<1>3. \A k \in 1..Len(queue') : queue[k + 1].seg \in frozen
    <2> SUFFICES ASSUME NEW k \in 1..Len(queue') PROVE queue[k + 1].seg \in frozen
        OBVIOUS
    <2>1. JobInv(k + 1) /\ k + 1 > 1
        BY <1>1 DEF SafeInv, DurableInv, QueueInv
    <2> QED
        BY <2>1 DEF JobInv
<1>4. \A k \in 1..Len(queue') : Before(k)' = Before(k + 1)
    <2> SUFFICES ASSUME NEW k \in 1..Len(queue') PROVE Before(k)' = Before(k + 1)
        OBVIOUS
    <2>1. k + 1 # 1 /\ k + 1 - 1 = k /\ k \in Nat
        BY <1>1
    <2>2. CASE k = 1
        BY <1>2, <2>1, <2>2 DEF Before
    <2>3. CASE k # 1
        <3>1. k - 1 \in 1..Len(queue') /\ k - 1 + 1 = k
            BY <1>1, <2>3
        <3>2. queue'[k - 1] = queue[k]
            BY <1>1, <3>1
        <3> QED
            BY <2>1, <2>3, <3>2 DEF Before
    <2> QED
        BY <2>2, <2>3
<1>5. \A k \in 1..Len(queue') :
        /\ queue'[k].seg \in frozen'
        /\ Before(k)' <= queue'[k].end
        /\ holds'[queue'[k].seg] = (Before(k)' + 1)..queue'[k].end
    <2> SUFFICES ASSUME NEW k \in 1..Len(queue')
                 PROVE  /\ queue'[k].seg \in frozen'
                        /\ Before(k)' <= queue'[k].end
                        /\ holds'[queue'[k].seg] = (Before(k)' + 1)..queue'[k].end
        OBVIOUS
    <2>1. queue'[k] = queue[k + 1] /\ k + 1 \in 1..Len(queue) /\ queue[k + 1].seg \in frozen
          /\ Before(k)' = Before(k + 1)
        BY <1>1, <1>3, <1>4
    <2>2. /\ Before(k + 1) <= queue[k + 1].end
          /\ holds[queue[k + 1].seg] = (Before(k + 1) + 1)..queue[k + 1].end
        BY <2>1 DEF SafeInv, RunInv
    <2> QED
        BY <2>1, <2>2
<1>6. Tip' = Tip
    <2>1. /\ Tip = queue[Len(queue)].end
          /\ Tip' = IF Len(queue') = 0 THEN covered ELSE queue'[Len(queue')].end
        BY <1>1, QueueEnds DEF SafeInv
    <2>2. CASE Len(queue') = 0
        <3>0. Len(queue) \in Nat /\ Len(queue) - 1 = 0
            BY <1>1, <2>2
        <3>1. Len(queue) = 1
            BY ONLY <3>0
        <3> QED
            BY <1>2, <2>1, <2>2, <3>1
    <2>3. CASE Len(queue') # 0
        <3>1. Len(queue') \in 1..Len(queue') /\ Len(queue') + 1 = Len(queue)
            BY <1>1, <2>3
        <3> QED
            BY <1>1, <2>1, <2>3, <3>1
    <2> QED
        BY <2>2, <2>3
<1>7. Tip <= last /\ mem = (Tip + 1)..last /\ \A i \in 1..Len(queue) : queue[i].end <= last
    BY DEF SafeInv, RunInv
<1>8. \A k \in 1..Len(queue') : queue'[k].end <= last'
    BY <1>1, <1>7
<1>9. covered \in Nat
    BY Numbers DEF SafeInv
<1> QED
    BY <1>1, <1>2, <1>5, <1>6, <1>7, <1>8, <1>9 DEF RunInv

\* A publish of the live segments by a seal's durable landing.
LEMMA SafeLanding ==
    ASSUME Steady, SafeInv, TypeOK', DurableInv', LandDeferred \/ LandDurable
    PROVE  SafeInv'
<1>1. /\ Up /\ Up' /\ mpc = "idle" /\ ~wedged /\ queue # <<>> /\ Head(queue).seg \notin frozen
      /\ queue' = Tail(queue) /\ mseq' = mseq + 1 /\ WriteSlot(LiveSet(segs, covered))
      /\ UNCHANGED <<last, walLow, logDur, holds, files, fent, fdur, torn, mem, frozen, segs,
                     covered, merge, wedged, nextSeg, drop, asked, phase, acked>>
      /\ \/ mpc' = "idle" /\ owed' = {mseq' % 2} /\ land' = land /\ Defers
            /\ retireTo' = Larger(retireTo, Head(queue).end)
         \/ mpc' = "sync" /\ UNCHANGED <<owed, retireTo>> /\ land' = Head(queue).end
    BY DEF LandDeferred, LandDurable, Durable, Defer, MaintReady, FrontIs, Landed, NoErr, Up,
           Fault, Steady, LiveSet, log, segf, state, slots
<1>2. OnDevice(segs)
    BY DurableLanding DEF SafeInv
<1>3. ~Between'
    BY <1>1, QueuePopped DEF SafeInv, DurableInv
<1>4. RunInv' /\ queue[1].end = covered /\ Head(queue) = queue[1] /\ covered \in Nat
    BY <1>1, <1>3, RunPopped
<1>5. PICK m \in Manifest : m = LiveSet(segs, covered)
    BY LiveSetType DEF SafeInv, TypeOK, TypeState, TypeWork
<1>6. m.seq = mseq + 1 /\ m.covered = covered /\ m.names = segs /\ m.pending = {}
    BY <1>5 DEF LiveSet
<1>7. Good(m)'
    <2>1. /\ In(holds, segs) = 1..covered /\ Apart(holds, segs)
        BY <1>1 DEF SafeInv, ShareInv, Apart
    <2>2. \A s \in segs : s < nextSeg
        BY DEF SafeInv, DurableInv, IdsUsed
    <2>3. OnDevice(m.names)'
        BY <1>1, <1>2, <1>6 DEF OnDevice
    <2> QED
        BY <1>1, <1>6, <2>1, <2>2, <2>3, LiveGood
<1>8. ~Synced'
    BY <1>1 DEF Synced, Up
<1>9. SeqInv' /\ FloorInv' /\ Now'.ok /\ Now'.m = m
    <2>1. WriteSlot(m)
        BY <1>1, <1>5
    <2>2. mpc # "sync"
        BY <1>1
    <2> QED
        BY <1>1, <1>6, <1>7, <1>8, <2>1, <2>2, SlotWrite
<1>a. NowInv'
    <2>1. retireTo \in Nat /\ Now.m.covered \in Nat /\ land = 0
        BY <1>1, NowGood, Numbers DEF SafeInv, RestInv
    <2>2. retireTo <= Now.m.covered /\ Now.m.covered <= covered
          /\ (owed # {} => Defers)
        BY <1>1 DEF SafeInv, NowInv
    <2>3. retireTo <= covered
        <3> DEFINE x == Now.m.covered
        <3>1. x \in Nat /\ retireTo <= x /\ x <= covered
            BY <2>1, <2>2
        <3> HIDE DEF x
        <3> QED
            BY ONLY <1>4, <2>1, <3>1
    <2>4. retireTo' <= covered'
        <3>1. retireTo' = retireTo \/ retireTo' = Larger(retireTo, covered)
            BY <1>1, <1>4
        <3>2. Larger(retireTo, covered) = covered \/ Larger(retireTo, covered) = retireTo
            BY DEF Larger
        <3>3. covered <= covered /\ covered' = covered
            BY <1>1, <1>4
        <3> QED
            BY <2>3, <3>1, <3>2, <3>3
    <2>5. Now'.m.seq = mseq' /\ Now'.m.covered = covered' /\ Now'.m.names = segs'
        BY <1>1, <1>6, <1>9
    <2>6. land' <= covered' /\ covered' <= covered'
        BY <1>1, <1>4, <2>1
    <2>7. owed' # {} => Defers /\ (mpc' # "sync" => owed' = {mseq' % 2})
        BY <1>1, <2>2
    <2> QED
        BY <1>3, <1>9, <2>4, <2>5, <2>6, <2>7 DEF NowInv
<1>b. ShareInv' /\ LogInv'
    BY <1>1, ShareFrame DEF SafeInv, LogInv, Up
<1>c. DrainInv'
    BY <1>1 DEF SafeInv, DrainInv, Up
<1>d. RestInv'
    BY <1>1 DEF SafeInv, RestInv, Up
<1> QED
    BY <1>4, <1>9, <1>a, <1>b, <1>c, <1>d DEF SafeInv

-----------------------------------------------------------------------------
(* Merges.                                                                   *)

\* A merge begun: its output has an id nothing else has.
LEMMA SafeStart ==
    ASSUME SafeInv, TypeOK', DurableInv', StartMerge
    PROVE  SafeInv'
<1>1. /\ Up /\ Up' /\ nextSeg' = nextSeg + 1 /\ nextSeg \in Nat /\ nextSeg \in Seg
      /\ UNCHANGED <<last, walLow, logDur, files, fent, fdur, torn, slot, device, mem, frozen,
                     segs, covered, mseq, owed, retireTo, queue, wedged, mpc, land, asked,
                     phase, acked>>
    BY LandingAssumption DEF StartMerge, MaintReady, Up, SafeInv, TypeOK, TypeFlight, Seg, log,
       slots, state, work, step
<1>2. PICK in \in SUBSET segs \ {{}} :
        /\ merge' = [in |-> in, out |-> {nextSeg}, done |-> FALSE]
        /\ holds' = [holds EXCEPT ![nextSeg] = UNION {holds[s] : s \in in}]
    BY DEF StartMerge
<1>3. /\ segs \cup frozen \subseteq Seg /\ nextSeg \notin segs \cup frozen
    BY <1>1, IdsTyped DEF SafeInv, DurableInv, IdsUsed, Seg
<1>4. /\ \A s \in Seg : s # nextSeg => holds'[s] = holds[s]
      /\ holds'[nextSeg] = In(holds, in)
    BY <1>1, <1>2 DEF SafeInv, TypeOK, TypeFiles, In
<1>5. \A k \in 1..Len(queue) : holds'[queue[k].seg] = holds[queue[k].seg]
    <2> SUFFICES ASSUME NEW k \in 1..Len(queue) PROVE holds'[queue[k].seg] = holds[queue[k].seg]
        OBVIOUS
    <2>1. queue[k].seg \in Seg /\ queue[k].seg \in Nat /\ queue[k].seg < nextSeg
        BY JobsTyped, Ends DEF SafeInv, DurableInv, QueueInv, JobInv
    <2>2. queue[k].seg # nextSeg
        BY <1>1, <2>1
    <2> QED
        BY <1>4, <2>1, <2>2
<1>6. RunInv' /\ (Between' <=> Between)
    BY <1>1, <1>5, RunFrame DEF SafeInv
<1>7. ShareInv'
    <2>1. /\ In(holds, segs) = 1..covered
          /\ Apart(holds, frozen \cup segs)
          /\ mem \cap In(holds, frozen \cup segs) = {}
          /\ mem \cup In(holds, frozen \cup segs) = 1..last
        BY <1>1 DEF SafeInv, ShareInv
    <2>2. ASSUME NEW S, S \subseteq segs \cup frozen
          PROVE  In(holds', S) = In(holds, S) /\ (Apart(holds, S) => Apart(holds', S))
        <3>1. \A s \in S : holds[s] = holds'[s]
            BY <1>3, <1>4, <2>2
        <3> QED
            BY <3>1, InSame
    <2>3. /\ In(holds', segs) = In(holds, segs)
          /\ In(holds', frozen \cup segs) = In(holds, frozen \cup segs)
          /\ Apart(holds', frozen \cup segs)
          /\ In(holds', in) = In(holds, in)
        BY <1>2, <2>1, <2>2
    <2>4. merge'.in = in /\ merge'.out = {nextSeg}
        BY <1>2
    <2>5. In(holds', {nextSeg}) = holds'[nextSeg]
        BY DEF In
    <2>6. In(holds', merge'.out) = In(holds', merge'.in) /\ \E x \in Seg : merge'.out = {x}
        BY <1>1, <1>4, <2>3, <2>4, <2>5
    <2> QED
        BY <1>1, <2>1, <2>3, <2>6 DEF ShareInv
<1>8. LogInv' /\ DrainInv' /\ NowInv' /\ RestInv'
    BY <1>1, <1>6, NowFrame, RestFrame DEF SafeInv, LogInv, DrainInv, Up
<1>9. FloorInv' /\ SeqInv'
    <2>1. \A s \in Seg : s < nextSeg => holds'[s] = holds[s]
        BY <1>1, <1>4
    <2>2. logDur' >= logDur /\ nextSeg' >= nextSeg
        <3>1. logDur \in Nat
            BY Numbers DEF SafeInv
        <3> QED
            BY <1>1, <3>1
    <2>3. Synced' => Synced
        BY <1>1 DEF Synced
    <2> QED
        BY <1>1, <2>1, <2>2, <2>3, FloorSame
<1> QED
    BY <1>6, <1>7, <1>8, <1>9 DEF SafeInv

\* Its thread's return.
LEMMA SafeDone ==
    ASSUME SafeInv, TypeOK', DurableInv', MergeDone
    PROVE  SafeInv'
<1>1. /\ Up /\ Up' /\ merge # NoMerge /\ merge' = [merge EXCEPT !.done = TRUE]
      /\ fdur \subseteq fdur' /\ fent' = files' /\ files \subseteq files' /\ torn' \subseteq torn
      /\ UNCHANGED <<last, walLow, logDur, holds, slot, device, mem, frozen,
                     segs, covered, mseq, owed, retireTo, queue, wedged, mpc, land, asked,
                     phase, acked, nextSeg>>
    BY DEF MergeDone, Up, log, slots, state, work, step
<1>2. merge'.in = merge.in /\ merge'.out = merge.out
    BY <1>1 DEF SafeInv, TypeOK, TypeFlight
<1>3. fent \subseteq fent' /\ torn = {}
    BY <1>1 DEF SafeInv, DurableInv, FileNames, LogInv
<1>4. RunInv' /\ (Between' <=> Between)
    BY <1>1, RunFrame DEF SafeInv
<1>5. ShareInv'
    <2>1. /\ In(holds, segs) = 1..covered
          /\ Apart(holds, frozen \cup segs)
          /\ mem \cap In(holds, frozen \cup segs) = {}
          /\ mem \cup In(holds, frozen \cup segs) = 1..last
          /\ In(holds, merge.out) = In(holds, merge.in)
          /\ \E x \in Seg : merge.out = {x}
        BY <1>1 DEF SafeInv, ShareInv
    <2> QED
        BY <1>1, <1>2, <2>1 DEF ShareInv
<1>6. LogInv' /\ DrainInv' /\ NowInv' /\ RestInv'
    BY <1>1, <1>3, <1>4, NowFrame, RestFrame DEF SafeInv, LogInv, DrainInv, Up
<1>7. FloorInv' /\ SeqInv'
    <2>1. logDur' >= logDur /\ nextSeg' >= nextSeg
        <3>1. logDur \in Nat /\ nextSeg \in Nat
            BY Numbers DEF SafeInv
        <3> QED
            BY <1>1, <3>1
    <2>2. Synced' => Synced
        BY <1>1 DEF Synced
    <2> QED
        BY <1>1, <1>3, <2>1, <2>2, FloorSame
<1> QED
    BY <1>4, <1>5, <1>6, <1>7 DEF SafeInv

\* A merge's output in place of its inputs, and the slot that names it written.
LEMMA SafeMerged ==
    ASSUME Steady, SafeInv, TypeOK', DurableInv', LandMerge
    PROVE  SafeInv'
<1>1. /\ Up /\ Up' /\ mpc = "idle" /\ ~Between /\ merge # NoMerge /\ merge' = NoMerge
      /\ UNCHANGED <<last, walLow, logDur, holds, files, fent, fdur, torn, mem, frozen,
                     covered, owed, retireTo, queue, wedged, nextSeg, land, phase, acked>>
    BY DEF LandMerge, MaintReady, NoMerge, Up, log, segf
<1>2. /\ In(holds, segs) = 1..covered
      /\ Apart(holds, frozen \cup segs)
      /\ mem \cap In(holds, frozen \cup segs) = {}
      /\ mem \cup In(holds, frozen \cup segs) = 1..last
      /\ In(holds, merge.out) = In(holds, merge.in)
    BY <1>1 DEF SafeInv, ShareInv
<1>3. RunInv' /\ (Between' <=> Between)
    BY <1>1, RunFrame DEF SafeInv
<1>4. LogInv'
    BY <1>1 DEF SafeInv, LogInv, Up
<1>5. CASE /\ segs' = (segs \ merge.in) \cup merge.out
           /\ WriteSlot(LiveSet(segs', covered))
           /\ mseq' = mseq + 1
           /\ mpc' = "sync" /\ NoErr
    <2>1. PICK x \in Seg : merge.out = {x}
        BY <1>1 DEF SafeInv, ShareInv
    <2>2. merge.in \subseteq segs /\ frozen \cap segs = {}
        BY DEF SafeInv, DurableInv, MergeInv
    <2>3. holds[x] = In(holds, merge.in)
        BY <1>2, <2>1 DEF In
    <2>4. In(holds, segs') = In(holds, segs)
        <3>1. In(holds, segs') = In(holds, segs \ merge.in) \cup holds[x]
            BY <1>5, <2>1, InAdd
        <3>2. In(holds, segs) = In(holds, segs \ merge.in) \cup In(holds, merge.in)
            BY <2>2 DEF In
        <3> QED
            BY <2>3, <3>1, <3>2
    <2>5. In(holds, frozen \cup segs') = In(holds, frozen \cup segs)
        <3>1. In(holds, frozen \cup segs') = In(holds, frozen) \cup In(holds, segs')
            BY InUnion
        <3>2. In(holds, frozen \cup segs) = In(holds, frozen) \cup In(holds, segs)
            BY InUnion
        <3> QED
            BY <2>4, <3>1, <3>2
    <2>6. Apart(holds, frozen \cup segs')
        <3>1. ASSUME NEW s \in (frozen \cup segs) \ merge.in
              PROVE  holds[s] \cap holds[x] = {}
            <4>1. \A t \in merge.in : holds[s] \cap holds[t] = {}
                BY <1>2, <2>2 DEF Apart
            <4> QED
                BY <2>3, <4>1 DEF In
        <3>2. \A s \in frozen \cup segs' : s = x \/ s \in (frozen \cup segs) \ merge.in
            BY <1>5, <2>1, <2>2
        <3> QED
            BY <1>2, <3>1, <3>2 DEF Apart
    <2>7. ShareInv'
        <3>1. In(holds', segs') = 1..covered'
            BY <1>1, <1>2, <2>4
        <3>2. /\ mem' \cap In(holds', frozen' \cup segs') = {}
              /\ mem' \cup In(holds', frozen' \cup segs') = 1..last'
              /\ Apart(holds', frozen' \cup segs')
            BY <1>1, <1>2, <2>5, <2>6
        <3> QED
            BY <1>1, <3>1, <3>2 DEF ShareInv
    <2>8. segs' \in SUBSET Seg /\ covered \in 0..MaxBatch /\ covered \in Nat /\ land = 0
        BY <1>1, Numbers DEF SafeInv, TypeOK, TypeState, TypeWork, RestInv
    <2>9. PICK m \in Manifest : m = LiveSet(segs', covered)
        BY <2>8, LiveSetType DEF SafeInv, TypeOK
    <2>a. m.seq = mseq + 1 /\ m.covered = covered /\ m.names = segs' /\ m.pending = {}
        BY <2>9 DEF LiveSet
    <2>b. Good(m)'
        <3>1. Apart(holds', segs')
            BY <1>1, <2>6 DEF Apart
        <3>2. \A s \in segs' : s < nextSeg'
            BY DEF DurableInv, IdsUsed
        <3>3. OnDevice(m.names)'
            <4>1. OnDevice((segs \ merge.in) \cup merge.out)
                BY DurableMerged DEF SafeInv
            <4> QED
                BY <1>1, <1>5, <2>a, <4>1 DEF OnDevice
        <3>4. In(holds', m.names) = 1..covered
            BY <1>1, <1>2, <2>4, <2>a
        <3> QED
            BY <1>1, <2>a, <3>1, <3>2, <3>3, <3>4, LiveGood
    <2>c. SeqInv' /\ FloorInv' /\ Now'.ok /\ Now'.m = m
        <3>1. WriteSlot(m)
            BY <1>5, <2>9
        <3>2. mpc # "sync" /\ ~Synced'
            BY <1>1, <1>5 DEF Synced, Up
        <3> QED
            BY <1>1, <1>5, <2>a, <2>b, <3>1, <3>2, SlotWrite
    <2>d. NowInv'
        <3>1. Now.m.covered = covered /\ retireTo <= Now.m.covered /\ (owed # {} => Defers)
            BY <1>1 DEF SafeInv, NowInv
        <3>2. retireTo' <= covered' /\ land' <= covered' /\ covered' <= covered'
            BY <1>1, <2>8, <3>1
        <3>3. Now'.m.seq = mseq' /\ Now'.m.covered = covered' /\ Now'.m.names = segs'
            BY <1>1, <1>5, <2>a, <2>c
        <3> QED
            BY <1>1, <1>3, <1>5, <2>c, <3>1, <3>2, <3>3 DEF NowInv
    <2>e. DrainInv' /\ RestInv'
        BY <1>1, <1>5 DEF SafeInv, DrainInv, RestInv, NoErr, Up
    <2> QED
        BY <1>3, <1>4, <2>7, <2>c, <2>d, <2>e DEF SafeInv
<1>6. CASE Errs /\ UNCHANGED <<segs, slots, mseq, drop, mpc>>
    <2>1. ShareInv'
        BY <1>1, <1>2, <1>6 DEF ShareInv
    <2>2. DrainInv' /\ RestInv'
        <3>1. asked' \notin {"taken", "joined"} /\ (asked' # "no" => asked # "no")
            BY <1>6 DEF Errs
        <3> QED
            BY <1>1, <1>6, <3>1, RestFrame DEF SafeInv, DrainInv, Up
    <2>3. NowInv'
        BY <1>1, <1>3, <1>6, NowFrame DEF SafeInv, Up, slots
    <2>4. FloorInv' /\ SeqInv'
        <3>1. logDur' >= logDur /\ nextSeg' >= nextSeg
            <4>1. logDur \in Nat /\ nextSeg \in Nat
                BY Numbers DEF SafeInv
            <4> QED
                BY <1>1, <4>1
        <3>2. Synced' => Synced
            BY <1>1, <1>6 DEF Synced
        <3> QED
            BY <1>1, <1>6, <3>1, <3>2, FloorSame DEF slots
    <2> QED
        BY <1>3, <1>4, <2>1, <2>2, <2>3, <2>4 DEF SafeInv
<1> QED
    BY <1>5, <1>6 DEF LandMerge

-----------------------------------------------------------------------------
(* The newest slot synced, and what it lets go.                              *)

LEMMA SafeSync ==
    ASSUME SafeInv, TypeOK', DurableInv', Up, SyncSlot(mseq % 2),
           UNCHANGED <<last, logDur, holds, torn, slot, mem, frozen, segs, covered, mseq, queue,
                       merge, wedged, nextSeg, asked, phase, acked>>,
           owed' = {}, mpc' = "idle", land' = 0, retireTo' <= Now.m.covered,
           walLow' = walLow \/ walLow' = Larger(walLow, retireTo'),
           fdur' \subseteq fdur, \A s \in Now.m.names : s \in fent' \cap fdur'
    PROVE  SafeInv'
<1>1. Now \in device[mseq % 2] /\ Good(Now.m) /\ walLow <= Now.m.covered
      /\ acked <= Larger(Now.m.covered, logDur) /\ Now.m \in Manifest /\ Now.m.covered \in Nat
    BY NowGood
<1>2. walLow' <= Now.m.covered
    <2>1. Larger(walLow, retireTo') \in {walLow, retireTo'}
        BY DEF Larger
    <2> QED
        BY <1>1, <2>1
<1>3. Up' /\ Now' = Now
    BY DEF Up, Now
<1>4. ASSUME NEW m \in Manifest, m = Now.m
      PROVE  Good(m)'
    <2>1. OnDevice(m.names)'
        BY <1>4 DEF OnDevice
    <2>2. nextSeg \in Nat /\ nextSeg' >= nextSeg /\ TypeOK
        <3>1. nextSeg \in Nat
            BY Numbers DEF SafeInv
        <3> QED
            BY <3>1 DEF SafeInv
    <2> QED
        BY <1>1, <1>2, <1>4, <2>1, <2>2, GoodKept
<1>5. SeqInv' /\ FloorInv'
    BY <1>4, SyncNow DEF SyncSlot
<1>6. RunInv' /\ (Between' <=> Between)
    BY <1>3, RunFrame DEF SafeInv
<1>7. ShareInv' /\ DrainInv' /\ RestInv'
    BY <1>3, ShareFrame DEF SafeInv, DrainInv, RestInv, Up
<1>8. NowInv'
    BY <1>3, <1>6 DEF SafeInv, NowInv
<1>9. LogInv'
    <2>1. Now.m.covered <= covered /\ covered <= last
        BY DEF SafeInv, NowInv, LogInv
    <2>2. covered \in Nat /\ last \in Nat /\ walLow' \in Nat
        BY LandingAssumption, Numbers DEF SafeInv, TypeOK, TypeLog
    <2>3. walLow' <= last
        <3> DEFINE x == Now.m.covered
        <3>1. x \in Nat /\ walLow' <= x /\ x <= covered
            BY <1>1, <1>2, <2>1
        <3> HIDE DEF x
        <3> QED
            BY ONLY <2>1, <2>2, <3>1
    <2> QED
        BY <1>3, <2>3 DEF SafeInv, LogInv
<1> QED
    BY <1>5, <1>6, <1>7, <1>8, <1>9 DEF SafeInv

\* The publish's fsync: the log retired and the inputs of a merge unlinked.
LEMMA SafePublishSync ==
    ASSUME SafeInv, TypeOK', DurableInv', PublishSync
    PROVE  SafeInv'
<1>1. /\ Up /\ mpc = "sync" /\ SyncSlot(mseq % 2)
      /\ UNCHANGED <<last, logDur, holds, torn, slot, mem, frozen, segs, covered, mseq, queue,
                     merge, wedged, nextSeg, asked, phase, acked>>
      /\ owed' = {} /\ mpc' = "idle" /\ land' = 0 /\ retireTo' = Larger(retireTo, land)
      /\ walLow' = walLow \/ walLow' = Larger(walLow, retireTo')
      /\ fent' = fent \ drop /\ fdur' = fdur \ drop
    BY DEF PublishSync, Retire, Up, state, flight
<1>2. /\ retireTo <= Now.m.covered /\ land <= Now.m.covered /\ Now.m.names = segs
      /\ drop \cap segs = {}
    BY <1>1 DEF SafeInv, NowInv, DurableInv, MergeInv
<1>3. retireTo' <= Now.m.covered
    <2>1. Larger(retireTo, land) \in {retireTo, land}
        BY DEF Larger
    <2> QED
        BY <1>1, <1>2, <2>1
<1>4. \A s \in Now.m.names : s \in fent' \cap fdur'
    <2>1. mseq % 2 \in Slots /\ Now \in device[mseq % 2] /\ Good(Now.m)
        BY <1>1, NowGood
    <2>2. OnDevice(Now.m.names)
        BY <2>1, GoodNames DEF SafeInv, DurableInv
    <2> QED
        BY <1>1, <1>2, <2>2 DEF OnDevice
<1>5. fdur' \subseteq fdur
    BY <1>1
<1> QED
    BY <1>1, <1>3, <1>4, <1>5, SafeSync

\* The slot a drain left unsynced, behind its answer.
LEMMA SafeOwed ==
    ASSUME Steady, SafeInv, TypeOK', DurableInv', SyncOwedSlot
    PROVE  SafeInv'
<1>1. /\ Up /\ mpc = "owed" /\ mpc' = "idle" /\ owed' = {}
      /\ UNCHANGED <<last, logDur, holds, files, fent, fdur, torn, slot, mem, frozen, segs, covered,
                     mseq, retireTo, queue, merge, wedged, nextSeg, land, asked, phase, acked>>
    BY DEF SyncOwedSlot, Up, segf, state, flight
<1>2. CASE owed # {} /\ (\E i \in owed : SyncSlot(i)) /\ Retire(retireTo)
    <2>1. owed = {mseq % 2} /\ retireTo <= Now.m.covered /\ land = 0
        BY <1>1, <1>2 DEF SafeInv, NowInv, RestInv
    <2>2. SyncSlot(mseq % 2) /\ walLow' = Larger(walLow, retireTo')
        BY <1>1, <1>2, <2>1 DEF Retire
    <2>3. mseq % 2 \in Slots /\ Now \in device[mseq % 2] /\ Good(Now.m)
        BY <1>1, NowGood
    <2>4. OnDevice(Now.m.names)
        BY <2>3, GoodNames DEF SafeInv, DurableInv
    <2>5. \A s \in Now.m.names : s \in fent' \cap fdur'
        BY <1>1, <2>4 DEF OnDevice
    <2>6. retireTo' <= Now.m.covered /\ land' = 0 /\ fdur' \subseteq fdur
        BY <1>1, <2>1
    <2> QED
        BY <1>1, <2>2, <2>5, <2>6, SafeSync
<1>3. CASE owed = {} /\ UNCHANGED <<device, walLow>>
    <2>1. Up' /\ RunInv' /\ (Between' <=> Between)
        BY <1>1, RunFrame DEF SafeInv, Up
    <2>2. ShareInv' /\ DrainInv' /\ RestInv' /\ LogInv'
        BY <1>1, <1>3, ShareFrame DEF SafeInv, DrainInv, RestInv, LogInv, Up
    <2>3. NowInv'
        BY <1>1, <1>3, <2>1, NowFrame DEF SafeInv
    <2>4. FloorInv' /\ SeqInv'
        <3>1. logDur' >= logDur /\ nextSeg' >= nextSeg
            <4>1. logDur \in Nat /\ nextSeg \in Nat
                BY Numbers DEF SafeInv
            <4> QED
                BY <1>1, <4>1
        <3>2. Synced
            BY <1>1, <1>3 DEF Synced
        <3> QED
            BY <1>1, <1>3, <2>1, <3>1, <3>2, FloorSame
    <2> QED
        BY <2>1, <2>2, <2>3, <2>4 DEF SafeInv
<1> QED
    BY <1>2, <1>3 DEF SyncOwedSlot, Fault, Steady

\* The drain's answer promises everything written.
LEMMA SafeAnswer ==
    ASSUME Steady, SafeInv, TypeOK', DurableInv', DrainAnswer
    PROVE  SafeInv'
<1>1. /\ Up /\ Up' /\ mpc = "idle" /\ mpc' = "owed" /\ asked' = "no"
      /\ \/ acked' = acked
         \/ asked = "joined" /\ acked' = last
      /\ UNCHANGED <<last, walLow, logDur, holds, files, fent, fdur, torn, slot, device, mem, frozen,
                     segs, covered, mseq, owed, retireTo, queue, merge, wedged, nextSeg, land,
                     phase>>
    BY DEF DrainAnswer, MaintReady, Up, log, segf, slots, state, work, flight
<1>2. RunInv' /\ (Between' <=> Between)
    BY <1>1, RunFrame DEF SafeInv
<1>3. ShareInv' /\ DrainInv' /\ RestInv'
    BY <1>1, ShareFrame DEF SafeInv, DrainInv, RestInv
<1>4. NowInv'
    BY <1>1, <1>2, NowFrame DEF SafeInv
<1>n. /\ last \in Nat /\ covered \in Nat /\ logDur \in Nat /\ nextSeg \in Nat /\ mseq \in Nat
      /\ walLow \in Nat
    BY Numbers DEF SafeInv
<1>5. LogInv'
    <2>1. last <= last
        BY <1>n
    <2> QED
        BY <1>1, <2>1 DEF SafeInv, LogInv
<1>6. CASE acked' = acked \/ Always
    <2>1. logDur' >= logDur /\ nextSeg' >= nextSeg
        BY <1>1, <1>n
    <2>2. Synced' => Synced
        BY <1>1 DEF Synced
    <2>3. acked' = acked \/ acked' = logDur'
        BY <1>1, <1>6 DEF SafeInv, LogInv
    <2>4. FloorInv' /\ SeqInv'
        BY <1>1, <2>1, <2>2, <2>3, FloorSame
    <2> QED
        BY <1>2, <1>3, <1>4, <1>5, <2>4 DEF SafeInv
<1>7. CASE asked = "joined" /\ acked' = last /\ ~Always
    <2>1. queue = <<>> /\ ~wedged /\ mem = {}
        BY <1>1, <1>7 DEF SafeInv, DrainInv
    <2>2. Tip = covered /\ ~Between
        BY <2>1 DEF Tip, Between
    <2>3. covered = last
        <3>1. covered <= last /\ {} = (covered + 1)..last
            BY <1>1, <2>1, <2>2 DEF SafeInv, RunInv
        <3> QED
            BY ONLY <1>n, <3>1
    <2>4. Now.m.covered = last /\ owed = {}
        BY <1>1, <1>7, <2>2, <2>3 DEF SafeInv, NowInv, Steady
    <2>5. Synced
        BY <1>1, <2>4 DEF Synced
    <2>6. device' = [device EXCEPT ![mseq % 2] = {slot[mseq % 2]}]
        <3>1. PICK p \in Slots : \E c \in device[p] : Floor(p, c.m.seq)
            BY DEF SafeInv, FloorInv
        <3>2. PICK c \in device[p] : Floor(p, c.m.seq)
            BY <3>1
        <3>3. c.ok /\ c.m.seq = mseq /\ device[p] = {slot[p]}
            BY <1>1, <2>5, <3>2 DEF Floor
        <3>4. mseq % 2 = p
            BY <3>2, <3>3 DEF SafeInv, SeqInv
        <3> QED
            BY <1>1, <3>3, <3>4 DEF SafeInv, TypeOK, TypeSlots
    <2>7. ASSUME NEW m \in Manifest, m = Now.m
          PROVE  Good(m)'
        <3>1. /\ mseq % 2 \in Slots /\ Now \in device[mseq % 2] /\ Good(Now.m)
              /\ walLow <= Now.m.covered
            BY <1>1, NowGood
        <3>2. OnDevice(Now.m.names)
            BY <3>1, GoodNames DEF SafeInv, DurableInv
        <3>3. OnDevice(m.names)'
            BY <1>1, <2>7, <3>2 DEF OnDevice
        <3>4. acked' <= Larger(m.covered, logDur')
            <4>1. acked' = last /\ m.covered = last /\ logDur' = logDur
                BY <1>1, <1>7, <2>4, <2>7
            <4>2. last <= Larger(last, logDur)
                BY ONLY <1>n DEF Larger
            <4> QED
                BY <4>1, <4>2
        <3>5. nextSeg' >= nextSeg /\ TypeOK
            BY <1>1, <1>n DEF SafeInv
        <3> QED
            BY <1>1, <2>7, <3>1, <3>3, <3>4, <3>5, GoodKept
    <2>8. SeqInv' /\ FloorInv'
        BY <1>1, <2>6, <2>7, SyncNow
    <2> QED
        BY <1>2, <1>3, <1>4, <1>5, <2>8 DEF SafeInv
<1> QED
    BY <1>1, <1>6, <1>7

-----------------------------------------------------------------------------
(* The close and the power loss.                                             *)

\* Where no sync is owed the newest slot is synced.
LEMMA SyncedNow ==
    ASSUME SafeInv, Up, Synced
    PROVE  device = [device EXCEPT ![mseq % 2] = {slot[mseq % 2]}]
<1>1. PICK p \in Slots : \E c \in device[p] : Floor(p, c.m.seq)
    BY DEF SafeInv, FloorInv
<1>2. PICK c \in device[p] : Floor(p, c.m.seq)
    BY <1>1
<1>3. c.ok /\ c.m.seq = mseq /\ device[p] = {slot[p]}
    BY <1>2 DEF Floor
<1>4. mseq % 2 = p
    BY <1>2, <1>3 DEF SafeInv, SeqInv
<1> QED
    BY <1>3, <1>4 DEF SafeInv, TypeOK, TypeSlots

\* Nothing is left of what only a process that is up has.
LEMMA SafeForget ==
    ASSUME Forget
    PROVE  RunInv' /\ ShareInv' /\ DrainInv' /\ NowInv' /\ RestInv' /\ ~Up' /\ phase' = "down"
<1>1. ~Up' /\ phase' = "down"
    BY DEF Forget, Up
<1> QED
    BY <1>1 DEF Forget, RunInv, ShareInv, DrainInv, NowInv, RestInv

\* The store dropped: its slot synced if that was owed, and nothing landed.
LEMMA SafeStop ==
    ASSUME SafeInv, TypeOK', DurableInv', Stop
    PROVE  SafeInv'
<1>1. /\ Up /\ mpc = "idle" /\ pending = {} /\ Forget
      /\ UNCHANGED <<last, logDur, fent, slot>> /\ holds' = holds /\ acked' = acked
      /\ fdur \subseteq fdur' /\ torn' \subseteq torn
      /\ \/ owed # {} /\ (\E i \in owed : SyncSlot(i)) /\ Retire(retireTo)
         \/ owed = {} /\ UNCHANGED <<device, walLow>>
    BY DEF Stop, MaintReady, Up, SafeInv, DurableInv, NoPending, Forget, slots
<1>2. RunInv' /\ ShareInv' /\ DrainInv' /\ NowInv' /\ RestInv' /\ ~Up' /\ phase' = "down"
    BY <1>1, SafeForget
<1>3. /\ mseq % 2 \in Slots /\ Now \in device[mseq % 2] /\ Good(Now.m)
      /\ walLow <= Now.m.covered /\ acked <= Larger(Now.m.covered, logDur)
      /\ Now.m.covered \in Nat /\ retireTo <= Now.m.covered /\ Now.m.covered <= covered
    BY <1>1, NowGood DEF SafeInv, NowInv
<1>4. walLow' <= Now.m.covered
    <2>1. Larger(walLow, retireTo) \in {walLow, retireTo}
        BY DEF Larger
    <2> QED
        BY <1>1, <1>3, <2>1 DEF Retire
<1>5. LogInv'
    <2>1. covered <= last /\ torn = {}
        BY <1>1 DEF SafeInv, LogInv
    <2>2. covered \in Nat /\ last \in Nat /\ walLow' \in Nat
        BY LandingAssumption, Numbers DEF SafeInv, TypeOK, TypeLog
    <2>3. walLow' <= last
        <3> DEFINE x == Now.m.covered
        <3>1. x \in Nat /\ walLow' <= x /\ x <= covered
            BY <1>3, <1>4
        <3> HIDE DEF x
        <3> QED
            BY ONLY <2>1, <2>2, <3>1
    <2> QED
        BY <1>1, <1>2, <2>1, <2>3 DEF SafeInv, LogInv
<1>6. device' = [device EXCEPT ![mseq % 2] = {slot[mseq % 2]}]
    <2>1. CASE owed # {}
        <3>1. owed = {mseq % 2}
            BY <1>1, <2>1 DEF SafeInv, NowInv
        <3> QED
            BY <1>1, <2>1, <3>1 DEF SyncSlot
    <2>2. CASE owed = {}
        BY <1>1, <2>2, SyncedNow DEF Synced
    <2> QED
        BY <2>1, <2>2
<1>7. ASSUME NEW m \in Manifest, m = Now.m
      PROVE  Good(m)'
    <2>1. OnDevice(Now.m.names)
        BY <1>3, GoodNames DEF SafeInv, DurableInv
    <2>2. OnDevice(m.names)'
        BY <1>1, <1>7, <2>1 DEF OnDevice
    <2>3. TypeOK /\ walLow' <= m.covered /\ acked' <= Larger(m.covered, logDur') /\ Good(m)
        BY <1>1, <1>3, <1>4, <1>7 DEF SafeInv
    <2> QED
        BY <1>1, <1>2, <2>2, <2>3, GoodKept
<1>8. SeqInv' /\ FloorInv'
    BY <1>1, <1>2, <1>6, <1>7, SyncNow
<1> QED
    BY <1>2, <1>5, <1>8 DEF SafeInv

\* The power lost: of what each slot may be, one that an open takes.
LEMMA SafePower ==
    ASSUME SafeInv, TypeOK', DurableInv', PowerLoss
    PROVE  SafeInv'
<1>1. /\ Forget /\ holds' = holds /\ acked' = acked /\ walLow' = walLow
      /\ last' \in Larger(logDur, walLow)..last /\ logDur' = last'
      /\ fent' = files' /\ fdur' = files' \ torn'
    BY DEF PowerLoss, Forget
<1>2. fent \subseteq fent' /\ fent \cap fdur \subseteq fdur'
    <2>1. fent \subseteq files /\ fdur \cap torn = {}
        BY DEF SafeInv, DurableInv, FileNames, LogInv
    <2>2. PICK gone \in SUBSET (files \ fent) :
            /\ files' = files \ gone
            /\ \E ruin \in SUBSET (files' \ fdur) : torn' = (torn \cap files') \cup ruin
        BY DEF PowerLoss
    <2> QED
        BY <1>1, <2>1, <2>2
<1>3. \A i \in Slots : slot'[i] \in device[i] /\ device'[i] = {slot'[i]}
    BY DEF PowerLoss, Slots
<1>4. RunInv' /\ ShareInv' /\ DrainInv' /\ NowInv' /\ RestInv' /\ ~Up' /\ phase' = "down"
    BY <1>1, SafeForget
<1>5. /\ last \in Nat /\ walLow \in Nat /\ logDur \in Nat /\ acked \in Nat /\ last' \in Nat
      /\ walLow <= last' /\ logDur <= last'
    <2>1. last \in Nat /\ walLow \in Nat /\ logDur \in Nat /\ acked \in Nat
        BY Numbers DEF SafeInv
    <2>2. Larger(logDur, walLow) \in Nat /\ Larger(logDur, walLow) >= logDur
          /\ Larger(logDur, walLow) >= walLow
        BY <2>1, LargerOf
    <2> QED
        BY <1>1, <2>1, <2>2
<1>6. LogInv'
    <2>1. last' <= last'
        BY <1>5
    <2> QED
        BY <1>1, <1>4, <1>5, <2>1 DEF LogInv
<1>7. SeqInv'
    <2>1. \A i \in Slots : \A c \in device[i] : c.ok => c.m.seq % 2 = i
        BY DEF SafeInv, SeqInv
    <2> QED
        BY <1>3, <1>4, <2>1 DEF SeqInv
<1>8. ASSUME NEW i \in Slots, NEW c \in device[i], Good(c.m)
      PROVE  Good(c.m)'
    <2>1. OnDevice(c.m.names) /\ c.m.covered \in Nat
        BY <1>8, GoodNames, Contents DEF SafeInv, DurableInv, TypeOK
    <2>2. OnDevice(c.m.names \ c.m.pending)'
        BY <1>2, <2>1 DEF OnDevice
    <2>3. acked <= Larger(c.m.covered, logDur) /\ walLow <= c.m.covered
        BY <1>8 DEF Good, Safe
    <2>4. acked <= Larger(c.m.covered, last')
        <3> DEFINE x == c.m.covered
        <3>1. x \in Nat /\ acked <= Larger(x, logDur)
            BY <2>1, <2>3
        <3> HIDE DEF x
        <3>2. acked <= Larger(x, last')
            BY ONLY <1>5, <3>1 DEF Larger
        <3> QED
            BY <3>2 DEF x
    <2>5. Holds(c.m)' /\ Apart(holds', c.m.names)
        BY <1>1, <1>8 DEF Good, Safe, Holds
    <2> QED
        BY <1>1, <1>4, <2>2, <2>3, <2>4, <2>5 DEF Good, Safe
<1>9. PICK p \in Slots : \E c \in device[p] : Floor(p, c.m.seq)
    BY DEF SafeInv, FloorInv
<1>a. PICK c \in device[p] : Floor(p, c.m.seq)
    BY <1>9
<1>b. \A i \in Slots : slot'[i].m.seq \in Nat
    BY <1>3, Contents DEF SafeInv, TypeOK
<1>c. slot'[p].ok /\ slot'[p].m.seq >= c.m.seq /\ c.m.seq \in Nat
    BY <1>3, <1>a, Contents DEF Floor, SafeInv, TypeOK
<1>d. PICK q \in Slots : /\ slot'[q].ok /\ slot'[q].m.seq >= slot'[p].m.seq
                         /\ \A i \in Slots : slot'[i].ok => slot'[i].m.seq <= slot'[q].m.seq
    <2>1. CASE \E i \in Slots : slot'[i].ok /\ slot'[i].m.seq > slot'[p].m.seq
        <3>1. PICK i \in Slots : slot'[i].ok /\ slot'[i].m.seq > slot'[p].m.seq
            BY <2>1
        <3>2. \A k \in Slots : k = i \/ k = p
            BY <1>b, <3>1 DEF Slots
        <3> QED
            BY <1>b, <3>1, <3>2
    <2>2. CASE ~ \E i \in Slots : slot'[i].ok /\ slot'[i].m.seq > slot'[p].m.seq
        BY <1>b, <1>c, <2>2
    <2> QED
        BY <2>1, <2>2
<1>e. PICK d \in device'[q] : d = slot'[q]
    BY <1>3
<1>f. Floor(q, d.m.seq)'
    <2>1. \A e \in device'[q] : e.ok /\ e.m.seq >= d.m.seq
        BY <1>3, <1>b, <1>d, <1>e
    <2>2. ASSUME NEW i \in Slots, NEW e \in device'[i], e.ok, e.m.seq >= d.m.seq
          PROVE  Good(e.m)'
        <3>1. e \in device[i]
            BY <1>3, <2>2
        <3>2. e.m.seq >= c.m.seq
            <4>1. e.m.seq \in Nat /\ d.m.seq \in Nat /\ d.m.seq >= slot'[p].m.seq
                  /\ slot'[p].m.seq \in Nat
                BY <1>3, <1>b, <1>d, <1>e, <2>2
            <4> QED
                BY <1>c, <2>2, <4>1
        <3>3. Good(e.m)
            BY <1>a, <2>2, <3>1, <3>2 DEF Floor
        <3> QED
            BY <1>8, <3>1, <3>3
    <2>3. device'[q] = {slot'[q]} /\ slot'[q].m.seq = d.m.seq
        BY <1>3, <1>e
    <2>4. \A i \in Slots : \A e \in device'[i] : e.ok => e.m.seq <= d.m.seq
        BY <1>3, <1>d, <1>e
    <2> QED
        BY <1>4, <2>1, <2>2, <2>3, <2>4 DEF Floor
<1>g. FloorInv'
    BY <1>f DEF FloorInv
<1> QED
    BY <1>4, <1>6, <1>7, <1>g DEF SafeInv

-----------------------------------------------------------------------------
(* The open.                                                                 *)

\* The manifest it takes is good, and it refuses none such.
LEMMA OpenTakes ==
    ASSUME SafeInv, phase = "down"
    PROVE  \E p \in Slots :
             /\ Newest(Valid) = slot[p].m /\ slot[p].ok /\ Good(slot[p].m)
             /\ device[p] = {slot[p]} /\ slot[p].m.seq % 2 = p
             /\ \A i \in Slots : \A c \in device[i] :
                    c.ok => c.m.seq <= slot[p].m.seq /\ (c.m.seq >= slot[p].m.seq => c = slot[p])
             /\ ~Refuses
<1>1. PICK p \in Slots : \E c \in device[p] : Floor(p, c.m.seq)
    BY DEF SafeInv, FloorInv
<1>2. PICK c \in device[p] : Floor(p, c.m.seq)
    BY <1>1
<1>3. /\ device[p] = {slot[p]} /\ c = slot[p] /\ slot[p].ok
      /\ \A i \in Slots : \A d \in device[i] : d.ok => d.m.seq <= slot[p].m.seq
      /\ \A i \in Slots : \A d \in device[i] : d.ok /\ d.m.seq >= slot[p].m.seq => Good(d.m)
    BY <1>2 DEF Floor, Synced
<1>4. \A i \in Slots : /\ slot[i] \in device[i]
                       /\ \A d \in device[i] : d.ok => d.m.seq % 2 = i
    BY DEF SafeInv, SeqInv
<1>5. \A i \in Slots : \A d \in device[i] : d.m.seq \in Nat
    BY Contents DEF SafeInv, TypeOK
<1>6. slot[p].m.seq \in Nat /\ slot[p].m.seq % 2 = p /\ Good(slot[p].m)
    BY <1>3, <1>4, <1>5
<1>7. ASSUME NEW i \in Slots, NEW d \in device[i], d.ok, d.m.seq >= slot[p].m.seq
      PROVE  d = slot[p]
    <2>1. d.m.seq = slot[p].m.seq
        BY <1>3, <1>5, <1>6, <1>7
    <2>2. i = p
        BY <1>4, <1>6, <1>7, <2>1
    <2> QED
        BY <1>3, <2>2
<1>8. Valid # {} /\ slot[p].m \in Valid
    BY <1>3 DEF Valid
<1>9. Newest(Valid) \in Valid /\ Newest(Valid).seq >= slot[p].m.seq
    <2>1. Newest(Valid) \in Valid /\ Newest(Valid) \in Manifest
          /\ \A n \in Valid : n.seq <= Newest(Valid).seq
        BY <1>8, NewestOf DEF SafeInv, TypeOK
    <2>2. Newest(Valid).seq \in Nat
        BY <2>1 DEF Manifest
    <2> QED
        BY <1>6, <1>8, <2>1, <2>2
<1>a. Newest(Valid) = slot[p].m
    <2>1. PICK i \in Slots : slot[i].ok /\ Newest(Valid) = slot[i].m
        BY <1>9 DEF Valid
    <2> QED
        BY <1>4, <1>7, <1>9, <2>1
<1>b. Candidates = Valid
    <2>1. slot[p].m.pending = {}
        BY DEF SafeInv, DurableInv, NoPending
    <2> QED
        BY <1>a, <2>1 DEF Candidates, Skipped, Whole
<1>c. ~Refuses
    <2>1. OnDevice(slot[p].m.names)
        BY <1>3, <1>6, GoodNames DEF SafeInv, DurableInv
    <2>2. Whole(slot[p].m.names)
        BY <2>1 DEF SafeInv, LogInv, DurableInv, FileNames, OnDevice, Whole
    <2>3. ~(walLow > slot[p].m.covered)
        <3>1. walLow <= slot[p].m.covered /\ walLow \in Nat /\ slot[p].m.covered \in Nat
            BY <1>6, Numbers, Contents DEF Good, Safe, SafeInv, TypeOK
        <3> QED
            BY <3>1
    <2> QED
        BY <1>8, <1>a, <1>b, <2>2, <2>3 DEF Refuses
<1> QED
    BY <1>3, <1>6, <1>7, <1>a, <1>c

\* The store that comes back.
LEMMA SafeOpen ==
    ASSUME SafeInv, TypeOK', DurableInv', Open
    PROVE  SafeInv'
<1>1. phase = "down"
    BY DEF Open
<1>2. PICK p \in Slots :
             /\ Newest(Valid) = slot[p].m /\ slot[p].ok /\ Good(slot[p].m)
             /\ device[p] = {slot[p]} /\ slot[p].m.seq % 2 = p
             /\ \A i \in Slots : \A c \in device[i] :
                    c.ok => c.m.seq <= slot[p].m.seq /\ (c.m.seq >= slot[p].m.seq => c = slot[p])
             /\ ~Refuses
    BY <1>1, OpenTakes
<1>3. Candidates = Valid /\ ~Skipped /\ Newest(Valid).pending = {}
    BY <1>2, NothingSkipped DEF SafeInv, TypeOK, DurableInv
<1>4. PICK m \in Manifest : m = slot[p].m
    BY Contents DEF SafeInv, TypeOK
<1>5. m = Newest(Candidates) /\ m.pending = {} /\ Good(m) /\ m.covered \in Nat
    BY <1>2, <1>3, <1>4, LandingAssumption DEF Manifest
<1>6. /\ segs' = m.names /\ covered' = m.covered
      /\ fent' = fent \cap m.names /\ fdur' = fdur \cap m.names /\ torn' = {}
      /\ last' = (IF last > walLow THEN Larger(last, m.covered) ELSE m.covered)
      /\ mem' = (m.covered + 1)..last'
      /\ walLow' = (IF m.covered > last THEN m.covered ELSE walLow)
      /\ logDur' = (IF m.covered > last THEN m.covered ELSE logDur)
      /\ retireTo' = walLow' /\ (\A s \in m.names : s < nextSeg')
      /\ mseq' = m.seq /\ UNCHANGED <<slot, device, holds>> /\ Up'
    BY <1>2, <1>3, <1>5 DEF Open, Up, slots
<1>7. /\ queue' = <<>> /\ frozen' = {} /\ merge' = NoMerge /\ mpc' = "idle" /\ land' = 0
      /\ asked' = "no" /\ owed' = {} /\ ~wedged' /\ acked' = acked
    BY <1>1 DEF Open, SafeInv, DurableInv, SlotInv, Idle, RestInv, step
<1>8. /\ last' \in Nat /\ walLow' <= last' /\ logDur' <= last' /\ (logDur = last => logDur' = last')
      /\ m.covered <= last' /\ acked <= last' /\ walLow' <= m.covered
      /\ acked <= Larger(m.covered, logDur')
      /\ (1..m.covered) \cup ((m.covered + 1)..last') = 1..last'
      /\ (1..m.covered) \cap ((m.covered + 1)..last') = {}
    <2>1. /\ last \in Nat /\ walLow \in Nat /\ logDur \in Nat /\ acked \in Nat
          /\ walLow <= last /\ logDur <= last
        BY Numbers DEF SafeInv, LogInv
    <2>2. walLow <= m.covered /\ acked <= Larger(m.covered, logDur)
        BY <1>5 DEF Good, Safe
    <2> DEFINE c == m.covered
    <2>3. /\ c \in Nat /\ walLow <= c /\ acked <= Larger(c, logDur)
          /\ last' = (IF last > walLow THEN Larger(last, c) ELSE c)
          /\ walLow' = (IF c > last THEN c ELSE walLow)
          /\ logDur' = (IF c > last THEN c ELSE logDur)
        BY <1>5, <1>6, <2>2
    <2> HIDE DEF c
    <2>4. /\ last' \in Nat /\ walLow' <= last' /\ logDur' <= last'
          /\ (logDur = last => logDur' = last') /\ c <= last' /\ acked <= last' /\ walLow' <= c
          /\ acked <= Larger(c, logDur')
        BY ONLY <2>1, <2>3 DEF Larger
    <2>5. (1..c) \cup ((c + 1)..last') = 1..last' /\ (1..c) \cap ((c + 1)..last') = {}
        BY ONLY <2>3, <2>4
    <2> QED
        BY <2>4, <2>5 DEF c
<1>9. LogInv'
    <2>1. Always => logDur = last
        BY DEF SafeInv, LogInv
    <2> QED
        BY <1>6, <1>7, <1>8, <2>1 DEF LogInv, Up
<1>a. RunInv' /\ ~Between'
    <2>1. Len(queue') = 0 /\ Tip' = covered' /\ ~Between'
        BY <1>7 DEF Tip, Between
    <2> QED
        BY <1>6, <1>7, <1>8, <2>1 DEF RunInv
<1>b. ShareInv'
    <2>1. In(holds', segs') = 1..covered' /\ Apart(holds', segs')
        BY <1>5, <1>6 DEF Good, Safe, Holds, In
    <2>2. frozen' \cup segs' = segs'
        BY <1>7
    <2> QED
        BY <1>6, <1>7, <1>8, <2>1, <2>2 DEF ShareInv
<1>c. NowInv'
    <2>1. Now' = slot[p]
        BY <1>2, <1>4, <1>6 DEF Now
    <2>2. m.covered <= m.covered
        BY <1>5
    <2> QED
        BY <1>2, <1>4, <1>6, <1>7, <1>8, <2>1, <2>2 DEF NowInv
<1>d. DrainInv' /\ RestInv'
    BY <1>6, <1>7 DEF DrainInv, RestInv, Up
<1>e. SeqInv'
    BY <1>2, <1>4, <1>6 DEF SafeInv, SeqInv
<1>f. Good(m)'
    <2>1. OnDevice(m.names)
        BY <1>2, <1>4, GoodNames DEF SafeInv, DurableInv
    <2>2. OnDevice(m.names \ m.pending)' /\ Holds(m)' /\ Apart(holds', m.names)
        BY <1>5, <1>6, <2>1 DEF OnDevice, Good, Safe, Holds
    <2> QED
        BY <1>6, <1>7, <1>8, <2>2 DEF Good, Safe
<1>g. PICK c \in device[p] : c = slot[p]
    BY <1>2
<1>h. Floor(p, c.m.seq)'
    <2>0. c.m.seq \in Nat /\ c.m.seq = m.seq /\ c.m = m
        BY <1>4, <1>g, Contents DEF SafeInv, TypeOK
    <2>1. \A d \in device'[p] : d.ok /\ d.m.seq >= c.m.seq
        BY <1>2, <1>6, <1>g, <2>0
    <2>2. ASSUME NEW i \in Slots, NEW d \in device'[i], d.ok, d.m.seq >= c.m.seq
          PROVE  Good(d.m)'
        <3>1. d.m = m
            BY <1>2, <1>4, <1>6, <1>g, <2>2
        <3> QED
            BY <1>f, <3>1
    <2>3. /\ device'[p] = {slot'[p]} /\ slot'[p].m.seq = c.m.seq
          /\ \A i \in Slots : \A d \in device'[i] : d.ok => d.m.seq <= c.m.seq
          /\ c.m.seq = mseq'
        BY <1>2, <1>6, <1>g, <2>0
    <2> QED
        BY <2>1, <2>2, <2>3 DEF Floor
<1>i. FloorInv'
    BY <1>6, <1>h DEF FloorInv
<1> QED
    BY <1>9, <1>a, <1>b, <1>c, <1>d, <1>e, <1>i DEF SafeInv

-----------------------------------------------------------------------------
(* The whole.                                                                *)

LEMMA SafeInit == Init => SafeInv
<1> SUFFICES ASSUME Init PROVE SafeInv
    OBVIOUS
<1>1. TypeOK /\ DurableInv
    BY TypeInit, DurableInit
<1>2. LogInv /\ DrainInv /\ RestInv
    BY DEF Init, LogInv, DrainInv, RestInv, Up
<1>3. RunInv
    <2>1. Len(queue) = 0 /\ Tip = 0 /\ ~Between /\ last = 0 /\ mem = {}
        BY DEF Init, Tip, Between
    <2> QED
        BY <2>1 DEF RunInv
<1>4. ShareInv
    BY DEF Init, ShareInv, In, Apart
<1>5. mseq % 2 = 0 /\ slot[0].ok /\ slot[0].m = Blank /\ 0 \in Slots
      /\ device[0] = {slot[0]} /\ \A i \in Slots : device[i] = {slot[i]} /\ slot[i].m = Blank
                                                   /\ (slot[i].ok => i = 0)
    BY DEF Init, Slots
<1>6. Blank.seq = 0 /\ Blank.covered = 0 /\ Blank.names = {} /\ Blank.pending = {}
    BY DEF Blank
<1>7. NowInv
    <2>1. ~Between /\ Now.ok /\ Now.m = Blank
        BY <1>5 DEF Init, Between, Now
    <2> QED
        BY <1>6, <2>1 DEF Init, NowInv
<1>8. SeqInv
    BY <1>5, <1>6 DEF Init, SeqInv
<1>9. Good(Blank)
    BY <1>6 DEF Init, Good, Safe, OnDevice, Holds, Apart, Larger
<1>a. Floor(0, slot[0].m.seq)
    BY <1>5, <1>6, <1>9 DEF Init, Floor
<1>b. FloorInv
    BY <1>5, <1>a DEF FloorInv
<1> QED
    BY <1>1, <1>2, <1>3, <1>4, <1>7, <1>8, <1>b DEF SafeInv

LEMMA SafeNext ==
    ASSUME Steady, SafeInv, TypeOK', [Next]_vars
    PROVE  SafeInv'
<1>1. DurableInv'
    BY DurableNext, SteadyFsyncs DEF SafeInv
<1>2. CASE Writer
    BY <1>1, <1>2, SafeWrite, SafeSeal, SafeAsk DEF Writer
<1>3. CASE \E s \in Seg : Thread(s)
    BY <1>1, <1>3, SafeThread DEF Thread
<1>4. CASE Maint
    <2>1. ~WritePending /\ ~LandPending /\ ~LandNamed /\ ~PublishFails
        BY DEF Steady, WritePending, LandPending, LandNamed, PublishFails, Fault, SafeInv,
               DurableInv, NoPending
    <2> QED
        BY <1>1, <1>4, <2>1, SafeReadable, SafeLanding, SafePublishSync, SafeMerged, SafeAsk,
           SafeAnswer, SafeOwed
        DEF Maint
<1>5. CASE StartMerge \/ MergeDone
    BY <1>1, <1>5, SafeStart, SafeDone
<1>6. CASE Stop \/ PowerLoss
    BY <1>1, <1>6, SafeStop, SafePower
<1>7. CASE Kill
    BY <1>7 DEF Kill, Fault, Steady
<1>8. CASE Opens
    <2>1. ~OpenSyncs
        BY DEF OpenSyncs, SafeInv, DurableInv, NoPending
    <2> QED
        BY <1>1, <1>8, <2>1, SafeOpen DEF Opens
<1>9. CASE UNCHANGED vars
    <2>1. /\ UNCHANGED <<last, walLow, logDur, holds, fent, fdur, torn, slot, device, mem,
                         frozen, segs, covered, mseq, owed, retireTo, queue, merge, wedged,
                         nextSeg, mpc, land, phase, acked>>
          /\ asked' = asked
        BY <1>9 DEF vars, log, segf, slots, state, work, flight, step
    <2>2. DrainInv' /\ RestInv'
        BY <2>1 DEF SafeInv, DrainInv, RestInv, Up
    <2> QED
        BY <1>1, <2>1, <2>2, SafeFrame
<1> QED
    BY <1>2, <1>3, <1>4, <1>5, <1>6, <1>7, <1>8, <1>9 DEF Next

\* What the log, the tables, the segments and the slots of src/src/db.rs hold
\* together through every commit, seal, landing, merge, drain, close, power loss
\* and open.
THEOREM SafeAlways ==
    ASSUME Steady
    PROVE  Spec => []SafeInv
<1>1. SafeInv /\ TypeOK' /\ [Next]_vars => SafeInv'
    BY SafeNext
<1> QED
    BY <1>1, SafeInit, TypeCorrect, PTL DEF Spec

\* Whichever way the power went, src/src/db.rs's Db::open finds a manifest, whose
\* segments are whole and whose log reaches back to it: it never refuses the
\* store and never falls back to scanning the directory.
THEOREM OpensAlways ==
    ASSUME Steady
    PROVE  Spec => []NeverRefused
<1>1. SafeInv => NeverRefused
    BY DEF SafeInv, LogInv, NeverRefused
<1> QED
    BY <1>1, SafeAlways, PTL

\* Every batch is in the live table, in one frozen table or in one segment of
\* the published state, and in no two: a landing, a merge, a failed seal or an
\* open's replay neither loses one nor reads one twice.
THEOREM BatchesHaveOneHome ==
    ASSUME Steady
    PROVE  Spec => []OneHome
<1>1. ASSUME SafeInv PROVE OneHome
    <2> SUFFICES ASSUME Up, NEW b \in 1..last PROVE Homes(b) = 1
        BY DEF OneHome, Up
    <2> DEFINE S == {s \in frozen \cup segs : b \in holds[s]}
    <2>1. /\ Apart(holds, frozen \cup segs)
          /\ mem \cap In(holds, frozen \cup segs) = {}
          /\ mem \cup In(holds, frozen \cup segs) = 1..last
        BY <1>1 DEF SafeInv, ShareInv
    <2>2. CASE b \in mem
        <3>1. S = {}
            BY <2>1, <2>2 DEF In
        <3>2. Cardinality(S) = 0
            BY <3>1, FS_EmptySet
        <3> QED
            BY <2>2, <3>2 DEF Homes
    <2>3. CASE b \notin mem
        <3>1. PICK s \in frozen \cup segs : b \in holds[s]
            BY <2>1, <2>3 DEF In
        <3>2. S = {s}
            BY <2>1, <3>1 DEF Apart
        <3>3. Cardinality(S) = 1
            BY <3>2, FS_Singleton
        <3> QED
            BY <2>3, <3>3 DEF Homes
    <2> QED
        BY <2>2, <2>3
<1> QED
    BY <1>1, SafeAlways, PTL

\* No batch a synced commit or an answered flush promised is past what the store
\* that is up has, whatever power losses and opens came between.
THEOREM PromisesKept ==
    ASSUME Steady
    PROVE  Spec => []AckedKept
<1>1. SafeInv => AckedKept
    BY DEF SafeInv, LogInv, AckedKept, Up
<1> QED
    BY <1>1, SafeAlways, PTL

\* The newest of one or two manifests is one of them.
LEMMA NewestOfTwo ==
    ASSUME NEW ms \in SUBSET Manifest, NEW a, NEW b, ms \subseteq {a, b}, ms # {}
    PROVE  Newest(ms) \in ms /\ \A n \in ms : n.seq <= Newest(ms).seq
<1>1. \A n \in ms : n.seq \in Nat
    BY DEF Manifest
<1>2. \E m \in ms : \A n \in ms : n.seq <= m.seq
    <2>1. PICK x \in ms : TRUE
        OBVIOUS
    <2>2. CASE \E y \in ms : y.seq > x.seq
        <3>1. PICK y \in ms : y.seq > x.seq
            BY <2>2
        <3>2. ms \subseteq {x, y}
            BY <1>1, <3>1
        <3> QED
            BY <1>1, <3>1, <3>2
    <2>3. CASE ~ \E y \in ms : y.seq > x.seq
        BY <1>1, <2>3
    <2> QED
        BY <2>2, <2>3
<1> QED
    BY <1>2 DEF Newest

\* A power loss is survived at every instant: of whatever the device may hold of
\* the two slots, the one the open takes names durable segments holding all it
\* covers, the log reaches back to it, and nothing promised is past both.
THEOREM PowerLossSurvived ==
    ASSUME Steady
    PROVE  Spec => []CrashSafe
<1>1. ASSUME SafeInv PROVE CrashSafe
    <2> SUFFICES ASSUME NEW c0 \in device[0], NEW c1 \in device[1]
                 PROVE  LET ms == {c.m : c \in {d \in {c0, c1} : d.ok}} IN
                          /\ ms # {}
                          /\ Safe(Newest(ms))
                          /\ OnDevice(Newest(ms).pending) \/
                                /\ ms # {Newest(ms)}
                                /\ Safe(Newest(ms \ {Newest(ms)}))
        BY DEF CrashSafe
    <2> DEFINE ms == {c.m : c \in {d \in {c0, c1} : d.ok}}
    <2>1. PICK p \in Slots : \E c \in device[p] : Floor(p, c.m.seq)
        BY <1>1 DEF SafeInv, FloorInv
    <2>2. PICK c \in device[p] : Floor(p, c.m.seq)
        BY <2>1
    <2>3. PICK e \in {c0, c1} : e \in device[p]
        BY DEF Slots
    <2>4. e.ok /\ e.m.seq >= c.m.seq /\ c.m.seq \in Nat
        BY <1>1, <2>2, <2>3, Contents DEF Floor, SafeInv, TypeOK
    <2>5. e.m \in ms /\ ms \subseteq {c0.m, c1.m}
        BY <2>3, <2>4
    <2>6. c0.m \in Manifest /\ c1.m \in Manifest /\ 0 \in Slots /\ 1 \in Slots
        BY <1>1, Contents DEF SafeInv, TypeOK, Slots
    <2> DEFINE n == Newest(ms)
    <2>7. n \in ms /\ n.seq >= e.m.seq
        <3>1. ms \in SUBSET Manifest
            BY <2>5, <2>6
        <3> HIDE DEF ms
        <3>2. n \in ms /\ \A k \in ms : k.seq <= n.seq
            BY <2>5, <3>1, NewestOfTwo
        <3>3. n.seq \in Nat /\ e.m.seq \in Nat /\ e.m.seq <= n.seq
            BY <2>5, <3>1, <3>2 DEF Manifest
        <3> QED
            BY <3>2, <3>3
    <2>8. PICK i \in Slots : \E d \in device[i] : d.ok /\ d.m = n
        <3> HIDE DEF n
        <3>1. PICK d \in {c0, c1} : d.ok /\ d.m = n
            BY <2>7
        <3> QED
            BY <2>6, <3>1
    <2>9. PICK d \in device[i] : d.ok /\ d.m = n
        BY <2>8
    <2> HIDE DEF n
    <2>a. d.m.seq >= c.m.seq
        <3>1. d.m.seq \in Nat /\ e.m.seq \in Nat /\ d.m.seq >= e.m.seq
            BY <1>1, <2>3, <2>7, <2>9, Contents DEF SafeInv, TypeOK
        <3> QED
            BY <2>4, <3>1
    <2>b. Safe(n) /\ n.pending = {}
        BY <1>1, <2>2, <2>9, <2>a DEF Floor, Good, SafeInv, DurableInv, NoPending
    <2>c. OnDevice(n.pending)
        BY <2>b DEF OnDevice
    <2> QED
        BY <2>5, <2>b, <2>c DEF n
<1> QED
    BY <1>1, SafeAlways, PTL
=============================================================================
