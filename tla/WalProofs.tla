----------------------------- MODULE WalProofs -----------------------------
(***************************************************************************)
(* The log keeps its promises, for every policy, any number of files,        *)
(* batches, seals in flight and failures: the log's files are ordered and    *)
(* without a hole past what the manifest covers, what no barrier has covered *)
(* lies behind a loose header, and an open therefore finds a prefix that     *)
(* holds all that was promised.                                              *)
(***************************************************************************)
EXTENDS Wal, FiniteSetTheorems, NaturalsInduction, WellFoundedInduction, TLAPS

\* The failures of one store: it loses power, or its process is killed, and
\* not both.  A kill and then a power loss is run wal_kill.
OneKind == ~("kill" \in Failures /\ "power" \in Failures)
Power == "power" \in Failures

\* The files a failure may leave, a file's frames by place, the sequence of
\* one, and whether some file in the directory has sequence s.
Left == present \cup lingers
Frames(f) == 1..Len(frames[f])
SeqAt(f, i) == frames[f][i].seq
Has(s) == \E f \in present : \E i \in Frames(f) : SeqAt(f, i) = s

\* A file's frames are its own, of batches of the history, in order, and past
\* what is covered without a hole.
FrameInv ==
    \A f \in Left : \A i \in Frames(f) :
        /\ frames[f][i].life = f
        /\ SeqAt(f, i) <= Len(hist) /\ frames[f][i].b = hist[SeqAt(f, i)]
        /\ i > 1 /\ SeqAt(f, i) > covered => SeqAt(f, i) = SeqAt(f, i - 1) + 1
        /\ \A j \in Frames(f) : i < j =>
              /\ SeqAt(f, i) < SeqAt(f, j)
              /\ SeqAt(f, i) >= covered => SeqAt(f, j) = SeqAt(f, i) + (j - i)

\* A later file has later batches.
OrderInv ==
    \A f \in Left, g \in Left : f < g =>
        \A i \in Frames(f), j \in Frames(g) : SeqAt(f, i) < SeqAt(g, j)

\* What a recycled file kept of its former life is of an older file.
OldInv == \A f \in Left : \A i \in DOMAIN old[f] : old[f][i].life < f

\* A file with no header of its own has no frame.
HdrInv ==
    \A f \in present :
        /\ hdr[f] \in hdrs[f]
        /\ hdr[f] = "none" => frames[f] = <<>>

\* With s covered the log begins at w: nothing past s is in a file before, and
\* w itself begins no later than s.
Begins(w, s) ==
    /\ w \in present
    /\ \A f \in Left : f < w => \A i \in Frames(f) : SeqAt(f, i) < s
    /\ frames[w] # <<>> => SeqAt(w, 1) <= s

\* A file that something is missing in front of.
Gap(f) ==
    /\ f \in present /\ frames[f] # <<>>
    /\ \E s \in covered..(SeqAt(f, 1) - 1) : ~Has(s)

\* A replay that ended the log at e, and removed the files past it.
Ended(e) ==
    /\ phase = "replay" /\ todo = {} /\ valid = 0
    /\ e \in present /\ \A g \in present : g <= e
    /\ Gap(e) /\ hdr[e] = "loose"
    /\ acked < from
    /\ \A f \in present \ {e} : \A i \in Frames(f) : SeqAt(f, i) < from
    /\ \A f \in lingers : e < f

\* The log's first file that counts: it outlives a power loss, and what is
\* retired, recycled or removed and not yet durably so is older than it.
LivesBelow(w) ==
    \A n \in DOMAIN spare : \A i \in DOMAIN spare[n] : spare[n][i].life < w
AnchorInv ==
    \E a \in present :
        /\ Begins(a, covered)
        /\ Power => a \in entered
        /\ LivesBelow(a)
        /\ \A f \in due : f < a
        /\ (\A f \in lingers : f < a) \/ (\E e \in present : Ended(e))

\* The history against the manifest, the promises and the policy's count.
HistInv ==
    /\ covered <= Len(hist) + 1
    /\ segLog = SubSeq(hist, 1, covered - 1)
    /\ acked + unsynced <= Len(hist)
    /\ Len(hist) < next

\* A seal ends where some file may begin, and retires only older ones.
SealInv ==
    \A i \in DOMAIN sealing :
        /\ covered <= sealing[i].end /\ sealing[i].end <= Len(hist) + 1
        /\ \A j \in DOMAIN sealing : j < i => sealing[j].end <= sealing[i].end
        /\ \E w \in present :
            /\ Begins(w, sealing[i].end)
            /\ \A f \in due \cup retiring : f < w
            /\ \A j \in DOMAIN sealing : j <= i => \A f \in sealing[j].wals : f < w

\* The open store's log: the live file is the last, and all of the history past
\* what is covered is in some file.
UpInv ==
    phase = "up" =>
        /\ wid \in present /\ \A f \in present : f <= wid
        /\ hdr[wid] # "none"
        /\ seq = Len(hist) + 1
        /\ synced <= Len(frames[wid])
        /\ \A s \in covered..Len(hist) : Has(s)
        /\ \A f \in closed \cup retiring : f < wid
        /\ \A i \in DOMAIN sealing : \A f \in sealing[i].wals : f < wid

\* The files waiting to be retired are in the directory, each in one queue.
QueueInv ==
    /\ closed \cup retiring \cup due \subseteq present
    /\ closed \cap retiring = {} /\ due \cap (closed \cup retiring) = {}
    /\ \A i \in DOMAIN sealing :
        /\ sealing[i].wals \subseteq present
        /\ sealing[i].wals \cap (closed \cup retiring \cup due) = {}
        /\ \A j \in DOMAIN sealing :
              j # i => sealing[i].wals \cap sealing[j].wals = {}

\* What each barrier of a sync leaves paid.
PcInv ==
    /\ pc \in {"loose", "live"} => ~dirUnsynced
    /\ pc = "live" => looseWals = {}
    /\ pc = "rotate" /\ ~FramesUnsynced => looseWals = {} /\ ~dirUnsynced

\* A process that is gone has nothing under way.
RestInv ==
    phase # "up" =>
        /\ pc = "idle" /\ sealing = <<>> /\ retiring = {} /\ due = {}
        /\ closed = {} /\ looseWals = {} /\ unsynced = 0 /\ dirUnsynced = FALSE

\* What a failure leaves: the first gap is behind a loose header, nothing
\* promised is missing, and after a kill nothing at all; and a power loss has
\* settled which removals reached the device.
DownInv ==
    phase # "up" =>
        /\ \A f \in present : Gap(f) =>
              \E e \in present : e <= f /\ Gap(e) /\ hdr[e] = "loose"
        /\ \A s \in covered..acked : Has(s)
        /\ ~Power => \A s \in covered..Len(hist) : Has(s)
        /\ Power => lingers = {} \/ \E e \in present : Ended(e)

\* A replay has recovered the history up to `from', and the files it has read
\* hold nothing past it.
ReplayInv ==
    phase = "replay" =>
        /\ todo \subseteq present
        /\ \A f \in todo, g \in present \ todo : g < f
        /\ covered <= from /\ from <= Len(hist) + 1
        /\ rec = SubSeq(hist, 1, from - 1)
        /\ \A s \in covered..(from - 1) : Has(s)
        /\ \/ \E e \in present : Ended(e)
           \/ /\ \A f \in present \ todo : \A i \in Frames(f) : SeqAt(f, i) < from
              /\ \A m \in present \ todo :
                    (\A g \in present \ todo : g <= m) => valid = Len(frames[m])

\* What the device holds, where power may be lost: of a stopped store all that
\* is there, of an open one all but the live file's tail, the files of looseWals
\* and the names dirUnsynced owes, with all whole before a chained header; and
\* the batches not counted in `unsynced'.
WholeFile(f) == f \in entered /\ dur[f] = Len(frames[f])
DurInv ==
    Power =>
        /\ \A f \in present : dur[f] <= Len(frames[f])
        /\ phase # "up" => \A f \in present : WholeFile(f) /\ hdrs[f] = {hdr[f]}
        /\ phase = "up" =>
            /\ \A f \in present \ {wid} : f \notin looseWals => dur[f] = Len(frames[f])
            /\ synced <= dur[wid]
            /\ ~dirUnsynced => present \subseteq entered
            /\ \A f \in present : "chained" \in hdrs[f] =>
                  \A g \in present : g < f => WholeFile(g)
            /\ \A s \in 1..(seq - 1) : s + unsynced < seq => Kept(s)

\* Killed or not, a store that never loses power has every batch.
KillInv == ~Power => hist = [i \in 1..(next - 1) |-> i]

LogInv ==
    /\ TypeOK /\ NeverRefused /\ FrameInv /\ OrderInv /\ OldInv /\ HdrInv
    /\ AnchorInv /\ HistInv /\ SealInv /\ UpInv /\ QueueInv /\ PcInv /\ RestInv
    /\ DownInv /\ ReplayInv /\ DurInv /\ KillInv

-----------------------------------------------------------------------------
(* Least and greatest, of the sets an open takes them of.                     *)

LEMMA LeastFile ==
    ASSUME NEW S \in SUBSET Nat, S # {}
    PROVE  \E x \in S : \A y \in S : x <= y
<1>1. \E x \in S : \A y \in S : ~(<<y, x>> \in OpToRel(<, Nat))
    BY NatLessThanWellFounded, WFMin, Zenon
<1>2. PICK x \in S : \A y \in S : ~(<<y, x>> \in OpToRel(<, Nat))
    BY <1>1, Zenon
<1>3. \A y \in S : x <= y
    <2> SUFFICES ASSUME NEW y \in S, ~(x <= y) PROVE FALSE
        OBVIOUS
    <2>1. y < x /\ <<y, x>> \in Nat \X Nat
        OBVIOUS
    <2>2. <<y, x>>[1] < <<y, x>>[2]
        BY <2>1
    <2> QED
        BY <2>1, <2>2, <1>2, Zenon DEF OpToRel
<1> QED
    BY <1>3

LEMMA MinOf ==
    ASSUME NEW S \in SUBSET Nat, S # {}
    PROVE  Min(S) \in S /\ \A y \in S : Min(S) <= y
BY LeastFile, Zenon DEF Min

LEMMA MaxOf ==
    ASSUME NEW N \in Nat, NEW S \in SUBSET (0..N), S # {}
    PROVE  Max(S) \in S /\ \A y \in S : y <= Max(S)
<1> DEFINE T == {N - y : y \in S}
<1>1. T \in SUBSET Nat /\ T # {}
    <2>1. \A y \in S : N - y \in Nat
        OBVIOUS
    <2> QED
        BY <2>1
<1>2. PICK x \in T : \A y \in T : x <= y
    BY <1>1, LeastFile
<1>3. PICK m \in S : x = N - m
    BY <1>2
<1>4. \A y \in S : m >= y
    <2> TAKE y \in S
    <2>1. N - m <= N - y
        BY <1>2, <1>3
    <2> QED
        BY <2>1
<1>5. \E z \in S : \A y \in S : z >= y
    BY <1>4
<1>6. Max(S) \in S /\ \A y \in S : Max(S) >= y
    BY <1>5, Zenon DEF Max
<1> QED
    BY <1>6

\* The greatest of the prefixes 0..m is m itself.
LEMMA MaxPrefix ==
    ASSUME NEW m \in Nat PROVE Max(0..m) = m
<1>0. 0..m \in SUBSET (0..m) /\ 0 \in 0..m
    OBVIOUS
<1>1. Max(0..m) \in 0..m /\ \A y \in 0..m : y <= Max(0..m)
    BY <1>0, MaxOf, Zenon
<1> QED
    BY <1>1

-----------------------------------------------------------------------------
(* The shape of a frame, and of what a file reads as.                         *)

LEMMA FrameShape ==
    ASSUME TypeOK, NEW f \in File
    PROVE  /\ frames[f] \in Seq(Frame) /\ old[f] \in Seq(Frame)
           /\ Len(frames[f]) \in Nat /\ Frames(f) = DOMAIN frames[f]
           /\ \A i \in Frames(f) : /\ frames[f][i] \in Frame
                                   /\ SeqAt(f, i) \in Seqno /\ frames[f][i].b \in Batch
           /\ frames[f] = <<>> <=> Len(frames[f]) = 0
<1>1. frames[f] \in Seq(Frame) /\ old[f] \in Seq(Frame)
    BY DEF TypeOK
<1>2. \A i \in 1..Len(frames[f]) : frames[f][i] \in Frame
    BY <1>1
<1> QED
    BY <1>1, <1>2 DEF Frames, SeqAt, Frame

\* A recycled file: its frames over those of its former life.
LEMMA OverOld ==
    ASSUME NEW S, NEW a \in Seq(S), NEW o \in Seq(S), NEW v,
           v = a \o SubSeq(o, Len(a) + 1, Len(o))
    PROVE  /\ v \in Seq(S) /\ Len(v) >= Len(a)
           /\ \A i \in 1..Len(a) : v[i] = a[i]
           /\ \A i \in (Len(a) + 1)..Len(v) : i \in DOMAIN o /\ v[i] = o[i]
           /\ SubSeq(v, 1, Len(a)) = a /\ SubSeq(v, 1, 0) = <<>>
<1> DEFINE n == Len(a)
           t == SubSeq(o, n + 1, Len(o))
<1>1. n \in Nat /\ Len(o) \in Nat /\ DOMAIN o = 1..Len(o)
    OBVIOUS
<1>2. t \in Seq(S) /\ Len(t) = IF n + 1 <= Len(o) THEN Len(o) - n ELSE 0
    BY <1>1
<1>3. \A i \in 1..Len(t) : t[i] = o[n + i]
    BY <1>1
<1> HIDE DEF t
<1>4. v = a \o t
    BY DEF t
<1>5. v \in Seq(S) /\ Len(v) = n + Len(t)
    BY <1>2, <1>4
<1>6. \A i \in 1..(Len(a) + Len(t)) : v[i] = IF i <= Len(a) THEN a[i] ELSE t[i - Len(a)]
    BY <1>2, <1>4, SMTT(30)
<1> HIDE DEF n
<1>n. n = Len(a)
    BY DEF n
<1>l. Len(t) \in Nat
    BY <1>2
<1>7. \A i \in 1..n : v[i] = a[i]
    BY <1>6, <1>n, <1>1, <1>l
<1>8. ASSUME NEW i \in (n + 1)..Len(v) PROVE i \in DOMAIN o /\ v[i] = o[i]
    <2>1. i - n \in 1..Len(t) /\ n + (i - n) = i /\ i \in 1..(n + Len(t)) /\ ~(i <= n)
        BY <1>1, <1>l, <1>5
    <2>2. v[i] = t[i - n]
        BY <2>1, <1>6, <1>n
    <2>3. t[i - n] = o[i]
        BY <2>1, <1>3, <1>n
    <2>4. i \in 1..Len(o)
        <3>1. Len(t) = IF n + 1 <= Len(o) THEN Len(o) - n ELSE 0
            BY <1>2, <1>n
        <3>2. n \in Nat /\ Len(o) \in Nat /\ i \in Int
            BY <1>1, <1>n, <2>1
        <3> HIDE <1>1, <1>2, <1>3, <1>4, <1>5, <1>6, <1>7
        <3>3. CASE n + 1 <= Len(o)
            BY <2>1, <3>1, <3>2, <3>3
        <3>4. CASE ~(n + 1 <= Len(o))
            BY <2>1, <3>1, <3>2, <3>4
        <3> QED
            BY <3>3, <3>4
    <2> QED
        BY <2>2, <2>3, <2>4, <1>1
<1>9. SubSeq(v, 1, n) = a
    <2>1. SubSeq(v, 1, n) \in Seq(S) /\ Len(SubSeq(v, 1, n)) = n
        BY <1>1, <1>5, <1>l
    <2>2. \A i \in 1..n : SubSeq(v, 1, n)[i] = v[i]
        BY <1>1, <1>5, <1>l
    <2> QED
        BY <2>1, <2>2, <1>7, <1>n
<1>10. SubSeq(v, 1, 0) = <<>>
    BY <1>5
<1> QED
    BY <1>1, <1>l, <1>5, <1>7, <1>8, <1>9, <1>10, <1>n

\* Wal::replay's walk over a file: all frames of this life, and none of the last.
LEMMA ReadsItsOwn ==
    ASSUME TypeOK, FrameInv, OldInv, HdrInv, NEW f \in present
    PROVE  /\ Readable(f) = frames[f]
           /\ Visible(f) \in Seq(Frame) /\ Len(Visible(f)) >= Len(frames[f])
           /\ SubSeq(Visible(f), 1, Len(frames[f])) = frames[f]
           /\ SubSeq(Visible(f), 1, 0) = <<>>
           /\ \A i \in 1..Len(Visible(f)) : Visible(f)[i].life <= f
<1> DEFINE n == Len(frames[f])
           v == Visible(f)
<1>0. f \in File /\ f \in Left /\ f \in Nat
    BY DEF TypeOK, Left, File
<1>1. frames[f] \in Seq(Frame) /\ old[f] \in Seq(Frame) /\ n \in Nat
    BY <1>0, FrameShape
<1>3. v = frames[f] \o SubSeq(old[f], Len(frames[f]) + 1, Len(old[f]))
    BY DEF Visible
<1>n. n = Len(frames[f]) /\ v = Visible(f)
    OBVIOUS
<1> HIDE DEF n, v
<1>o. /\ v \in Seq(Frame) /\ Len(v) >= Len(frames[f])
      /\ \A i \in 1..Len(frames[f]) : v[i] = frames[f][i]
      /\ \A i \in (Len(frames[f]) + 1)..Len(v) : i \in DOMAIN old[f] /\ v[i] = old[f][i]
      /\ SubSeq(v, 1, Len(frames[f])) = frames[f] /\ SubSeq(v, 1, 0) = <<>>
    <2> DEFINE a == frames[f]
               o == old[f]
    <2>1. a \in Seq(Frame) /\ o \in Seq(Frame) /\ v = a \o SubSeq(o, Len(a) + 1, Len(o))
        BY <1>1, <1>3
    <2> HIDE DEF a, o
    <2>2. /\ v \in Seq(Frame) /\ Len(v) >= Len(a)
          /\ \A i \in 1..Len(a) : v[i] = a[i]
          /\ \A i \in (Len(a) + 1)..Len(v) : i \in DOMAIN o /\ v[i] = o[i]
          /\ SubSeq(v, 1, Len(a)) = a /\ SubSeq(v, 1, 0) = <<>>
        BY <2>1, OverOld
    <2> QED
        BY <2>2 DEF a, o
<1>4. v \in Seq(Frame) /\ Len(v) >= n /\ Len(v) \in Nat
    BY <1>o, <1>n
<1>5. \A i \in 1..n : v[i] = frames[f][i]
    BY <1>o, <1>n
<1>8. \A i \in (n + 1)..Len(v) : v[i].life < f
    <2> TAKE i \in (n + 1)..Len(v)
    <2>1. i \in DOMAIN old[f] /\ v[i] = old[f][i]
        BY <1>o, <1>n
    <2> QED
        BY <2>1, <1>0 DEF OldInv
<1>9. \A i \in 1..n : v[i].life = f
    BY <1>5, <1>0, <1>n DEF FrameInv, Frames
<1>10. SubSeq(v, 1, n) = frames[f]
    BY <1>o, <1>n
<1>11. SubSeq(v, 1, 0) = <<>>
    BY <1>o, <1>n
<1>12. \A i \in 1..Len(v) : v[i].life <= f
    <2> TAKE i \in 1..Len(v)
    <2>1. i \in 1..n \/ i \in (n + 1)..Len(v)
        BY <1>1, <1>4
    <2>2. CASE i \in 1..n
        BY <2>2, <1>9, <1>0
    <2>3. CASE i \in (n + 1)..Len(v)
        <3>1. v[i] \in Frame
            BY <1>4
        <3>2. v[i].life \in Nat
            BY <3>1 DEF Frame, File
        <3> QED
            BY <2>3, <3>2, <1>8, <1>0
    <2> QED
        BY <2>1, <2>2, <2>3
<1>13. Readable(f) = frames[f]
    <2>1. CASE hdr[f] = "none"
        BY <2>1 DEF Readable, HdrInv
    <2>2. CASE hdr[f] # "none"
        <3> DEFINE whole == {m \in 0..Len(v) : \A i \in 1..m : v[i].life = f}
        <3> HIDE DEF whole
        <3>1. whole = 0..n
            <4>1. \A m \in 0..n : m \in whole
                BY <1>1, <1>4, <1>9 DEF whole
            <4>2. \A m \in whole : m \in 0..n
                <5> SUFFICES ASSUME NEW m \in whole, m > n PROVE FALSE
                    BY <1>1, <1>4 DEF whole
                <5>1. n + 1 \in 1..m /\ n + 1 \in (n + 1)..Len(v)
                    BY <1>1, <1>4 DEF whole
                <5>2. v[n + 1].life = f
                    BY <5>1 DEF whole
                <5>3. v[n + 1].life < f
                    BY <5>1, <1>8
                <5> QED
                    BY ONLY <5>2, <5>3, <1>0
            <4> QED
                BY <4>1, <4>2
        <3>2. Max(whole) = n
            BY <3>1, <1>1, MaxPrefix
        <3>3. Readable(f) = SubSeq(v, 1, Max(whole))
            BY <2>2, <1>n DEF Readable, whole
        <3> QED
            BY <3>2, <3>3, <1>10
    <2> QED
        BY <2>1, <2>2
<1> QED
    BY <1>1, <1>4, <1>10, <1>11, <1>12, <1>13, <1>n

-----------------------------------------------------------------------------
(* The variables keep their types.                                            *)

LEMMA TypeInit == Init => TypeOK
<1> SUFFICES ASSUME Init PROVE TypeOK
    OBVIOUS
<1>1. 0 \in File /\ 1 \in Seqno /\ 0 \in 0..MaxFail
    BY WalAssumption DEF File, Seqno
<1>2. <<>> \in Seq(Frame) /\ <<>> \in Seq(Batch) /\ <<>> \in Seq(Seal)
    OBVIOUS
<1>3. << <<>> >> \in Seq(Seq(Frame)) /\ <<>> \in Seq(Seq(Frame))
    BY <1>2
<1>4. hdr \in [File -> Kind] /\ hdrs \in [File -> SUBSET Kind]
    BY DEF Init, Kind
<1>5. frames \in [File -> Seq(Frame)] /\ old \in [File -> Seq(Frame)] /\ dur \in [File -> Nat]
    BY <1>2 DEF Init
<1>6. spare \in Seq(Seq(Frame))
    BY <1>3 DEF Init
<1>7. next \in 1..(MaxBatch + 1)
    BY WalAssumption DEF Init
<1>8. covered \in Seqno /\ seq \in Seqno /\ from \in Seqno /\ fails \in 0..MaxFail
    BY <1>1 DEF Init
<1> QED
    BY <1>1, <1>2, <1>4, <1>5, <1>6, <1>7, <1>8 DEF Init, TypeOK

\* The live file's sequence has room while a batch may be committed.
LEMMA SeqRoom ==
    ASSUME TypeOK, HistInv, UpInv, phase = "up"
    PROVE  /\ Len(hist) \in Nat /\ seq = Len(hist) + 1 /\ seq <= next
           /\ wid \in File /\ wid \in Nat /\ wid \in Left
<1>1. Len(hist) \in Nat /\ next \in Nat
    BY WalAssumption DEF TypeOK
<1> QED
    BY <1>1 DEF TypeOK, HistInv, UpInv, File, Left

LEMMA TypeCommit ==
    ASSUME TypeOK, HistInv, UpInv, Commit PROVE TypeOK'
<1>1. phase = "up" /\ next <= MaxBatch
    BY DEF Commit
<1>2. seq = Len(hist) + 1 /\ Len(hist) \in Nat /\ wid \in File /\ seq <= next
    BY <1>1, SeqRoom
<1>3. next \in Batch /\ next + 1 \in 1..(MaxBatch + 1) /\ seq \in Seqno /\ seq + 1 \in Seqno
    BY <1>1, <1>2, WalAssumption DEF TypeOK, Batch, Seqno
<1>4. [life |-> wid, seq |-> seq, b |-> next] \in Frame
    BY <1>2, <1>3 DEF Frame
<1>5. Append(frames[wid], [life |-> wid, seq |-> seq, b |-> next]) \in Seq(Frame)
    BY <1>2, <1>4 DEF TypeOK
<1>6. frames' \in [File -> Seq(Frame)]
    BY <1>5 DEF Commit, TypeOK
<1>7. hist' \in Seq(Batch)
    BY <1>3 DEF Commit, TypeOK
<1>8. unsynced' \in Nat
    BY DEF Commit, TypeOK
<1>9. seq' \in Seqno /\ next' \in 1..(MaxBatch + 1)
    BY <1>3 DEF Commit
<1> QED
    BY <1>6, <1>7, <1>8, <1>9
    DEF Commit, TypeOK, names, store, maint, replay

LEMMA TypeSync ==
    ASSUME TypeOK, Sync PROVE TypeOK'
<1>1. acked' \in Nat /\ unsynced' \in Nat /\ pc' \in {"dir", "idle"}
    BY DEF Sync, TypeOK
<1> QED
    BY <1>1 DEF Sync, TypeOK, names, bytes, store, live, maint, replay

LEMMA TypeSmall ==
    ASSUME TypeOK, WalDirBarrier \/ SyncFails \/ NoRotation \/ NewDirBarrier \/ Seals
    PROVE  TypeOK'
<1>1. CASE WalDirBarrier
    BY <1>1 DEF WalDirBarrier, DirSynced, TypeOK, bytes, store, live, maint, replay, ghost
<1>2. CASE SyncFails
    BY <1>2 DEF SyncFails, TypeOK, names, bytes, store, live, queues, maint, replay, ghost
<1>3. CASE NoRotation
    BY <1>3 DEF NoRotation, TypeOK, names, bytes, store, live, queues, maint, replay, ghost
<1>4. CASE NewDirBarrier
    BY <1>4 DEF NewDirBarrier, DirSynced, TypeOK, bytes, store, live, maint, replay, ghost
<1>5. CASE Seals
    BY <1>5 DEF Seals, TypeOK, names, bytes, store, live, queues, maint, replay, ghost
<1> QED
    BY <1>1, <1>2, <1>3, <1>4, <1>5

LEMMA TypeSyncLoose ==
    ASSUME TypeOK, SyncLoose PROVE TypeOK'
<1> DEFINE f == Min(looseWals)
<1>1. f \in looseWals /\ f \in File
    <2>1. looseWals \in SUBSET Nat /\ looseWals # {}
        BY DEF SyncLoose, TypeOK, File
    <2> QED
        BY <2>1, MinOf DEF TypeOK
<1>2. Len(frames[f]) \in Nat /\ hdr[f] \in Kind
    BY <1>1, FrameShape DEF TypeOK
<1> HIDE DEF f
<1>3. /\ \/ /\ dur' = [dur EXCEPT ![f] = Len(frames[f])]
            /\ hdrs' = [hdrs EXCEPT ![f] = {hdr[f]}]
            /\ lingers' = {}
         \/ UNCHANGED <<dur, hdrs, lingers>>
      /\ looseWals' = looseWals \ {f}
    BY DEF SyncLoose, f, UnlinksReached
<1>4. dur' \in [File -> Nat] /\ hdrs' \in [File -> SUBSET Kind] /\ lingers' \subseteq File
    <2>1. {hdr[f]} \in SUBSET Kind
        BY <1>2
    <2>2. CASE UNCHANGED <<dur, hdrs, lingers>>
        BY <2>2 DEF TypeOK
    <2>3. CASE /\ dur' = [dur EXCEPT ![f] = Len(frames[f])]
               /\ hdrs' = [hdrs EXCEPT ![f] = {hdr[f]}]
               /\ lingers' = {}
        BY <1>2, <2>1, <2>3 DEF TypeOK
    <2> QED
        BY <1>3, <2>2, <2>3
<1> QED
    BY <1>3, <1>4 DEF SyncLoose, TypeOK, store, call, live, maint, replay, ghost

LEMMA TypeChain ==
    ASSUME TypeOK, Chain PROVE TypeOK'
<1>1. wid \in File /\ "chained" \in Kind
    BY DEF TypeOK, Kind
<1>2. \/ /\ hdr' = [hdr EXCEPT ![wid] = "chained"]
         /\ hdrs' = [hdrs EXCEPT ![wid] = @ \cup {"chained"}]
      \/ UNCHANGED <<hdr, hdrs>>
    BY DEF Chain
<1>3. hdr' \in [File -> Kind] /\ hdrs' \in [File -> SUBSET Kind]
    <2>1. hdrs[wid] \cup {"chained"} \in SUBSET Kind
        BY <1>1 DEF TypeOK
    <2>2. CASE UNCHANGED <<hdr, hdrs>>
        BY <2>2 DEF TypeOK
    <2>3. CASE /\ hdr' = [hdr EXCEPT ![wid] = "chained"]
               /\ hdrs' = [hdrs EXCEPT ![wid] = @ \cup {"chained"}]
        BY <1>1, <2>1, <2>3 DEF TypeOK
    <2> QED
        BY <1>2, <2>2, <2>3
<1> QED
    BY <1>3 DEF Chain, TypeOK, names, store, queues, maint, replay, ghost

LEMMA TypeSyncLive ==
    ASSUME TypeOK, SyncLive PROVE TypeOK'
<1>1. Len(frames[wid]) \in Nat /\ wid \in File /\ Len(hist) \in Nat /\ hdr[wid] \in Kind
    BY FrameShape DEF TypeOK
<1>2. dur' \in [File -> Nat] /\ hdrs' \in [File -> SUBSET Kind] /\ lingers' \subseteq File
    BY <1>1 DEF TypeOK, SyncLive, UnlinksReached
<1> QED
    BY <1>1, <1>2 DEF SyncLive, TypeOK, store, maint, replay

\* Db::rotate_wal's effect, with its local names.
LEMMA RotateParts ==
    ASSUME TypeOK, RotateWal
    PROVE  \E n \in File, k \in {"loose", "chained"} :
             /\ phase = "up" /\ pc = "rotate" /\ wid < MaxFile /\ n = wid + 1
             /\ k = "loose" <=> FramesUnsynced
             /\ present' = present \cup {n}
             /\ entered' = entered \ {n} /\ lingers' = lingers \ {n}
             /\ hdr' = [hdr EXCEPT ![n] = k]
             /\ hdrs' = [hdrs EXCEPT ![n] = {k, "none"}]
             /\ frames' = [frames EXCEPT ![n] = <<>>]
             /\ dur' = [dur EXCEPT ![n] = 0]
             /\ old' = [old EXCEPT ![n] = IF spare = <<>> THEN <<>> ELSE Head(spare)]
             /\ spare' = <<>>
             /\ wid' = n /\ synced' = 0
             /\ closed' = closed \cup {wid}
             /\ looseWals' = IF k = "loose" THEN (looseWals \cap present) \cup {wid}
                             ELSE looseWals
             /\ dirUnsynced' = TRUE
             /\ pc' \in {"newdir", "hand", "idle"}
             /\ UNCHANGED <<store, phase, why, seq, unsynced, maint, replay, ghost, fails>>
<1> DEFINE n == wid + 1
           k == NextKind
<1>1. n \in File
    BY WalAssumption DEF RotateWal, TypeOK, File
<1>2. k \in {"loose", "chained"} /\ (k = "loose" <=> FramesUnsynced)
    BY DEF NextKind
<1>3. /\ phase = "up" /\ pc = "rotate" /\ wid < MaxFile /\ n = wid + 1
      /\ present' = present \cup {n}
      /\ entered' = entered \ {n} /\ lingers' = lingers \ {n}
      /\ hdr' = [hdr EXCEPT ![n] = k]
      /\ hdrs' = [hdrs EXCEPT ![n] = {k, "none"}]
      /\ frames' = [frames EXCEPT ![n] = <<>>]
      /\ dur' = [dur EXCEPT ![n] = 0]
      /\ old' = [old EXCEPT ![n] = IF spare = <<>> THEN <<>> ELSE Head(spare)]
      /\ spare' = <<>>
      /\ wid' = n /\ synced' = 0
      /\ closed' = closed \cup {wid}
      /\ looseWals' = IF k = "loose" THEN (looseWals \cap present) \cup {wid}
                      ELSE looseWals
      /\ dirUnsynced' = TRUE
      /\ UNCHANGED <<store, phase, why, seq, unsynced, maint, replay, ghost, fails>>
    BY Zenon DEF RotateWal
<1>4. pc' \in {"newdir", "hand", "idle"}
    <2>1. pc' = IF k = "chained" THEN "newdir" ELSE IF why = "seal" THEN "hand" ELSE "idle"
        BY Zenon DEF RotateWal
    <2> QED
        BY <2>1
<1> HIDE DEF n, k
<1> QED
    BY <1>1, <1>2, <1>3, <1>4, Zenon

LEMMA TypeRotate ==
    ASSUME TypeOK, RotateWal PROVE TypeOK'
<1>1. PICK n \in File, k \in {"loose", "chained"} :
             /\ present' = present \cup {n}
             /\ entered' = entered \ {n} /\ lingers' = lingers \ {n}
             /\ hdr' = [hdr EXCEPT ![n] = k]
             /\ hdrs' = [hdrs EXCEPT ![n] = {k, "none"}]
             /\ frames' = [frames EXCEPT ![n] = <<>>]
             /\ dur' = [dur EXCEPT ![n] = 0]
             /\ old' = [old EXCEPT ![n] = IF spare = <<>> THEN <<>> ELSE Head(spare)]
             /\ spare' = <<>>
             /\ wid' = n /\ synced' = 0
             /\ closed' = closed \cup {wid}
             /\ looseWals' = IF k = "loose" THEN (looseWals \cap present) \cup {wid}
                             ELSE looseWals
             /\ dirUnsynced' = TRUE
             /\ pc' \in {"newdir", "hand", "idle"}
             /\ UNCHANGED <<store, phase, why, seq, unsynced, maint, replay, ghost, fails>>
    BY RotateParts, Zenon
<1>2. k \in Kind /\ "none" \in Kind /\ wid \in File /\ <<>> \in Seq(Frame)
    BY DEF Kind, TypeOK
<1>3. (IF spare = <<>> THEN <<>> ELSE Head(spare)) \in Seq(Frame)
    BY <1>2 DEF TypeOK
<1>4. hdr' \in [File -> Kind] /\ hdrs' \in [File -> SUBSET Kind]
    BY <1>1, <1>2 DEF TypeOK
<1>5. frames' \in [File -> Seq(Frame)] /\ dur' \in [File -> Nat]
    BY <1>1, <1>2 DEF TypeOK
<1>6. old' \in [File -> Seq(Frame)]
    <2> DEFINE o == IF spare = <<>> THEN <<>> ELSE Head(spare)
    <2>1. o \in Seq(Frame) /\ old' = [old EXCEPT ![n] = o]
        BY <1>1, <1>3
    <2> HIDE DEF o
    <2> QED
        BY <2>1 DEF TypeOK
<1>7. loose' \in BOOLEAN
    <2>1. loose' = (NextKind = "loose")
        BY Zenon DEF RotateWal
    <2> QED
        BY <2>1
<1>8. present' \subseteq File /\ entered' \subseteq File /\ lingers' \subseteq File
    BY <1>1 DEF TypeOK
<1>9. closed' \subseteq File /\ looseWals' \subseteq File
    BY <1>1, <1>2 DEF TypeOK
<1>10. spare' \in Seq(Seq(Frame)) /\ wid' \in File /\ synced' \in Nat /\ dirUnsynced' \in BOOLEAN
    BY <1>1
<1>11. pc' \in {"idle", "dir", "loose", "live", "rotate", "newdir", "hand"}
    BY <1>1
<1>12. UNCHANGED <<covered, segLog, phase, why, seq, unsynced, sealing, retiring, due,
                   todo, valid, from, rec, hist, acked, next, fails>>
    BY <1>1, Zenon DEF store, maint, replay, ghost
<1> QED
    BY <1>4, <1>5, <1>6, <1>7, <1>8, <1>9, <1>10, <1>11, <1>12, Zenon DEF TypeOK

LEMMA TypeHandSeal ==
    ASSUME TypeOK, HandSeal PROVE TypeOK'
<1>1. [end |-> seq, wals |-> closed] \in Seal
    BY DEF TypeOK, Seal
<1>2. sealing' \in Seq(Seal)
    BY <1>1 DEF HandSeal, TypeOK
<1> QED
    BY <1>2 DEF HandSeal, TypeOK, names, bytes, store, live, replay, ghost

LEMMA TypeLand ==
    ASSUME TypeOK, HistInv, SealInv, LandDurable PROVE TypeOK'
<1>1. sealing \in Seq(Seal) /\ sealing # <<>>
    BY DEF LandDurable, TypeOK
<1>2. Head(sealing) \in Seal /\ Tail(sealing) \in Seq(Seal)
    BY <1>1
<1>3. Head(sealing).end \in Seqno /\ Head(sealing).wals \subseteq File
    BY <1>2 DEF Seal
<1>4. sealing[1] = Head(sealing) /\ 1 \in DOMAIN sealing
    BY <1>1
<1>5. Head(sealing).end <= Len(hist) + 1
    BY <1>4 DEF SealInv
<1>6. SubSeq(hist, 1, Head(sealing).end - 1) \in Seq(Batch)
    <2>1. PICK e \in Seqno : e = Head(sealing).end
        BY <1>3
    <2>2. hist \in Seq(Batch) /\ Len(hist) \in Nat /\ e - 1 \in 0..Len(hist)
        <3>1. hist \in Seq(Batch)
            BY DEF TypeOK
        <3>2. Len(hist) \in Nat
            BY <3>1
        <3>3. e \in Nat /\ e >= 1
            BY WalAssumption DEF Seqno
        <3>4. e <= Len(hist) + 1
            BY <1>5, <2>1, Zenon
        <3>5. e - 1 \in 0..Len(hist)
            BY ONLY <3>2, <3>3, <3>4
        <3> QED
            BY <3>1, <3>2, <3>5, Zenon
    <2>3. SubSeq(hist, 1, e - 1) \in Seq(Batch)
        BY <2>2
    <2> QED
        BY <2>1, <2>3
<1>7. /\ covered' = Head(sealing).end
      /\ segLog' = SubSeq(hist, 1, Head(sealing).end - 1)
      /\ due' = retiring \cup Head(sealing).wals
      /\ retiring' = {} /\ sealing' = Tail(sealing)
      /\ entered' = present /\ lingers' = {}
    BY DEF LandDurable, DirSynced
<1>8. covered' \in Seqno /\ segLog' \in Seq(Batch) /\ due' \subseteq File /\ sealing' \in Seq(Seal)
    BY <1>2, <1>3, <1>6, <1>7 DEF TypeOK
<1> QED
    BY <1>7, <1>8 DEF LandDurable, TypeOK, bytes, call, live, queues, replay, ghost

LEMMA TypeRetire ==
    ASSUME TypeOK, NEW f \in File, RetireWal(f) PROVE TypeOK'
<1>1. Visible(f) \in Seq(Frame)
    BY FrameShape DEF Visible
<1>2. << Visible(f) >> \in Seq(Seq(Frame))
    BY <1>1
<1>3. spare' \in Seq(Seq(Frame))
    BY <1>2 DEF RetireWal, TypeOK
<1> QED
    BY <1>3 DEF RetireWal, TypeOK, bytes, store, call, live, queues, replay, ghost

\* What a process that is gone leaves of the variables it held.
LEMMA TypeForget ==
    ASSUME TypeOK, Forget,
           present' \subseteq File, entered' \subseteq File, lingers' \subseteq File,
           hdr' \in [File -> Kind], hdrs' \in [File -> SUBSET Kind],
           frames' \in [File -> Seq(Frame)], dur' \in [File -> Nat],
           UNCHANGED <<old, spare>>
    PROVE  TypeOK'
<1>1. 0 \in File /\ 1 \in Seqno /\ fails' \in 0..MaxFail
    BY WalAssumption DEF File, Seqno, Forget, TypeOK
<1>2. <<>> \in Seq(Batch) /\ <<>> \in Seq(Seal)
    OBVIOUS
<1> QED
    BY <1>1, <1>2 DEF Forget, TypeOK, store, ghost

\* What a power loss leaves, file by file.
LEMMA PowerParts ==
    ASSUME TypeOK, PowerLoss
    PROVE  /\ present' \subseteq Left /\ present \cap entered \subseteq present'
           /\ entered' = present' /\ lingers' = {}
           /\ \A f \in present' : \E n \in dur[f]..Len(frames[f]) :
                /\ n \in Nat /\ dur'[f] = n /\ Len(frames'[f]) = n
                /\ \A i \in 1..n : frames'[f][i] = frames[f][i]
                /\ hdr'[f] \in HeadersLeft(f, n) /\ hdrs'[f] = {hdr'[f]}
           /\ hdr' \in [File -> Kind] /\ hdrs' \in [File -> SUBSET Kind]
           /\ frames' \in [File -> Seq(Frame)] /\ dur' \in [File -> Nat]
<1>1. PICK lost \in SUBSET (present \ entered), back \in SUBSET lingers :
        /\ present' = (present \ lost) \cup back
        /\ entered' = present'
        /\ \E cut \in [present' -> 0..MaxBatch] :
            /\ \A f \in present' : cut[f] \in dur[f]..Len(frames[f])
            /\ frames' = [f \in File |-> IF f \in present'
                                         THEN SubSeq(frames[f], 1, cut[f])
                                         ELSE frames[f]]
            /\ dur' = [f \in File |-> IF f \in present' THEN cut[f] ELSE dur[f]]
            /\ \E kind \in [present' -> Kind] :
                /\ \A f \in present' : kind[f] \in HeadersLeft(f, cut[f])
                /\ hdr' = [f \in File |-> IF f \in present' THEN kind[f] ELSE hdr[f]]
                /\ hdrs' = [f \in File |-> IF f \in present' THEN {kind[f]}
                                           ELSE hdrs[f]]
    BY Zenon DEF PowerLoss
<1>2. PICK cut \in [present' -> 0..MaxBatch] :
            /\ \A f \in present' : cut[f] \in dur[f]..Len(frames[f])
            /\ frames' = [f \in File |-> IF f \in present'
                                         THEN SubSeq(frames[f], 1, cut[f])
                                         ELSE frames[f]]
            /\ dur' = [f \in File |-> IF f \in present' THEN cut[f] ELSE dur[f]]
            /\ \E kind \in [present' -> Kind] :
                /\ \A f \in present' : kind[f] \in HeadersLeft(f, cut[f])
                /\ hdr' = [f \in File |-> IF f \in present' THEN kind[f] ELSE hdr[f]]
                /\ hdrs' = [f \in File |-> IF f \in present' THEN {kind[f]}
                                           ELSE hdrs[f]]
    BY <1>1, Zenon
<1>3. PICK kind \in [present' -> Kind] :
                /\ \A f \in present' : kind[f] \in HeadersLeft(f, cut[f])
                /\ hdr' = [f \in File |-> IF f \in present' THEN kind[f] ELSE hdr[f]]
                /\ hdrs' = [f \in File |-> IF f \in present' THEN {kind[f]}
                                           ELSE hdrs[f]]
    BY <1>2, Zenon
<1>4. present' \subseteq Left /\ present \cap entered \subseteq present' /\ entered' = present'
    BY <1>1 DEF Left
<1>5. present' \subseteq File
    BY <1>4 DEF Left, TypeOK
<1>6. lingers' = {}
    BY Zenon DEF PowerLoss
<1>7. ASSUME NEW f \in File, f \in present'
      PROVE  /\ cut[f] \in Nat /\ cut[f] \in dur[f]..Len(frames[f])
             /\ SubSeq(frames[f], 1, cut[f]) \in Seq(Frame)
             /\ Len(SubSeq(frames[f], 1, cut[f])) = cut[f]
             /\ \A i \in 1..cut[f] : SubSeq(frames[f], 1, cut[f])[i] = frames[f][i]
    <2>1. PICK n \in Nat : n = cut[f]
        BY <1>7, <1>2, WalAssumption
    <2>2. PICK s \in Seq(Frame) : s = frames[f]
        BY FrameShape
    <2>3. n \in dur[f]..Len(s) /\ n <= Len(s)
        <3>1. n \in dur[f]..Len(s)
            BY <1>7, <1>2, <2>1, <2>2
        <3>2. dur[f] \in Nat
            BY DEF TypeOK
        <3> QED
            BY <3>1, <3>2
    <2>4. SubSeq(s, 1, n) \in Seq(Frame) /\ Len(SubSeq(s, 1, n)) = n
        BY <2>3
    <2>5. \A i \in 1..n : SubSeq(s, 1, n)[i] = s[i]
        BY <2>3
    <2> QED
        BY <2>1, <2>2, <2>3, <2>4, <2>5
<1>8. frames' \in [File -> Seq(Frame)]
    <2>1. \A f \in File : (IF f \in present' THEN SubSeq(frames[f], 1, cut[f]) ELSE frames[f])
                             \in Seq(Frame)
        BY <1>7, FrameShape
    <2> QED
        BY <2>1, <1>2
<1>9. dur' \in [File -> Nat]
    <2>1. \A f \in File : (IF f \in present' THEN cut[f] ELSE dur[f]) \in Nat
        BY <1>7 DEF TypeOK
    <2> QED
        BY <2>1, <1>2
<1>10. hdr' \in [File -> Kind] /\ hdrs' \in [File -> SUBSET Kind]
    <2>1. \A f \in File : /\ (IF f \in present' THEN kind[f] ELSE hdr[f]) \in Kind
                          /\ (IF f \in present' THEN {kind[f]} ELSE hdrs[f]) \in SUBSET Kind
        BY <1>3 DEF TypeOK
    <2> QED
        BY <2>1, <1>3
<1>11. ASSUME NEW f \in present'
       PROVE  \E n \in dur[f]..Len(frames[f]) :
                /\ n \in Nat /\ dur'[f] = n /\ Len(frames'[f]) = n
                /\ \A i \in 1..n : frames'[f][i] = frames[f][i]
                /\ hdr'[f] \in HeadersLeft(f, n) /\ hdrs'[f] = {hdr'[f]}
    <2>0. f \in File
        BY <1>5
    <2>1. frames'[f] = SubSeq(frames[f], 1, cut[f]) /\ dur'[f] = cut[f]
        BY <2>0, <1>2
    <2>2. hdr'[f] = kind[f] /\ hdrs'[f] = {kind[f]} /\ kind[f] \in HeadersLeft(f, cut[f])
        BY <2>0, <1>3
    <2>3. cut[f] \in dur[f]..Len(frames[f]) /\ cut[f] \in Nat
        BY <2>0, <1>7
    <2>4. Len(frames'[f]) = cut[f] /\ \A i \in 1..cut[f] : frames'[f][i] = frames[f][i]
        BY <2>0, <2>1, <1>7
    <2> QED
        BY <2>1, <2>2, <2>3, <2>4, Zenon
<1> QED
    BY <1>4, <1>6, <1>8, <1>9, <1>10, <1>11, Zenon

LEMMA TypeFails ==
    ASSUME TypeOK, Fails PROVE TypeOK'
<1>1. CASE Kill
    <2>1. Forget /\ UNCHANGED <<names, bytes>>
        BY <1>1 DEF Kill
    <2> QED
        BY <2>1, TypeForget DEF names, bytes, TypeOK
<1>2. CASE PowerLoss
    <2>1. Forget /\ UNCHANGED <<old, spare>>
        BY <1>2, Zenon DEF PowerLoss
    <2>2. present' \subseteq File /\ entered' \subseteq File /\ lingers' \subseteq File
        BY <1>2, PowerParts DEF Left, TypeOK
    <2>3. /\ hdr' \in [File -> Kind] /\ hdrs' \in [File -> SUBSET Kind]
          /\ frames' \in [File -> Seq(Frame)] /\ dur' \in [File -> Nat]
        BY <1>2, PowerParts
    <2> QED
        BY <2>1, <2>2, <2>3, TypeForget
<1> QED
    BY <1>1, <1>2 DEF Fails

LEMMA TypeOpenStart ==
    ASSUME TypeOK, OpenStart PROVE TypeOK'
BY DEF OpenStart, TypeOK, names, bytes, store, live, queues, maint, ghost

-----------------------------------------------------------------------------
(* One file's replay.                                                         *)

\* The facts of a frame in numbers.
LEMMA FrameFacts ==
    ASSUME TypeOK, FrameInv, NEW f \in Left
    PROVE  /\ f \in File /\ f \in Nat /\ Len(frames[f]) \in Nat
           /\ \A i \in Frames(f) :
                /\ i \in Nat /\ i >= 1 /\ i <= Len(frames[f])
                /\ SeqAt(f, i) \in Nat /\ SeqAt(f, i) >= 1
                /\ SeqAt(f, i) <= Len(hist)
                /\ frames[f][i].b = hist[SeqAt(f, i)]
                /\ i > 1 /\ SeqAt(f, i) > covered => SeqAt(f, i) = SeqAt(f, i - 1) + 1
                /\ \A j \in Frames(f) : i < j =>
                      /\ SeqAt(f, i) < SeqAt(f, j)
                      /\ SeqAt(f, i) >= covered => SeqAt(f, j) = SeqAt(f, i) + (j - i)
<1>1. f \in File /\ f \in Nat
    BY DEF TypeOK, Left, File
<1>2. Len(frames[f]) \in Nat /\ \A i \in Frames(f) : SeqAt(f, i) \in Seqno
    BY <1>1, FrameShape
<1>3. \A i \in Frames(f) : SeqAt(f, i) \in Nat /\ SeqAt(f, i) >= 1
    BY <1>2, WalAssumption DEF Seqno
<1>4. \A i \in Frames(f) : i \in Nat /\ i >= 1 /\ i <= Len(frames[f])
    BY <1>2 DEF Frames
<1> QED
    BY <1>1, <1>2, <1>3, <1>4 DEF FrameInv

\* Where a file runs on at `from', what it applies is the rest of it.
LEMMA RunsOn ==
    ASSUME TypeOK, FrameInv, OldInv, HdrInv, NEW f \in present, covered <= from,
           NEW k \in Frames(f), SeqAt(f, k) = from
    PROVE  /\ Applied(f) = k..Len(frames[f]) /\ Continuous(f)
           /\ Min(Applied(f)) = k
           /\ Cardinality(Applied(f)) = Len(frames[f]) - k + 1
           /\ \A i \in k..Len(frames[f]) : SeqAt(f, i) = from + (i - k)
<1> DEFINE m == Len(frames[f])
<1>1. Readable(f) = frames[f] /\ f \in Left
    BY ReadsItsOwn DEF Left
<1>2. m \in Nat /\ Frames(f) = 1..m /\ k \in 1..m /\ from \in Nat /\ covered \in Nat
    <2>1. m \in Nat /\ Frames(f) = 1..m
        BY <1>1, FrameFacts DEF Frames
    <2>2. from \in Nat /\ covered \in Nat
        BY WalAssumption DEF TypeOK, Seqno
    <2> QED
        BY <2>1, <2>2
<1>3. DOMAIN frames[f] = 1..m
    BY <1>1, FrameFacts, FrameShape DEF Frames
<1>4. Applied(f) = {i \in 1..m : SeqAt(f, i) >= from}
    BY <1>1, <1>3 DEF Applied, SeqAt
<1> HIDE DEF m
<1>5. ASSUME NEW i \in k..m PROVE SeqAt(f, i) = from + (i - k)
    <2>1. i \in 1..m
        BY <1>2
    <2>2. CASE i = k
        BY <2>2, <1>2
    <2>3. CASE i > k
        <3>1. i \in Frames(f) /\ k \in Frames(f)
            BY <2>1, <1>2
        <3> QED
            BY <3>1, <2>3, <1>1, <1>2, FrameFacts
    <2> QED
        BY <2>2, <2>3, <1>2
<1>6. ASSUME NEW i \in 1..m, SeqAt(f, i) >= from PROVE i \in k..m
    <2> SUFFICES ASSUME i < k PROVE FALSE
        BY <1>2
    <2>1. SeqAt(f, i) < SeqAt(f, k) /\ SeqAt(f, i) \in Nat
        BY <1>1, <1>2, FrameFacts
    <2> QED
        BY <2>1, <1>6, <1>2
<1>7. Applied(f) = k..m
    <2>1. \A i \in k..m : i \in 1..m /\ SeqAt(f, i) >= from
        BY <1>5, <1>2
    <2> QED
        BY <2>1, <1>6, <1>4
<1>8. Min(Applied(f)) = k
    <2>1. k..m \in SUBSET Nat /\ k \in k..m
        BY <1>2
    <2>2. Min(k..m) \in k..m /\ \A y \in k..m : Min(k..m) <= y
        BY <2>1, MinOf, Zenon
    <2> QED
        BY <2>1, <2>2, <1>7, <1>2
<1>9. Cardinality(k..m) = m - k + 1
    BY <1>2, FS_Interval
<1>10. Continuous(f)
    <2> SUFFICES ASSUME NEW i \in Applied(f)
                 PROVE  SeqAt(f, i) = from + Cardinality({j \in Applied(f) : j < i})
        BY <1>1 DEF Continuous, SeqAt
    <2>1. i \in k..m
        BY <1>7
    <2>2. {j \in Applied(f) : j < i} = k..(i - 1)
        BY <1>7, <1>2, <2>1
    <2>3. Cardinality(k..(i - 1)) = i - k
        BY <1>2, <2>1, FS_Interval
    <2> QED
        BY <2>1, <2>2, <2>3, <1>5
<1> QED
    BY <1>5, <1>7, <1>8, <1>9, <1>10 DEF m

\* What replay makes of the next file: the log ends at it, or it runs on.
LEMMA ReplayCases ==
    ASSUME TypeOK, FrameInv, OrderInv, OldInv, HdrInv, AnchorInv, DownInv, ReplayInv,
           phase = "replay", todo # {}, NEW f, f = Min(todo)
    PROVE  /\ f \in todo /\ f \in present /\ f \in Nat /\ \A g \in todo : f <= g
           /\ \/ /\ EndsAt(f) /\ Gap(f) /\ hdr[f] = "loose" /\ ~Has(from)
                 /\ frames[f] # <<>> /\ from < SeqAt(f, 1)
              \/ /\ ~EndsAt(f) /\ Continuous(f)
                 /\ \E c \in Nat :
                      /\ Cardinality(Applied(f)) = c /\ from + c <= Len(hist) + 1
                      /\ \A i \in Frames(f) : SeqAt(f, i) < from + c
                      /\ \A s \in from..(from + c - 1) :
                            /\ \E i \in Frames(f) : SeqAt(f, i) = s
                            /\ BatchAt(f, s) = hist[s]
<1> DEFINE m == Len(frames[f])
<1>1. todo \in SUBSET Nat /\ todo \subseteq present
    BY DEF TypeOK, ReplayInv, File
<1>2. f \in todo /\ f \in present /\ f \in Nat /\ \A g \in todo : f <= g
    BY <1>1, MinOf
<1>3. f \in Left /\ f \in File
    BY <1>2 DEF Left, TypeOK
<1>4. Readable(f) = frames[f]
    BY <1>2, ReadsItsOwn
<1>5. m \in Nat /\ Frames(f) = 1..m /\ DOMAIN frames[f] = 1..m
    BY <1>3, FrameShape DEF Frames
<1>6. /\ from \in Nat /\ covered \in Nat /\ Len(hist) \in Nat
      /\ covered <= from /\ from <= Len(hist) + 1
    BY WalAssumption DEF TypeOK, Seqno, ReplayInv
<1>7. Applied(f) = {i \in 1..m : SeqAt(f, i) >= from}
    BY <1>4, <1>5 DEF Applied, SeqAt
<1>8. \A i \in 1..m : SeqAt(f, i) \in Nat
    BY <1>3, <1>5, FrameFacts
<1>9. CASE Applied(f) = {}
    <2>1. ~EndsAt(f) /\ Continuous(f)
        BY <1>9 DEF EndsAt, Continuous
    <2>2. Cardinality(Applied(f)) = 0
        BY <1>9, FS_EmptySet
    <2>3. \A i \in Frames(f) : SeqAt(f, i) < from + 0
        BY <1>5, <1>6, <1>7, <1>8, <1>9
    <2>4. \A s \in from..(from + 0 - 1) : FALSE
        BY <1>6
    <2>5. 0 \in Nat /\ from + 0 <= Len(hist) + 1
        BY <1>6
    <2>6. \E c \in Nat :
              /\ Cardinality(Applied(f)) = c /\ from + c <= Len(hist) + 1
              /\ \A i \in Frames(f) : SeqAt(f, i) < from + c
              /\ \A s \in from..(from + c - 1) :
                    /\ \E i \in Frames(f) : SeqAt(f, i) = s
                    /\ BatchAt(f, s) = hist[s]
        BY <2>2, <2>3, <2>4, <2>5, Zenon
    <2> QED
        BY <1>2, <2>1, <2>6
<1>10. CASE Applied(f) # {}
    <2>1. PICK k \in 1..m : k = Min(Applied(f))
        <3>1. Applied(f) \in SUBSET Nat /\ Applied(f) \subseteq 1..m
            BY <1>7, <1>5
        <3>2. Min(Applied(f)) \in Applied(f)
            BY <3>1, <1>10, MinOf, Zenon
        <3> QED
            BY <3>1, <3>2
    <2>2. SeqAt(f, k) >= from /\ \A i \in 1..m : SeqAt(f, i) >= from => k <= i
        <3>1. Applied(f) \in SUBSET Nat
            BY <1>7, <1>5
        <3>2. k \in Applied(f) /\ \A i \in Applied(f) : k <= i
            BY <2>1, <3>1, <1>10, MinOf, Zenon
        <3> QED
            BY <3>2, <1>7
    <2>3. CASE SeqAt(f, k) = from
        <3>1. /\ Applied(f) = k..m /\ Continuous(f)
              /\ Cardinality(Applied(f)) = m - k + 1
              /\ \A i \in k..m : SeqAt(f, i) = from + (i - k)
            BY <2>3, <1>2, <1>5, <1>6, RunsOn
        <3>2. ~EndsAt(f)
            BY <2>1, <2>3, <1>4 DEF EndsAt, SeqAt
        <3>3. PICK c \in Nat : c = m - k + 1
            <4>1. m \in Nat /\ k \in 1..m
                BY <1>5, <2>1
            <4> HIDE DEF m
            <4> QED
                BY <4>1
        <3>4. SeqAt(f, m) = from + c - 1 /\ m \in 1..m /\ SeqAt(f, m) <= Len(hist)
            BY <3>1, <3>3, <1>3, <1>5, <1>6, FrameFacts
        <3>5. \A i \in Frames(f) : SeqAt(f, i) < from + c
            <4> TAKE i \in Frames(f)
            <4>1. i = m \/ i < m
                BY <1>5
            <4>2. i < m => SeqAt(f, i) < SeqAt(f, m)
                BY <1>3, <1>5, <3>4, FrameFacts
            <4>3. SeqAt(f, i) \in Nat
                BY <1>5, <1>8
            <4> QED
                BY <4>1, <4>2, <4>3, <3>4, <1>6, <3>3
        <3>6. ASSUME NEW s \in from..(from + c - 1)
              PROVE  /\ \E i \in Frames(f) : SeqAt(f, i) = s
                     /\ BatchAt(f, s) = hist[s]
            <4>1. PICK i \in k..m : i = k + (s - from)
                BY <3>3, <1>5, <1>6
            <4>2. SeqAt(f, i) = s /\ i \in Frames(f)
                BY <4>1, <3>1, <1>5, <1>6
            <4>3. \E j \in Applied(f) : frames[f][j].seq = s
                BY <4>1, <4>2, <3>1 DEF SeqAt
            <4>4. PICK j \in Applied(f) :
                    j = (CHOOSE z \in Applied(f) : frames[f][z].seq = s) /\ frames[f][j].seq = s
                BY <4>3, Zenon
            <4>5. j \in Frames(f) /\ SeqAt(f, j) = s
                BY <4>4, <1>7, <1>5 DEF SeqAt
            <4>6. frames[f][j].b = hist[s]
                BY <4>5, <1>3, FrameFacts
            <4>7. BatchAt(f, s) = frames[f][j].b
                BY <4>4, <1>4 DEF BatchAt
            <4> QED
                BY <4>2, <4>6, <4>7
        <3>7. Cardinality(Applied(f)) = c /\ from + c <= Len(hist) + 1
            BY <3>1, <3>3, <3>4, <1>6
        <3> QED
            BY <1>2, <3>1, <3>2, <3>5, <3>6, <3>7, Zenon
    <2>4. CASE SeqAt(f, k) # from
        <3>1. SeqAt(f, k) > from
            BY <2>2, <2>4, <1>6, <1>8
        <3>2. k = 1
            <4> SUFFICES ASSUME k > 1 PROVE FALSE
                BY <1>5
            <4>1. k - 1 \in 1..m /\ SeqAt(f, k) > covered
                BY <3>1, <1>5, <1>6, <1>8
            <4>2. SeqAt(f, k) = SeqAt(f, k - 1) + 1
                BY <4>1, <1>3, <1>5, FrameFacts
            <4>3. SeqAt(f, k - 1) >= from
                BY <4>1, <4>2, <3>1, <1>6, <1>8
            <4>4. k <= k - 1
                BY <4>1, <4>3, <2>2
            <4> QED
                BY <4>4, <1>5
        <3>3. frames[f] # <<>> /\ 1 \in Frames(f) /\ from < SeqAt(f, 1)
            BY <3>1, <3>2, <1>3, <1>5, <1>6, <1>8, FrameShape
        <3>4. ~(\E e \in present : Ended(e))
            BY DEF Ended
        <3>5. \A g \in present \ todo : \A i \in Frames(g) : SeqAt(g, i) < from
            BY <3>4 DEF ReplayInv
        <3>6. ~Has(from)
            <4> SUFFICES ASSUME NEW g \in present, NEW i \in Frames(g), SeqAt(g, i) = from
                         PROVE  FALSE
                BY DEF Has
            <4>1. g \in todo
                BY <3>5, <1>6
            <4>2. g \in Left /\ g \in Nat
                BY <4>1, <1>1 DEF Left
            <4>3. CASE g = f
                <5>1. i = 1 \/ SeqAt(f, 1) < SeqAt(f, i)
                    BY <4>3, <1>3, <1>5, <3>3, FrameFacts
                <5> QED
                    BY <5>1, <4>3, <3>3, <1>5, <1>6, <1>8
            <4>4. CASE f < g
                <5>1. SeqAt(f, 1) < SeqAt(g, i)
                    BY <4>2, <4>4, <1>3, <3>3 DEF OrderInv
                <5> QED
                    BY <5>1, <3>3, <1>5, <1>6, <1>8
            <4> QED
                BY <4>1, <4>2, <4>3, <4>4, <1>2
        <3>7. from \in covered..(SeqAt(f, 1) - 1)
            BY <3>3, <1>5, <1>6, <1>8
        <3>8. Gap(f)
            BY <3>3, <3>6, <3>7, <1>2 DEF Gap
        <3>9. hdr[f] = "loose"
            <4>1. PICK e \in present : e <= f /\ Gap(e) /\ hdr[e] = "loose"
                BY <3>8, <1>2 DEF DownInv
            <4>2. e \in Nat /\ e \in Left
                BY DEF TypeOK, File, Left
            <4>3. CASE e < f
                <5>1. e \notin todo
                    BY <4>2, <4>3, <1>2
                <5>2. PICK s \in covered..(SeqAt(e, 1) - 1) : ~Has(s)
                    BY <4>1 DEF Gap
                <5>3. 1 \in Frames(e)
                    BY <4>1, <4>2, FrameFacts, FrameShape DEF Gap, Frames
                <5>4. SeqAt(e, 1) < from /\ SeqAt(e, 1) \in Nat
                    BY <5>1, <5>3, <3>5, <4>2, FrameFacts
                <5>5. s \in covered..(from - 1)
                    BY <5>4, <1>6
                <5> QED
                    BY <5>2, <5>5 DEF ReplayInv
            <4> QED
                BY <4>1, <4>2, <4>3, <1>2
        <3>10. todo # present
            <4>1. PICK a \in present : Begins(a, covered)
                BY DEF AnchorInv
            <4>2. a \in Nat
                BY DEF TypeOK, File
            <4>3. CASE f < a
                <5>1. SeqAt(f, 1) < covered
                    BY <4>1, <4>3, <1>3, <3>3 DEF Begins
                <5> QED
                    BY <5>1, <3>3, <1>5, <1>6, <1>8
            <4>4. CASE f = a
                <5>1. SeqAt(f, 1) <= covered
                    BY <4>1, <4>4, <3>3 DEF Begins
                <5> QED
                    BY <5>1, <3>3, <1>5, <1>6, <1>8
            <4>5. CASE a < f
                BY <4>2, <4>5, <1>2
            <4> QED
                BY <4>2, <4>3, <4>4, <4>5, <1>2
        <3>11. EndsAt(f)
            BY <3>9, <3>10, <1>10, <2>1, <2>4, <1>4 DEF EndsAt, SeqAt
        <3> QED
            BY <1>2, <3>3, <3>6, <3>8, <3>9, <3>11
    <2> QED
        BY <2>3, <2>4
<1> QED
    BY <1>9, <1>10

-----------------------------------------------------------------------------
(* What a step that writes no frame keeps.                                    *)

LEMMA ShrinkKeeps ==
    ASSUME TypeOK, FrameInv, OrderInv, OldInv, UNCHANGED <<frames, old, hist>>,
           Left' \subseteq Left, covered' \in Nat, covered' >= covered
    PROVE  FrameInv' /\ OrderInv' /\ OldInv'
<1>0. covered \in Nat /\ covered' \in Nat
    BY WalAssumption DEF TypeOK, Seqno
<1>1. \A f, i : SeqAt(f, i)' = SeqAt(f, i) /\ Frames(f)' = Frames(f)
    BY DEF SeqAt, Frames
<1>2. FrameInv'
    <2> SUFFICES ASSUME NEW f \in Left', NEW i \in Frames(f)'
        PROVE /\ frames'[f][i].life = f
              /\ SeqAt(f, i)' <= Len(hist') /\ frames'[f][i].b = hist'[SeqAt(f, i)']
              /\ i > 1 /\ SeqAt(f, i)' > covered' => SeqAt(f, i)' = SeqAt(f, i - 1)' + 1
              /\ \A j \in Frames(f)' : i < j =>
                  /\ SeqAt(f, i)' < SeqAt(f, j)'
                  /\ SeqAt(f, i)' >= covered' => SeqAt(f, j)' = SeqAt(f, i)' + (j - i)
        BY Zenon DEF FrameInv
    <2>1. f \in Left /\ i \in Frames(f)
        BY <1>1
    <2>2. SeqAt(f, i) \in Nat
        BY <2>1, FrameFacts
    <2>3. /\ frames[f][i].life = f
          /\ SeqAt(f, i) <= Len(hist) /\ frames[f][i].b = hist[SeqAt(f, i)]
          /\ i > 1 /\ SeqAt(f, i) > covered => SeqAt(f, i) = SeqAt(f, i - 1) + 1
          /\ \A j \in Frames(f) : i < j =>
              /\ SeqAt(f, i) < SeqAt(f, j)
              /\ SeqAt(f, i) >= covered => SeqAt(f, j) = SeqAt(f, i) + (j - i)
        BY <2>1, Zenon DEF FrameInv
    <2>4. SeqAt(f, i) > covered' => SeqAt(f, i) > covered
        BY <2>2, <1>0
    <2>5. SeqAt(f, i) >= covered' => SeqAt(f, i) >= covered
        BY <2>2, <1>0
    <2> QED
        BY <1>1, <2>3, <2>4, <2>5
<1>3. OrderInv' /\ OldInv'
    BY <1>1 DEF OrderInv, OldInv
<1> QED
    BY <1>2, <1>3

LEMMA BeginsKeeps ==
    ASSUME NEW w, NEW s, Begins(w, s), UNCHANGED frames, Left' \subseteq Left, w \in present'
    PROVE  Begins(w, s)'
BY DEF Begins, Frames, SeqAt

LEMMA KeptGrows ==
    ASSUME TypeOK, present \cap entered \subseteq present' \cap entered',
           UNCHANGED frames, covered' \in Nat, covered' >= covered,
           \A f \in present \cap entered : dur'[f] \in Nat /\ dur'[f] >= dur[f],
           NEW s \in Nat, Kept(s)
    PROVE  Kept(s)'
<1>0. covered \in Nat
    BY WalAssumption DEF TypeOK, Seqno
<1>1. CASE s < covered
    <2>1. s < covered'
        BY <1>0, <1>1
    <2> QED
        BY <2>1 DEF Kept
<1>2. CASE \E f \in present \cap entered : \E i \in 1..dur[f] : frames[f][i].seq = s
    <2>0. PICK f \in present \cap entered : \E i \in 1..dur[f] : frames[f][i].seq = s
        BY <1>2
    <2>1. PICK i \in 1..dur[f] : frames[f][i].seq = s
        BY <2>0
    <2>2. f \in File /\ dur[f] \in Nat
        BY DEF TypeOK
    <2>3. dur'[f] \in Nat /\ dur'[f] >= dur[f]
        BY <2>1
    <2>4. i \in 1..dur'[f]
        BY <2>2, <2>3
    <2>5. f \in present' \cap entered' /\ frames'[f][i].seq = s
        BY <2>1
    <2> QED
        BY <2>4, <2>5, Zenon DEF Kept
<1> QED
    BY <1>1, <1>2 DEF Kept

\* Where the store stays open and neither the files nor the history change.
LEMMA StillUp ==
    ASSUME LogInv, phase = "up", phase' = "up",
           UNCHANGED <<present, frames, old, spare, hist, covered, next, due>>,
           lingers' \subseteq lingers, present \cap entered \subseteq entered'
    PROVE  /\ FrameInv' /\ OrderInv' /\ OldInv' /\ AnchorInv' /\ RestInv'
           /\ DownInv' /\ ReplayInv' /\ NeverRefused' /\ KillInv'
<1>1. Left' \subseteq Left /\ covered \in Nat /\ covered' >= covered
    BY WalAssumption DEF Left, LogInv, TypeOK, Seqno
<1>2. FrameInv' /\ OrderInv' /\ OldInv'
    BY <1>1, ShrinkKeeps DEF LogInv
<1>3. RestInv' /\ DownInv' /\ ReplayInv' /\ NeverRefused'
    BY DEF RestInv, DownInv, ReplayInv, NeverRefused
<1>4. KillInv'
    BY DEF LogInv, KillInv
<1>5. AnchorInv'
    <2>1. PICK a \in present :
            /\ Begins(a, covered) /\ (Power => a \in entered) /\ LivesBelow(a)
            /\ \A f \in due : f < a
            /\ (\A f \in lingers : f < a) \/ (\E e \in present : Ended(e))
        BY Zenon DEF LogInv, AnchorInv
    <2>2. \A f \in lingers : f < a
        BY <2>1 DEF Ended
    <2>3. Begins(a, covered)'
        BY <2>1, <1>1, BeginsKeeps DEF Begins, Frames, SeqAt
    <2>4. LivesBelow(a)' /\ \A f \in due' : f < a
        BY <2>1 DEF LivesBelow
    <2>5. (Power => a \in entered') /\ \A f \in lingers' : f < a
        BY <2>1, <2>2
    <2>6. a \in present'
        OBVIOUS
    <2> QED
        BY <2>3, <2>4, <2>5, <2>6, Zenon DEF AnchorInv, Power
<1> QED
    BY <1>2, <1>3, <1>4, <1>5

\* And the seals and the live file are as they were.
LEMMA SealsStand ==
    ASSUME SealInv, UNCHANGED <<sealing, covered, hist, due, retiring, frames, present>>,
           lingers' \subseteq lingers
    PROVE  SealInv'
<1> SUFFICES ASSUME NEW i \in DOMAIN sealing
    PROVE /\ covered' <= sealing'[i].end /\ sealing'[i].end <= Len(hist') + 1
          /\ \A j \in DOMAIN sealing' : j < i => sealing'[j].end <= sealing'[i].end
          /\ \E w \in present' :
              /\ Begins(w, sealing[i].end)'
              /\ \A f \in due' \cup retiring' : f < w
              /\ \A j \in DOMAIN sealing' : j <= i => \A f \in sealing'[j].wals : f < w
    BY DEF SealInv
<1>1. /\ covered <= sealing[i].end /\ sealing[i].end <= Len(hist) + 1
      /\ \A j \in DOMAIN sealing : j < i => sealing[j].end <= sealing[i].end
    BY DEF SealInv
<1>2. PICK w \in present :
              /\ Begins(w, sealing[i].end)
              /\ \A f \in due \cup retiring : f < w
              /\ \A j \in DOMAIN sealing : j <= i => \A f \in sealing[j].wals : f < w
    BY DEF SealInv
<1>3. PICK s : s = sealing[i].end
    OBVIOUS
<1>4. Left' \subseteq Left /\ w \in present'
    BY DEF Left
<1>5. Begins(w, s)'
    BY <1>2, <1>3, <1>4, BeginsKeeps
<1>6. Begins(w, sealing[i].end)'
    BY <1>3, <1>5 DEF Begins
<1> QED
    BY <1>1, <1>2, <1>4, <1>6

LEMMA LiveStands ==
    ASSUME UpInv, phase = "up", UNCHANGED <<sealing, covered, hist, frames, present,
                                            wid, seq, closed, retiring>>,
           hdr'[wid] # "none", synced' <= Len(frames[wid])
    PROVE  UpInv'
<1>1. \A s : Has(s) => Has(s)'
    BY DEF Has, Frames, SeqAt
<1> QED
    BY <1>1 DEF UpInv

LEMMA QueueStands ==
    ASSUME QueueInv, UNCHANGED <<closed, retiring, due, sealing>>, present \subseteq present'
    PROVE  QueueInv'
BY DEF QueueInv

\* The device holds what it did, where a step only makes names durable.
LEMMA DurStands ==
    ASSUME LogInv, phase = "up",
           UNCHANGED <<phase, present, frames, dur, hdrs, wid, synced, looseWals, seq,
                       unsynced, covered>>,
           present \cap entered \subseteq entered',
           Power /\ ~dirUnsynced' => present \subseteq entered'
    PROVE  DurInv'
<1> SUFFICES ASSUME Power
    PROVE  /\ \A f \in present : dur[f] <= Len(frames[f])
           /\ \A f \in present \ {wid} : f \notin looseWals => dur[f] = Len(frames[f])
           /\ synced <= dur[wid]
           /\ ~dirUnsynced' => present \subseteq entered'
           /\ \A f \in present : "chained" \in hdrs[f] =>
                  \A g \in present : g < f => g \in entered' /\ dur[g] = Len(frames[g])
           /\ \A s \in 1..(seq - 1) : s + unsynced < seq => Kept(s)'
    BY DEF DurInv, WholeFile
<1>1. DurInv /\ TypeOK
    BY DEF LogInv
<1>2. /\ \A f \in present : dur[f] <= Len(frames[f])
      /\ \A f \in present \ {wid} : f \notin looseWals => dur[f] = Len(frames[f])
      /\ synced <= dur[wid]
    BY <1>1 DEF DurInv
<1>3. \A f \in present : "chained" \in hdrs[f] =>
          \A g \in present : g < f => g \in entered /\ dur[g] = Len(frames[g])
    BY <1>1 DEF DurInv, WholeFile
<1>4. ASSUME NEW s \in 1..(seq - 1), s + unsynced < seq PROVE Kept(s)'
    <2>1. Kept(s)
        BY <1>1, <1>4 DEF DurInv
    <2>2. s \in Nat /\ covered' \in Nat /\ covered' >= covered
        BY <1>1, WalAssumption DEF TypeOK, Seqno
    <2>3. \A f \in present \cap entered : dur'[f] \in Nat /\ dur'[f] >= dur[f]
        BY <1>1 DEF TypeOK
    <2> QED
        BY <2>1, <2>2, <2>3, <1>1, KeptGrows
<1> QED
    BY <1>2, <1>3, <1>4

\* Once nothing is owed, everything is kept.
LEMMA AllKept ==
    ASSUME TypeOK, FrameInv, UpInv, phase = "up",
           \A f \in present : f \in entered /\ dur[f] = Len(frames[f]),
           NEW s \in 1..(seq - 1)
    PROVE  Kept(s)
<1>0. /\ covered \in Nat /\ seq \in Nat /\ s \in Nat /\ seq = Len(hist) + 1
      /\ Len(hist) \in Nat
    <2>1. covered \in Nat /\ seq \in Nat /\ s \in Nat
        BY WalAssumption DEF TypeOK, Seqno
    <2>2. hist \in Seq(Batch) /\ seq = Len(hist) + 1
        BY Zenon DEF TypeOK, UpInv
    <2> QED
        BY ONLY <2>1, <2>2
<1>1. CASE s < covered
    BY <1>1 DEF Kept
<1>2. CASE s >= covered
    <2>1. s \in covered..Len(hist)
        BY <1>0, <1>2
    <2>2. Has(s)
        BY <2>1 DEF UpInv
    <2>3. PICK f \in present : \E i \in Frames(f) : SeqAt(f, i) = s
        BY <2>2 DEF Has
    <2> QED
        BY <2>3 DEF Kept, Frames, SeqAt
<1> QED
    BY <1>0, <1>1, <1>2

LEMMA StepSync ==
    ASSUME LogInv, Sync PROVE LogInv'
<1> USE DEF LogInv
<1>0. phase = "up" /\ pc = "idle"
    BY DEF Sync
<1>1. UNCHANGED <<names, bytes, store, phase, live, closed, looseWals, dirUnsynced, maint,
                  replay, hist, next, fails>>
    BY DEF Sync
<1>2. UNCHANGED <<present, entered, lingers, spare, hdr, hdrs, frames, dur, old, covered,
                  segLog, wid, seq, synced, loose, sealing, retiring, due>>
    BY <1>1 DEF names, bytes, store, live, maint
<1>3. /\ FrameInv' /\ OrderInv' /\ OldInv' /\ AnchorInv' /\ RestInv'
      /\ DownInv' /\ ReplayInv' /\ NeverRefused' /\ KillInv'
    BY <1>0, <1>1, <1>2, StillUp
<1>4. TypeOK' /\ SealInv' /\ QueueInv'
    BY <1>1, <1>2, TypeSync, SealsStand, QueueStands
<1>5. UpInv' /\ HdrInv'
    BY <1>0, <1>1, <1>2, LiveStands DEF UpInv, HdrInv
<1>6. \/ pc' = "dir" /\ UNCHANGED <<unsynced, acked>>
      \/ ~SyncOwed /\ pc' = "idle" /\ unsynced' = 0 /\ acked' = Len(hist)
    BY DEF Sync
<1>7. HistInv' /\ PcInv'
    <2>1. Len(hist) \in Nat
        BY DEF TypeOK
    <2> QED
        BY <1>1, <1>2, <1>6, <2>1 DEF HistInv, PcInv
<1>8. DurInv'
    <2>1. CASE UNCHANGED unsynced
        BY <2>1, <1>0, <1>1, <1>2, DurStands DEF DurInv
    <2>2. CASE ~SyncOwed
        <3> SUFFICES ASSUME Power PROVE DurInv'
            BY DEF DurInv
        <3>1. ~FramesUnsynced /\ looseWals = {} /\ ~dirUnsynced
            BY <2>2 DEF SyncOwed
        <3>2. wid \in File /\ Len(frames[wid]) \in Nat /\ dur[wid] \in Nat /\ synced \in Nat
            BY FrameShape DEF TypeOK
        <3>3. /\ \A f \in present : dur[f] <= Len(frames[f])
              /\ \A f \in present \ {wid} : dur[f] = Len(frames[f])
              /\ synced <= dur[wid] /\ present \subseteq entered /\ wid \in present
            BY <1>0, <3>1 DEF DurInv, UpInv
        <3>4. dur[wid] = Len(frames[wid])
            BY <3>1, <3>2, <3>3 DEF FramesUnsynced
        <3>5. \A f \in present : f \in entered /\ dur[f] = Len(frames[f])
            BY <3>3, <3>4
        <3>6. \A s \in 1..(seq - 1) : Kept(s)
            BY <1>0, <3>5, AllKept
        <3>7. \A s : Kept(s)' = Kept(s)
            BY <1>2 DEF Kept
        <3>8. \A f \in present : "chained" \in hdrs[f] =>
                  \A g \in present : g < f => WholeFile(g)
            BY <3>5 DEF WholeFile
        <3> QED
            BY <1>0, <1>1, <1>2, <3>3, <3>5, <3>6, <3>7 DEF DurInv, WholeFile
    <2> QED
        BY <1>6, <2>1, <2>2
<1> QED
    BY <1>3, <1>4, <1>5, <1>7, <1>8

\* The steps of a call that touch no file: the directory's barriers, a sync's
\* failure, a rotation not made, the beginning of a seal.
LEMMA StepSmall ==
    ASSUME LogInv, WalDirBarrier \/ SyncFails \/ NoRotation \/ NewDirBarrier \/ Seals
    PROVE  LogInv'
<1> USE DEF LogInv
<1>0. phase = "up" /\ phase' = "up"
    BY DEF WalDirBarrier, SyncFails, NoRotation, NewDirBarrier, Seals
<1>1. UNCHANGED <<present, spare, hdr, hdrs, frames, dur, old, covered, segLog, wid, seq,
                  synced, loose, closed, looseWals, unsynced, sealing, retiring, due, hist,
                  acked, next>>
    BY DEF WalDirBarrier, SyncFails, NoRotation, NewDirBarrier, Seals, names, bytes, store,
           live, queues, maint, ghost
<1>2. /\ \/ UNCHANGED <<entered, lingers>>
         \/ entered' = present /\ lingers' = {}
      /\ \/ UNCHANGED <<entered, dirUnsynced>>
         \/ ~dirUnsynced /\ UNCHANGED entered
         \/ entered' = present
    BY DEF WalDirBarrier, SyncFails, NoRotation, NewDirBarrier, Seals, names, queues, DirSynced
<1>3. lingers' \subseteq lingers /\ present \cap entered \subseteq entered'
    BY <1>2
<1>4. Power /\ ~dirUnsynced' => present \subseteq entered'
    BY <1>0, <1>2 DEF DurInv
<1>5. /\ FrameInv' /\ OrderInv' /\ OldInv' /\ AnchorInv' /\ RestInv'
      /\ DownInv' /\ ReplayInv' /\ NeverRefused' /\ KillInv'
    BY <1>0, <1>1, <1>3, StillUp
<1>6. TypeOK' /\ SealInv' /\ QueueInv' /\ DurInv'
    BY <1>0, <1>1, <1>3, <1>4, TypeSmall, SealsStand, QueueStands, DurStands
<1>7. UpInv' /\ HdrInv' /\ HistInv'
    BY <1>0, <1>1, LiveStands DEF UpInv, HdrInv, HistInv
<1>8. PcInv'
    <2>1. \/ pc' = "loose" /\ dirUnsynced' = FALSE
          \/ pc' \in {"idle", "hand", "dir"}
        BY DEF WalDirBarrier, SyncFails, NoRotation, NewDirBarrier, Seals
    <2> QED
        BY <2>1 DEF PcInv
<1> QED
    BY <1>5, <1>6, <1>7, <1>8

\* A file a loose rotation closed reaches the device.
LEMMA StepSyncLoose ==
    ASSUME LogInv, SyncLoose PROVE LogInv'
<1> USE DEF LogInv
<1>0. phase = "up" /\ phase' = "up" /\ pc = "loose" /\ pc' = "loose" /\ looseWals # {}
    BY DEF SyncLoose, call
<1>1. UNCHANGED <<present, entered, spare, hdr, frames, old, covered, segLog, wid, seq,
                  synced, loose, closed, unsynced, dirUnsynced, sealing, retiring, due, hist,
                  acked, next>>
    BY DEF SyncLoose, store, live, maint, ghost
<1>2. PICK f \in File : f = Min(looseWals) /\ f \in looseWals
    <2>1. looseWals \in SUBSET Nat
        BY DEF TypeOK, File
    <2> QED
        BY <2>1, <1>0, MinOf DEF TypeOK
<1>3. /\ \/ /\ f \in present
            /\ dur' = [dur EXCEPT ![f] = Len(frames[f])]
            /\ hdrs' = [hdrs EXCEPT ![f] = {hdr[f]}]
            /\ lingers' = {}
         \/ f \notin present /\ UNCHANGED <<dur, hdrs, lingers>>
      /\ looseWals' = looseWals \ {f}
    BY <1>2 DEF SyncLoose, UnlinksReached
<1>p. \A g \in File : /\ dur'[g] = dur[g] \/ dur'[g] = Len(frames[g])
                      /\ g = f /\ f \in present => dur'[g] = Len(frames[g])
                      /\ hdrs'[g] = hdrs[g] \/ hdrs'[g] = {hdr[g]}
    <2>1. dur \in [File -> Nat] /\ hdrs \in [File -> SUBSET Kind]
        BY Zenon DEF TypeOK
    <2> QED
        BY ONLY <2>1, <1>2, <1>3
<1>4. lingers' \subseteq lingers
    BY <1>3
<1>5. /\ FrameInv' /\ OrderInv' /\ OldInv' /\ AnchorInv' /\ RestInv'
      /\ DownInv' /\ ReplayInv' /\ NeverRefused' /\ KillInv'
    BY <1>0, <1>1, <1>4, StillUp
<1>6. TypeOK' /\ SealInv' /\ QueueInv'
    BY <1>1, <1>4, TypeSyncLoose, SealsStand, QueueStands
<1>7. UpInv' /\ HistInv' /\ PcInv'
    BY <1>0, <1>1, LiveStands DEF UpInv, HistInv, PcInv
<1>8. HdrInv'
    <2>1. \A g \in present : hdr[g] \in hdrs'[g]
        <3>1. \A g \in present : g \in File /\ hdr[g] \in hdrs[g]
            BY DEF HdrInv, TypeOK
        <3> QED
            BY ONLY <3>1, <1>p
    <2> QED
        BY <2>1, <1>1 DEF HdrInv
<1>9. DurInv'
    <2> SUFFICES ASSUME Power PROVE DurInv'
        BY DEF DurInv
    <2>1. \A g \in File : dur[g] \in Nat /\ dur'[g] \in Nat /\ Len(frames[g]) \in Nat
        BY <1>6, FrameShape DEF TypeOK
    <2>2. \A g \in present : g \in File
        BY DEF TypeOK
    <2>3. \A g \in present : dur[g] <= Len(frames[g])
        BY DEF DurInv
    <2>4. \A g \in present : /\ dur'[g] = dur[g] \/ dur'[g] = Len(frames[g])
                             /\ g = f => dur'[g] = Len(frames[g])
                             /\ hdrs'[g] \subseteq hdrs[g]
        <3>1. \A g \in present : hdr[g] \in hdrs[g]
            BY DEF HdrInv
        <3> QED
            BY ONLY <3>1, <2>2, <1>p
    <2>5. \A g \in present : /\ dur'[g] >= dur[g] /\ dur'[g] <= Len(frames[g])
                             /\ dur[g] = Len(frames[g]) => dur'[g] = Len(frames[g])
        BY <2>1, <2>2, <2>3, <2>4
    <2>6. ASSUME NEW s \in 1..(seq - 1), s + unsynced < seq PROVE Kept(s)'
        <3>1. Kept(s)
            BY <1>0, <2>6 DEF DurInv
        <3>2. s \in Nat /\ covered' \in Nat /\ covered' >= covered
            BY <1>1, WalAssumption DEF TypeOK, Seqno
        <3>3. \A g \in present \cap entered : dur'[g] \in Nat /\ dur'[g] >= dur[g]
            BY <2>1, <2>2, <2>5
        <3> QED
            BY <1>1, <3>1, <3>2, <3>3, KeptGrows
    <2>7. \A g \in present \ {wid} : g \notin looseWals' => dur'[g] = Len(frames[g])
        BY <1>0, <1>3, <2>4, <2>5 DEF DurInv
    <2>8. synced <= dur'[wid]
        <3>1. wid \in present /\ synced <= dur[wid] /\ synced \in Nat
            BY <1>0 DEF UpInv, DurInv, TypeOK
        <3> QED
            BY <3>1, <2>1, <2>2, <2>5
    <2>9. ASSUME NEW g \in present, "chained" \in hdrs'[g], NEW h \in present, h < g
          PROVE  h \in entered /\ dur'[h] = Len(frames[h])
        BY <1>0, <2>4, <2>5, <2>9 DEF DurInv, WholeFile
    <2> QED
        BY <1>0, <1>1, <2>5, <2>6, <2>7, <2>8, <2>9 DEF DurInv, WholeFile
<1> QED
    BY <1>5, <1>6, <1>7, <1>8, <1>9

\* Wal::chain: by now every file before the live one is whole on the device.
LEMMA StepChain ==
    ASSUME LogInv, Chain PROVE LogInv'
<1> USE DEF LogInv
<1>0. phase = "up" /\ phase' = "up" /\ pc = "loose" /\ pc' = "live" /\ looseWals = {}
    BY DEF Chain
<1>1. UNCHANGED <<present, entered, lingers, spare, frames, dur, old, covered, segLog, wid,
                  seq, synced, closed, looseWals, unsynced, dirUnsynced, sealing, retiring,
                  due, hist, acked, next>>
    BY DEF Chain, names, store, queues, maint, ghost
<1>2. \/ /\ hdr' = [hdr EXCEPT ![wid] = "chained"]
         /\ hdrs' = [hdrs EXCEPT ![wid] = @ \cup {"chained"}]
      \/ UNCHANGED <<hdr, hdrs>>
    BY DEF Chain
<1>3. wid \in present /\ wid \in File /\ hdr[wid] # "none" /\ \A g \in present : g <= wid
    BY <1>0 DEF UpInv, TypeOK
<1>4. \A f \in present : f \in File /\ f \in Nat
    BY DEF TypeOK, File
<1>5. \A f \in present : /\ f # wid => hdr'[f] = hdr[f] /\ hdrs'[f] = hdrs[f]
                         /\ hdr[f] = "none" <=> hdr'[f] = "none"
                         /\ hdr'[f] \in hdrs'[f]
    <2>1. \A f \in present : hdr[f] \in hdrs[f]
        BY DEF HdrInv
    <2>2. CASE UNCHANGED <<hdr, hdrs>>
        BY <2>1, <2>2
    <2>3. CASE /\ hdr' = [hdr EXCEPT ![wid] = "chained"]
               /\ hdrs' = [hdrs EXCEPT ![wid] = @ \cup {"chained"}]
        BY <2>1, <2>3, <1>3, <1>4 DEF TypeOK
    <2> QED
        BY <1>2, <2>2, <2>3
<1>6. /\ FrameInv' /\ OrderInv' /\ OldInv' /\ AnchorInv' /\ RestInv'
      /\ DownInv' /\ ReplayInv' /\ NeverRefused' /\ KillInv'
    BY <1>0, <1>1, StillUp
<1>7. TypeOK' /\ SealInv' /\ QueueInv'
    BY <1>1, TypeChain, SealsStand, QueueStands
<1>8. UpInv' /\ HistInv'
    BY <1>0, <1>1, <1>3, <1>5, LiveStands DEF UpInv, HistInv
<1>9. HdrInv'
    BY <1>1, <1>5 DEF HdrInv
<1>10. PcInv'
    BY <1>0, <1>1 DEF PcInv
<1>11. DurInv'
    <2> SUFFICES ASSUME Power PROVE DurInv'
        BY DEF DurInv
    <2>1. /\ \A f \in present : dur[f] <= Len(frames[f])
          /\ \A f \in present \ {wid} : dur[f] = Len(frames[f])
          /\ synced <= dur[wid] /\ present \subseteq entered
          /\ \A s \in 1..(seq - 1) : s + unsynced < seq => Kept(s)
        BY <1>0 DEF DurInv, PcInv
    <2>2. ASSUME NEW f \in present, NEW g \in present, g < f PROVE WholeFile(g)
        <3>1. g # wid
            BY <1>3, <1>4, <2>2
        <3> QED
            BY <3>1, <2>1 DEF WholeFile
    <2>3. \A s : Kept(s)' = Kept(s)
        BY <1>1 DEF Kept
    <2>4. \A g : WholeFile(g)' = WholeFile(g)
        BY <1>1 DEF WholeFile
    <2> QED
        BY <1>0, <1>1, <2>1, <2>2, <2>3, <2>4 DEF DurInv
<1> QED
    BY <1>6, <1>7, <1>8, <1>9, <1>10, <1>11

\* The last barrier of a sync: all is kept, and may be promised.
LEMMA StepSyncLive ==
    ASSUME LogInv, SyncLive PROVE LogInv'
<1> USE DEF LogInv
<1>0. phase = "up" /\ phase' = "up" /\ pc = "live" /\ pc' \in {"idle", "rotate"}
    BY DEF SyncLive
<1>1. UNCHANGED <<present, entered, spare, hdr, frames, old, covered, segLog, wid,
                  seq, closed, looseWals, dirUnsynced, sealing, retiring,
                  due, hist, next>>
    BY DEF SyncLive, store, maint
<1>2. /\ dur' = [dur EXCEPT ![wid] = Len(frames[wid])]
      /\ hdrs' = [hdrs EXCEPT ![wid] = {hdr[wid]}]
      /\ lingers' = {} /\ synced' = Len(frames[wid]) /\ unsynced' = 0 /\ acked' = Len(hist)
    BY DEF SyncLive, UnlinksReached
<1>3. wid \in present /\ wid \in File /\ hdr[wid] # "none" /\ Len(frames[wid]) \in Nat
    BY <1>0, FrameShape DEF UpInv, TypeOK
<1>4. \A f \in present : f \in File
    BY DEF TypeOK
<1>5. \A f \in present : /\ f # wid => dur'[f] = dur[f] /\ hdrs'[f] = hdrs[f]
                         /\ f = wid => dur'[f] = Len(frames[f]) /\ hdrs'[f] = {hdr[f]}
    BY <1>2, <1>3, <1>4 DEF TypeOK
<1>6. /\ FrameInv' /\ OrderInv' /\ OldInv' /\ AnchorInv' /\ RestInv'
      /\ DownInv' /\ ReplayInv' /\ NeverRefused' /\ KillInv'
    BY <1>0, <1>1, <1>2, StillUp
<1>7. TypeOK' /\ SealInv' /\ QueueInv'
    BY <1>1, <1>2, TypeSyncLive, SealsStand, QueueStands
<1>8. UpInv'
    BY <1>0, <1>1, <1>2, <1>3, LiveStands DEF UpInv
<1>9. HdrInv' /\ PcInv'
    BY <1>0, <1>1, <1>5 DEF HdrInv, PcInv
<1>10. HistInv'
    <2>1. Len(hist) \in Nat
        BY DEF TypeOK
    <2> QED
        BY <1>1, <1>2, <2>1 DEF HistInv
<1>11. DurInv'
    <2> SUFFICES ASSUME Power PROVE DurInv'
        BY DEF DurInv
    <2>1. \A f \in present : f \in entered /\ (f # wid => dur[f] = Len(frames[f]))
        BY <1>0 DEF DurInv, PcInv
    <2>2. \A f \in present : f \in entered /\ dur'[f] = Len(frames[f]) /\ Len(frames[f]) \in Nat
        BY <2>1, <1>4, <1>5, FrameShape
    <2>3. \A f \in present' : f \in entered' /\ dur'[f] = Len(frames'[f])
        BY <1>1, <2>2
    <2>4. ASSUME NEW s \in 1..(seq - 1) PROVE Kept(s)'
        <3>0. /\ covered \in Nat /\ seq \in Nat /\ s \in Nat /\ seq = Len(hist) + 1
              /\ Len(hist) \in Nat
            BY <1>0, WalAssumption DEF TypeOK, Seqno, UpInv
        <3>1. CASE s < covered
            BY <3>1, <1>1 DEF Kept
        <3>2. CASE s >= covered
            <4>1. s \in covered..Len(hist)
                BY <3>0, <3>2
            <4>2. Has(s)
                BY <4>1, <1>0 DEF UpInv
            <4>3. PICK f \in present : \E i \in Frames(f) : SeqAt(f, i) = s
                BY <4>2 DEF Has
            <4> QED
                BY <4>3, <2>2, <1>1 DEF Kept, Frames, SeqAt
        <3> QED
            BY <3>0, <3>1, <3>2
    <2>5. synced' <= dur'[wid] /\ \A f \in present : dur'[f] <= Len(frames[f])
        BY <1>2, <1>3, <1>5, <2>2
    <2> QED
        BY <1>0, <1>1, <2>2, <2>3, <2>4, <2>5 DEF DurInv, WholeFile
<1> QED
    BY <1>6, <1>7, <1>8, <1>9, <1>10, <1>11

\* A seal handed over: the live file begins no later than it ends.
LEMMA StepHandSeal ==
    ASSUME LogInv, HandSeal PROVE LogInv'
<1> USE DEF LogInv
<1>0. phase = "up" /\ phase' = "up" /\ pc' = "idle"
    BY DEF HandSeal
<1>1. UNCHANGED <<present, entered, lingers, spare, hdr, hdrs, frames, dur, old, covered,
                  segLog, wid, seq, synced, looseWals, unsynced, dirUnsynced, retiring,
                  due, hist, acked, next>>
    BY DEF HandSeal, names, bytes, store, live, ghost
<1>2. sealing' = Append(sealing, [end |-> seq, wals |-> closed]) /\ closed' = {}
    BY DEF HandSeal
<1>3. /\ FrameInv' /\ OrderInv' /\ OldInv' /\ AnchorInv' /\ RestInv'
      /\ DownInv' /\ ReplayInv' /\ NeverRefused' /\ KillInv'
    BY <1>0, <1>1, StillUp
<1>4. TypeOK' /\ DurInv'
    BY <1>0, <1>1, TypeHandSeal, DurStands DEF DurInv
<1>5. HdrInv' /\ PcInv' /\ HistInv'
    BY <1>0, <1>1 DEF HdrInv, PcInv, HistInv
<1>6. PICK n \in Nat : n = Len(sealing)
    BY DEF TypeOK
<1>7. DOMAIN sealing = 1..n /\ DOMAIN sealing' = 1..(n + 1)
    BY <1>2, <1>6 DEF TypeOK
<1>8. /\ \A i \in 1..n : sealing'[i] = sealing[i]
      /\ sealing'[n + 1].end = seq /\ sealing'[n + 1].wals = closed
    BY <1>2, <1>6, <1>7 DEF TypeOK
<1>9. /\ wid \in present /\ wid \in Nat /\ \A f \in present : f <= wid
      /\ seq = Len(hist) + 1 /\ Len(hist) \in Nat /\ seq \in Nat /\ covered \in Nat
      /\ \A f \in closed \cup retiring : f < wid
      /\ \A i \in DOMAIN sealing : \A f \in sealing[i].wals : f < wid
    <2>1. wid \in Nat /\ Len(hist) \in Nat /\ seq \in Nat /\ covered \in Nat
        BY WalAssumption DEF TypeOK, File, Seqno
    <2> QED
        BY <1>0, <2>1 DEF UpInv
<1>10. UpInv'
    <2>1. \A s : Has(s)' = Has(s)
        BY <1>1 DEF Has, Frames, SeqAt
    <2>2. \A i \in DOMAIN sealing' : \A f \in sealing'[i].wals : f < wid
        BY <1>6, <1>7, <1>8, <1>9
    <2> QED
        BY <1>0, <1>1, <1>2, <2>1, <2>2 DEF UpInv
<1>11. \A f \in due : f < wid
    <2>1. PICK a \in present : \A f \in due : f < a
        BY DEF AnchorInv
    <2>2. a \in Nat /\ \A f \in due : f \in Nat
        BY DEF TypeOK, File
    <2> QED
        BY <2>1, <2>2, <1>9
<1>12. Begins(wid, seq)
    <2>1. \A f \in Left : \A i \in Frames(f) : SeqAt(f, i) \in Nat /\ SeqAt(f, i) < seq
        BY <1>9, FrameFacts
    <2>2. frames[wid] # <<>> => 1 \in Frames(wid)
        BY FrameShape DEF TypeOK, Frames
    <2> QED
        BY <1>9, <2>1, <2>2 DEF Begins, Left
<1>13. \A w, s : Begins(w, s)' = Begins(w, s)
    BY <1>1 DEF Begins, Left, Frames, SeqAt
<1>14. ASSUME NEW i \in 1..n
       PROVE  /\ covered <= sealing[i].end /\ sealing[i].end <= Len(hist) + 1
              /\ \A j \in 1..n : j < i => sealing[j].end <= sealing[i].end
              /\ \E w \in present :
                  /\ Begins(w, sealing[i].end)
                  /\ \A f \in due \cup retiring : f < w
                  /\ \A j \in 1..n : j <= i => \A f \in sealing[j].wals : f < w
    BY <1>7 DEF SealInv
<1>15. ASSUME NEW i \in 1..(n + 1)
       PROVE  /\ covered <= sealing'[i].end /\ sealing'[i].end <= Len(hist) + 1
              /\ \A j \in 1..(n + 1) : j < i => sealing'[j].end <= sealing'[i].end
              /\ \E w \in present :
                  /\ Begins(w, sealing'[i].end)
                  /\ \A f \in due \cup retiring : f < w
                  /\ \A j \in 1..(n + 1) : j <= i => \A f \in sealing'[j].wals : f < w
    <2>1. CASE i \in 1..n
        <3>1. \A j \in 1..(n + 1) : j <= i => j \in 1..n
            BY <2>1, <1>6
        <3>2. \A j \in 1..(n + 1) : j < i => j \in 1..n
            BY <2>1, <1>6
        <3>3. PICK w \in present :
                  /\ Begins(w, sealing[i].end)
                  /\ \A f \in due \cup retiring : f < w
                  /\ \A j \in 1..n : j <= i => \A f \in sealing[j].wals : f < w
            BY <2>1, <1>14
        <3> QED
            BY <2>1, <1>8, <1>14, <3>1, <3>2, <3>3
    <2>2. CASE i = n + 1
        <3>1. \A j \in 1..(n + 1) : j < i => j \in 1..n
            BY <2>2, <1>6
        <3>2. \A j \in 1..n : sealing'[j].end <= seq
            BY <1>8, <1>9, <1>14
        <3>3. covered <= seq
            BY <1>9 DEF HistInv
        <3>4. \A j \in 1..(n + 1) : \A f \in sealing'[j].wals : f < wid
            BY <1>6, <1>7, <1>8, <1>9
        <3> QED
            BY <2>2, <1>8, <1>9, <1>11, <1>12, <3>1, <3>2, <3>3, <3>4
    <2> QED
        BY <2>1, <2>2, <1>6
<1>16. SealInv'
    BY <1>1, <1>7, <1>13, <1>15 DEF SealInv
<1>17. QueueInv'
    <2>1. /\ closed \cup retiring \cup due \subseteq present
          /\ closed \cap retiring = {} /\ due \cap (closed \cup retiring) = {}
          /\ \A i \in 1..n :
              /\ sealing[i].wals \subseteq present
              /\ sealing[i].wals \cap (closed \cup retiring \cup due) = {}
              /\ \A j \in 1..n : j # i => sealing[i].wals \cap sealing[j].wals = {}
        BY <1>7 DEF QueueInv
    <2>2. ASSUME NEW i \in 1..(n + 1)
          PROVE  /\ sealing'[i].wals \subseteq present
                 /\ sealing'[i].wals \cap (retiring \cup due) = {}
                 /\ \A j \in 1..(n + 1) : j # i => sealing'[i].wals \cap sealing'[j].wals = {}
        <3>1. \A j \in 1..(n + 1) : j \in 1..n \/ j = n + 1
            OBVIOUS
        <3>2. CASE i \in 1..n
            BY <3>1, <3>2, <2>1, <1>8
        <3>3. CASE i = n + 1
            BY <3>1, <3>3, <2>1, <1>8
        <3> QED
            BY <3>1, <3>2, <3>3
    <2> QED
        BY <2>1, <2>2, <1>1, <1>2, <1>7 DEF QueueInv
<1> QED
    BY <1>3, <1>4, <1>5, <1>10, <1>16, <1>17

\* While the store is open no file is past the live one.
LEMMA LiveIsLast ==
    ASSUME LogInv, phase = "up"
    PROVE  /\ wid \in present /\ wid \in File /\ wid \in Nat
           /\ \A f \in Left : f \in File /\ f \in Nat /\ f <= wid
           /\ \A f \in due : f < wid
<1> USE DEF LogInv
<1>1. wid \in present /\ wid \in File /\ wid \in Nat /\ \A f \in present : f <= wid
    BY DEF UpInv, TypeOK, File
<1>2. \A f \in Left \cup due : f \in File /\ f \in Nat
    BY DEF TypeOK, Left, File
<1>3. PICK a \in present : /\ \A f \in due : f < a
                           /\ (\A f \in lingers : f < a) \/ (\E e \in present : Ended(e))
    BY DEF AnchorInv
<1>4. \A f \in lingers : f < a
    BY <1>3 DEF Ended
<1>5. a \in Nat /\ a <= wid
    BY <1>1, <1>2 DEF Left
<1>6. \A f \in lingers \cup due : f \in Nat /\ f < a
    BY <1>2, <1>3, <1>4 DEF Left
<1>7. \A f \in lingers \cup due : f < wid /\ f <= wid
    BY <1>1, <1>5, <1>6
<1> QED
    BY <1>1, <1>2, <1>7 DEF Left

\* The live file ends where the history does, once that is not all covered.
LEMMA LiveEnd ==
    ASSUME LogInv, phase = "up", covered <= Len(hist), frames[wid] # <<>>
    PROVE  SeqAt(wid, Len(frames[wid])) = Len(hist)
<1> USE DEF LogInv
<1>1. wid \in present /\ wid \in Left /\ wid \in Nat /\ \A f \in present : f \in Nat /\ f <= wid
    BY LiveIsLast DEF Left
<1>2. PICK q \in Nat : q = Len(frames[wid])
    BY <1>1, FrameFacts
<1>3. q \in Frames(wid) /\ q # 0
    BY <1>1, <1>2, FrameShape DEF Frames, TypeOK
<1>4. PICK h \in Nat : h = Len(hist)
    BY DEF TypeOK
<1>5. covered \in Nat /\ h \in covered..h
    BY <1>4, WalAssumption DEF TypeOK, Seqno
<1>6. Has(h)
    BY <1>4, <1>5 DEF UpInv
<1>7. PICK f \in present : \E i \in Frames(f) : SeqAt(f, i) = h
    BY <1>6 DEF Has
<1>8. PICK i \in Frames(f) : SeqAt(f, i) = h
    BY <1>7
<1>9. SeqAt(wid, q) \in Nat /\ SeqAt(wid, q) <= h
    BY <1>1, <1>3, <1>4, FrameFacts
<1>10. CASE f < wid
    <2>1. SeqAt(f, i) < SeqAt(wid, q)
        BY <1>1, <1>3, <1>10 DEF OrderInv, Left
    <2> QED
        BY <2>1, <1>8, <1>9
<1>11. CASE f = wid
    <2>1. i \in Nat /\ i <= q
        BY <1>11, <1>2 DEF Frames
    <2>2. CASE i < q
        <3>1. SeqAt(wid, i) < SeqAt(wid, q)
            BY <2>2, <1>11, <1>1, <1>3, FrameFacts
        <3> QED
            BY <3>1, <1>8, <1>9, <1>11
    <2> QED
        BY <2>1, <2>2, <1>2, <1>4, <1>8, <1>11
<1> QED
    BY <1>1, <1>10, <1>11

\* A batch written at the end of the live file.
LEMMA StepCommit ==
    ASSUME LogInv, Commit PROVE LogInv'
<1> USE DEF LogInv
<1>0. phase = "up" /\ phase' = "up" /\ pc' \in {"dir", "rotate"}
    BY DEF Commit
<1>1. UNCHANGED <<present, entered, lingers, spare, hdr, hdrs, dur, old, covered, segLog,
                  wid, synced, closed, looseWals, dirUnsynced, sealing, retiring, due, acked>>
    BY DEF Commit, names, store, maint
<1>2. /\ frames' = [frames EXCEPT
                      ![wid] = Append(@, [life |-> wid, seq |-> seq, b |-> next])]
      /\ seq' = seq + 1 /\ hist' = Append(hist, next) /\ next' = next + 1
      /\ unsynced' = unsynced + 1
    BY DEF Commit
<1>3. /\ wid \in present /\ wid \in Left /\ wid \in File /\ wid \in Nat
      /\ \A f \in Left : f \in File /\ f \in Nat /\ f <= wid
    BY <1>0, LiveIsLast DEF Left
<1>4. PICK q \in Nat : q = Len(frames[wid])
    BY <1>3, FrameFacts
<1>5. PICK h \in Nat : h = Len(hist)
    BY DEF TypeOK
<1>6. /\ seq = h + 1 /\ covered \in Nat /\ covered >= 1 /\ covered <= h + 1
      /\ acked \in Nat /\ unsynced \in Nat /\ acked + unsynced <= h
      /\ next \in Nat /\ h < next /\ synced \in Nat /\ synced <= q
    BY <1>0, <1>4, <1>5, WalAssumption DEF UpInv, HistInv, TypeOK, Seqno
<1>7. TypeOK' /\ QueueInv'
    BY <1>1, TypeCommit, QueueStands
\* The files.
<1>8. \A f \in File : f # wid => frames'[f] = frames[f]
    BY <1>2, <1>3 DEF TypeOK
<1>9. /\ Len(frames'[wid]) = q + 1
      /\ \A i \in 1..q : frames'[wid][i] = frames[wid][i]
      /\ frames'[wid][q + 1] = [life |-> wid, seq |-> seq, b |-> next]
    <2>1. PICK x \in Seq(Frame) : x = frames[wid]
        BY <1>3, FrameShape
    <2>2. PICK r : r = [life |-> wid, seq |-> seq, b |-> next]
        OBVIOUS
    <2>3. frames'[wid] = Append(x, r)
        BY <1>2, <1>3, <2>1, <2>2 DEF TypeOK
    <2> QED
        BY <2>1, <2>2, <2>3, <1>4
<1>10. Left' = Left
    BY <1>1 DEF Left
<1>11. /\ \A f \in Left : f # wid => Frames(f)' = Frames(f)
       /\ Frames(wid) = 1..q /\ Frames(wid)' = 1..(q + 1)
    BY <1>1, <1>3, <1>4, <1>8, <1>9 DEF Frames
<1>12. \A f \in Left : \A i \in Frames(f) :
          /\ i \in Frames(f)' /\ frames'[f][i] = frames[f][i] /\ SeqAt(f, i)' = SeqAt(f, i)
    BY <1>1, <1>3, <1>4, <1>8, <1>9, <1>11 DEF SeqAt
<1>13. /\ SeqAt(wid, q + 1)' = h + 1 /\ frames'[wid][q + 1].life = wid
       /\ frames'[wid][q + 1].b = next
    BY <1>1, <1>6, <1>9 DEF SeqAt
<1>14. \A f \in Left : \A i \in Frames(f)' : i \in Frames(f) \/ (f = wid /\ i = q + 1)
    BY <1>1, <1>11
<1>15. \A f \in Left : \A i \in Frames(f) :
          /\ i \in Nat /\ i >= 1 /\ SeqAt(f, i) \in Nat /\ SeqAt(f, i) >= 1 /\ SeqAt(f, i) <= h
    BY <1>5, FrameFacts
<1>16. /\ Len(hist') = h + 1 /\ hist'[h + 1] = next
       /\ \A s \in 1..h : hist'[s] = hist[s]
    BY <1>2, <1>5 DEF TypeOK
<1>17. covered <= h /\ q > 0 => SeqAt(wid, q) = h
    BY <1>0, <1>3, <1>4, <1>5, LiveEnd, FrameShape
<1>18. FrameInv'
    <2> SUFFICES ASSUME NEW f \in Left, NEW i \in Frames(f)'
        PROVE /\ frames'[f][i].life = f
              /\ SeqAt(f, i)' <= Len(hist') /\ frames'[f][i].b = hist'[SeqAt(f, i)']
              /\ i > 1 /\ SeqAt(f, i)' > covered' => SeqAt(f, i)' = SeqAt(f, i - 1)' + 1
              /\ \A j \in Frames(f)' : i < j =>
                  /\ SeqAt(f, i)' < SeqAt(f, j)'
                  /\ SeqAt(f, i)' >= covered' => SeqAt(f, j)' = SeqAt(f, i)' + (j - i)
        BY <1>10, Zenon DEF FrameInv
    <2>1. CASE i \in Frames(f)
        <3>1. /\ frames[f][i].life = f /\ frames[f][i].b = hist[SeqAt(f, i)]
              /\ SeqAt(f, i) \in 1..h
            BY <2>1, <1>15 DEF FrameInv
        <3>2. i > 1 => i - 1 \in Frames(f)
            BY <2>1, <1>15, FrameFacts DEF Frames
        <3>3. i > 1 /\ SeqAt(f, i) > covered => SeqAt(f, i) = SeqAt(f, i - 1) + 1
            BY <2>1, FrameFacts
        <3>4. ASSUME NEW j \in Frames(f)', i < j
              PROVE  /\ SeqAt(f, i)' < SeqAt(f, j)'
                     /\ SeqAt(f, i)' >= covered' => SeqAt(f, j)' = SeqAt(f, i)' + (j - i)
            <4>1. CASE j \in Frames(f)
                BY <4>1, <3>4, <2>1, <1>1, <1>12, FrameFacts
            <4>2. CASE f = wid /\ j = q + 1
                <5>1. i \in 1..q /\ SeqAt(wid, i) \in Nat /\ SeqAt(wid, i) <= h
                    BY <4>2, <2>1, <1>11, <1>15
                <5>2. SeqAt(wid, i) >= covered => h = SeqAt(wid, i) + (q - i)
                    <6> SUFFICES ASSUME SeqAt(wid, i) >= covered
                                 PROVE  h = SeqAt(wid, i) + (q - i)
                        OBVIOUS
                    <6>1. covered <= h /\ q > 0
                        BY <5>1, <1>6
                    <6>2. SeqAt(wid, q) = h
                        BY <6>1, <1>17
                    <6>3. CASE i = q
                        BY <6>2, <6>3, <5>1
                    <6>4. CASE i < q
                        <7>1. q \in Frames(wid) /\ i \in Frames(wid)
                            BY <5>1, <1>11, <6>1
                        <7>2. SeqAt(wid, q) = SeqAt(wid, i) + (q - i)
                            BY <7>1, <6>4, <1>3, FrameFacts
                        <7> QED
                            BY <7>2, <6>2
                    <6> QED
                        BY <6>3, <6>4, <5>1
                <5>3. SeqAt(f, i)' = SeqAt(wid, i) /\ SeqAt(f, j)' = h + 1
                    BY <4>2, <2>1, <1>1, <1>12, <1>13
                <5>4. j = q + 1 /\ covered' = covered
                    BY <4>2, <1>1
                <5>5. PICK x \in Nat : x = SeqAt(wid, i)
                    BY <5>1
                <5>6. x < h + 1 /\ (x >= covered => h + 1 = x + (j - i))
                    BY <5>1, <5>2, <5>4, <5>5
                <5> QED
                    BY <5>3, <5>4, <5>5, <5>6
            <4> QED
                BY <4>1, <4>2, <1>14
        <3>5. /\ SeqAt(f, i)' = SeqAt(f, i) /\ frames'[f][i] = frames[f][i]
              /\ i > 1 => SeqAt(f, i - 1)' = SeqAt(f, i - 1)
            BY <2>1, <3>2, <1>12
        <3>6. SeqAt(f, i)' <= Len(hist') /\ hist'[SeqAt(f, i)] = hist[SeqAt(f, i)]
            BY <3>1, <3>5, <1>16
        <3> QED
            BY <3>1, <3>3, <3>4, <3>5, <3>6, <1>1
    <2>2. CASE f = wid /\ i = q + 1
        <3>1. i > 1 /\ h + 1 > covered => h + 1 = SeqAt(wid, q) + 1 /\ q \in Frames(wid)
            BY <2>2, <1>6, <1>11, <1>17
        <3>2. i - 1 = q
            BY <2>2
        <3>3. i > 1 /\ SeqAt(f, i)' > covered' => SeqAt(f, i)' = SeqAt(f, i - 1)' + 1
            BY <2>2, <3>1, <3>2, <1>1, <1>3, <1>12, <1>13
        <3>4. \A j \in Frames(f)' : ~(i < j)
            BY <2>2, <1>1, <1>11
        <3> QED
            BY <2>2, <3>3, <3>4, <1>1, <1>13, <1>16
    <2> QED
        BY <2>1, <2>2, <1>14
<1>19. OrderInv'
    <2> SUFFICES ASSUME NEW f \in Left, NEW g \in Left, f < g,
                        NEW i \in Frames(f)', NEW j \in Frames(g)'
                 PROVE  SeqAt(f, i)' < SeqAt(g, j)'
        BY <1>10 DEF OrderInv
    <2>1. f # wid /\ i \in Frames(f)
        BY <1>3, <1>14
    <2>2. CASE j \in Frames(g)
        BY <2>1, <2>2, <1>12 DEF OrderInv
    <2>3. CASE g = wid /\ j = q + 1
        BY <2>1, <2>3, <1>1, <1>12, <1>13, <1>15
    <2> QED
        BY <2>2, <2>3, <1>14
<1>20. OldInv'
    BY <1>1, <1>10 DEF OldInv
<1>21. HdrInv'
    <2>1. \A f \in present : f # wid => frames'[f] = frames[f]
        BY <1>3, <1>8 DEF Left
    <2>2. hdr[wid] # "none"
        BY <1>0 DEF UpInv
    <2> QED
        BY <2>1, <2>2, <1>1 DEF HdrInv
<1>22. \A s : Has(s) => Has(s)'
    <2> SUFFICES ASSUME NEW s, Has(s) PROVE Has(s)'
        OBVIOUS
    <2>1. PICK f \in present : \E i \in Frames(f) : SeqAt(f, i) = s
        BY DEF Has
    <2>2. PICK i \in Frames(f) : SeqAt(f, i) = s
        BY <2>1
    <2>3. f \in present' /\ i \in Frames(f)' /\ SeqAt(f, i)' = s
        BY <2>2, <1>1, <1>12 DEF Left
    <2> QED
        BY <2>3 DEF Has
<1>23. Has(h + 1)'
    <2>1. wid \in present' /\ q + 1 \in Frames(wid)'
        BY <1>1, <1>3, <1>11
    <2> QED
        BY <2>1, <1>1, <1>13 DEF Has
\* Where the log begins.
<1>24. ASSUME NEW w \in present, NEW s \in Nat, covered <= s, Begins(w, s) PROVE Begins(w, s)'
    <2>1. w \in Left /\ w \in Nat /\ w <= wid /\ w \in present'
        BY <1>1, <1>3 DEF Left
    <2>2. ASSUME NEW f \in Left, f < w, NEW i \in Frames(f)' PROVE SeqAt(f, i)' < s
        <3>1. f # wid /\ i \in Frames(f)
            BY <2>1, <2>2, <1>3, <1>14
        <3> QED
            BY <3>1, <2>2, <1>12, <1>24 DEF Begins
    <2>3. frames'[w] # <<>> => SeqAt(w, 1)' <= s
        <3>1. CASE frames[w] # <<>>
            <4>1. 1 \in Frames(w)
                BY <3>1, <2>1, <1>3, FrameShape DEF Frames
            <4> QED
                BY <4>1, <3>1, <2>1, <1>12, <1>24 DEF Begins
        <3>2. CASE frames[w] = <<>> /\ w = wid
            <4>1. q = 0
                BY <3>2, <1>4
            <4>2. ~Has(s)
                <5> SUFFICES ASSUME Has(s) PROVE FALSE
                    OBVIOUS
                <5>1. PICK f \in present : \E i \in Frames(f) : SeqAt(f, i) = s
                    BY DEF Has
                <5>2. f \in Left /\ f # wid
                    BY <5>1, <4>1, <1>11 DEF Left
                <5>3. f < wid
                    BY <5>2, <1>3
                <5> QED
                    BY <5>1, <5>2, <5>3, <3>2, <1>15, <1>24 DEF Begins
            <4>3. ~(s \in covered..h)
                BY <4>2, <1>0, <1>5 DEF UpInv
            <4>4. h + 1 <= s
                BY <4>3, <1>6, <1>24
            <4>5. SeqAt(wid, 1)' = h + 1
                BY <4>1, <1>13
            <4> QED
                BY <4>4, <4>5, <3>2, <1>1
        <3>3. CASE frames[w] = <<>> /\ w # wid
            BY <3>3, <2>1, <1>3, <1>8
        <3> QED
            BY <3>1, <3>2, <3>3
    <2> QED
        BY <2>1, <2>2, <2>3, <1>10 DEF Begins
<1>25. AnchorInv'
    <2>1. PICK a \in present :
            /\ Begins(a, covered) /\ (Power => a \in entered) /\ LivesBelow(a)
            /\ \A f \in due : f < a
            /\ (\A f \in lingers : f < a) \/ (\E e \in present : Ended(e))
        BY Zenon DEF AnchorInv
    <2>2. \A f \in lingers : f < a
        BY <2>1, <1>0 DEF Ended
    <2>3. Begins(a, covered)'
        <3>1. covered <= covered
            BY <1>6
        <3>2. PICK s \in Nat : s = covered
            BY <1>6
        <3>3. Begins(a, s)'
            BY <2>1, <3>1, <3>2, <1>24
        <3> QED
            BY <3>2, <3>3, <1>1 DEF Begins
    <2>4. LivesBelow(a)'
        BY <2>1, <1>1 DEF LivesBelow
    <2> QED
        BY <2>1, <2>2, <2>3, <2>4, <1>1, Zenon DEF AnchorInv, Power
<1>26. HistInv'
    <2>1. SubSeq(hist', 1, covered - 1) = SubSeq(hist, 1, covered - 1)
        <3>1. PICK c \in Nat : c = covered - 1 /\ c <= h
            BY <1>6
        <3>2. \A i \in 1..c : hist'[i] = hist[i]
            BY <1>16, <3>1
        <3>3. hist \in Seq(Batch) /\ hist' \in Seq(Batch)
            BY <1>7 DEF TypeOK
        <3>4. /\ SubSeq(hist', 1, c) \in Seq(Batch) /\ Len(SubSeq(hist', 1, c)) = c
              /\ SubSeq(hist, 1, c) \in Seq(Batch) /\ Len(SubSeq(hist, 1, c)) = c
            BY <3>1, <3>3, <1>5, <1>16
        <3>5. \A i \in 1..c : SubSeq(hist', 1, c)[i] = hist'[i] /\ SubSeq(hist, 1, c)[i] = hist[i]
            BY <3>1, <3>3, <1>5, <1>16
        <3>6. SubSeq(hist', 1, c) = SubSeq(hist, 1, c)
            BY <3>2, <3>4, <3>5
        <3> QED
            BY <3>1, <3>6
    <2>2. segLog' = SubSeq(hist', 1, covered' - 1)
        BY <2>1, <1>1 DEF HistInv
    <2>3. /\ covered' <= h + 1 + 1 /\ acked' + unsynced' <= h + 1 /\ h + 1 < next'
        BY <1>1, <1>2, <1>6
    <2> QED
        BY <2>2, <2>3, <1>16 DEF HistInv
<1>27. SealInv'
    <2> SUFFICES ASSUME NEW i \in DOMAIN sealing
        PROVE /\ covered' <= sealing'[i].end /\ sealing'[i].end <= Len(hist') + 1
              /\ \A j \in DOMAIN sealing' : j < i => sealing'[j].end <= sealing'[i].end
              /\ \E w \in present' :
                  /\ Begins(w, sealing[i].end)'
                  /\ \A f \in due' \cup retiring' : f < w
                  /\ \A j \in DOMAIN sealing' : j <= i => \A f \in sealing'[j].wals : f < w
        BY <1>1 DEF SealInv
    <2>1. /\ covered <= sealing[i].end /\ sealing[i].end <= h + 1
          /\ \A j \in DOMAIN sealing : j < i => sealing[j].end <= sealing[i].end
        BY <1>5 DEF SealInv
    <2>2. PICK w \in present :
              /\ Begins(w, sealing[i].end)
              /\ \A f \in due \cup retiring : f < w
              /\ \A j \in DOMAIN sealing : j <= i => \A f \in sealing[j].wals : f < w
        BY DEF SealInv
    <2>3. PICK s \in Nat : s = sealing[i].end
        <3>1. sealing[i] \in Seal
            BY DEF TypeOK
        <3> QED
            BY <3>1, WalAssumption DEF Seal, Seqno
    <2>4. Begins(w, s)'
        BY <2>1, <2>2, <2>3, <1>24
    <2>5. Begins(w, sealing[i].end)'
        BY <2>3, <2>4, <1>1 DEF Begins
    <2>6. sealing[i].end <= Len(hist') + 1
        BY <2>1, <2>3, <1>16
    <2> QED
        BY <2>1, <2>2, <2>5, <2>6, <1>1
<1>28. UpInv'
    <2>1. ASSUME NEW s \in covered..(h + 1) PROVE Has(s)'
        <3>1. s \in covered..h \/ s = h + 1
            BY <1>6
        <3> QED
            BY <3>1, <1>0, <1>5, <1>22, <1>23 DEF UpInv
    <2>2. synced' <= Len(frames'[wid'])
        BY <1>1, <1>6, <1>9
    <2>3. seq' = Len(hist') + 1
        BY <1>2, <1>6, <1>16
    <2>4. \A s \in covered'..Len(hist') : Has(s)'
        BY <2>1, <1>1, <1>16
    <2>5. /\ wid \in present /\ \A f \in present : f <= wid
          /\ hdr[wid] # "none"
          /\ \A f \in closed \cup retiring : f < wid
          /\ \A i \in DOMAIN sealing : \A f \in sealing[i].wals : f < wid
        BY <1>0 DEF UpInv
    <2> QED
        BY <2>2, <2>3, <2>4, <2>5, <1>1 DEF UpInv
<1>29. PcInv'
    <2>1. FramesUnsynced'
        BY <1>1, <1>6, <1>9 DEF FramesUnsynced
    <2> QED
        BY <2>1, <1>0 DEF PcInv
<1>30. RestInv' /\ DownInv' /\ ReplayInv' /\ NeverRefused'
    BY <1>0 DEF RestInv, DownInv, ReplayInv, NeverRefused
<1>31. KillInv'
    <2> SUFFICES ASSUME ~Power PROVE hist' = [i \in 1..(next' - 1) |-> i]
        BY DEF KillInv
    <2>1. hist = [i \in 1..(next - 1) |-> i]
        BY DEF KillInv
    <2>2. hist \in Seq(Batch) /\ hist' \in Seq(Batch)
        BY <1>7 DEF TypeOK
    <2>3. DOMAIN hist = 1..(next - 1) /\ DOMAIN hist = 1..h
        <3>1. DOMAIN hist = 1..h
            BY <2>2, <1>5
        <3>2. DOMAIN hist = 1..(next - 1)
            BY <2>1, Zenon
        <3> QED
            BY <3>1, <3>2
    <2>n. 1..(next - 1) = 1..h
        BY <2>3, Zenon
    <2>4. h = next - 1
        <3>1. CASE h = 0
            <4>1. 1 \notin 1..(next - 1)
                BY <2>n, <3>1
            <4> QED
                BY <4>1, <3>1, <1>6
        <3>2. CASE h > 0
            <4>0. h + 1 \notin 1..h
                OBVIOUS
            <4>1. h + 1 \notin 1..(next - 1)
                BY <4>0, <2>n, Zenon
            <4> QED
                BY <4>1, <1>6
        <3> QED
            BY <3>1, <3>2
    <2>5. DOMAIN hist' = 1..(h + 1) /\ next' - 1 = h + 1
        BY <2>2, <2>4, <1>2, <1>6, <1>16
    <2>6. \A i \in 1..(h + 1) : hist'[i] = i
        <3> TAKE i \in 1..(h + 1)
        <3>1. CASE i \in 1..h
            BY <3>1, <2>1, <2>3, <1>16
        <3>2. CASE i = h + 1
            BY <3>2, <2>4, <1>6, <1>16
        <3> QED
            BY <3>1, <3>2
    <2> QED
        BY <2>2, <2>5, <2>6
<1>32. DurInv'
    <2> SUFFICES ASSUME Power PROVE DurInv'
        BY DEF DurInv
    <2>0. \A f \in present : f \in Left /\ f \in File /\ f \in Nat /\ f <= wid
        BY <1>3 DEF Left
    <2>1. \A f \in present : dur[f] \in Nat /\ dur[f] <= Len(frames[f])
        BY <2>0 DEF DurInv, TypeOK
    <2>2. \A f \in present : dur[f] <= Len(frames'[f])
        <3> TAKE f \in present
        <3>1. CASE f = wid
            BY <3>1, <2>1, <1>4, <1>9
        <3> QED
            BY <3>1, <2>0, <2>1, <1>8
    <2>3. \A f \in present \ {wid} : f \notin looseWals => dur[f] = Len(frames'[f])
        BY <2>0, <1>0, <1>8 DEF DurInv
    <2>4. synced <= dur[wid] /\ (~dirUnsynced => present \subseteq entered)
        BY <1>0 DEF DurInv
    <2>5. ASSUME NEW f \in present, "chained" \in hdrs[f], NEW g \in present, g < f
          PROVE  g \in entered /\ dur[g] = Len(frames'[g])
        <3>1. g \in entered /\ dur[g] = Len(frames[g])
            BY <2>5, <1>0 DEF DurInv, WholeFile
        <3>2. g # wid
            BY <2>0, <2>5, <1>3
        <3> QED
            BY <3>1, <3>2, <2>0, <1>8
    <2>6. ASSUME NEW s \in 1..(seq' - 1), s + unsynced' < seq' PROVE Kept(s)'
        <3>1. s \in 1..(seq - 1) /\ s + unsynced < seq
            BY <2>6, <1>2, <1>6
        <3>2. Kept(s)
            BY <3>1, <1>0 DEF DurInv
        <3>3. CASE s < covered
            BY <3>3, <1>1 DEF Kept
        <3>4. CASE \E f \in present \cap entered : \E i \in 1..dur[f] : frames[f][i].seq = s
            <4>1. PICK f \in present \cap entered : \E i \in 1..dur[f] : frames[f][i].seq = s
                BY <3>4
            <4>2. PICK i \in 1..dur[f] : frames[f][i].seq = s
                BY <4>1
            <4>3. i \in Frames(f)
                <5>1. f \in Left /\ dur[f] \in Nat /\ dur[f] <= Len(frames[f]) /\ Len(frames[f]) \in Nat
                    BY <2>0, <2>1, FrameFacts
                <5> QED
                    BY <5>1 DEF Frames
            <4>4. frames'[f][i].seq = s
                BY <4>2, <4>3, <2>0, <1>12
            <4> QED
                BY <4>2, <4>4, <1>1 DEF Kept
        <3> QED
            BY <3>2, <3>3, <3>4 DEF Kept
    <2> QED
        BY <2>2, <2>3, <2>4, <2>5, <2>6, <1>0, <1>1 DEF DurInv, WholeFile
<1> QED
    BY <1>7, <1>18, <1>19, <1>20, <1>21, <1>25, <1>26, <1>27, <1>28, <1>29, <1>30, <1>31, <1>32

\* A rotation: the new file is past every other, empty, and said to be chained
\* only where all before it is whole on the device.
LEMMA StepRotate ==
    ASSUME LogInv, RotateWal PROVE LogInv'
<1> USE DEF LogInv
<1>1. PICK n \in File, k \in {"loose", "chained"} :
             /\ phase = "up" /\ pc = "rotate" /\ wid < MaxFile /\ n = wid + 1
             /\ k = "loose" <=> FramesUnsynced
             /\ present' = present \cup {n}
             /\ entered' = entered \ {n} /\ lingers' = lingers \ {n}
             /\ hdr' = [hdr EXCEPT ![n] = k]
             /\ hdrs' = [hdrs EXCEPT ![n] = {k, "none"}]
             /\ frames' = [frames EXCEPT ![n] = <<>>]
             /\ dur' = [dur EXCEPT ![n] = 0]
             /\ old' = [old EXCEPT ![n] = IF spare = <<>> THEN <<>> ELSE Head(spare)]
             /\ spare' = <<>>
             /\ wid' = n /\ synced' = 0
             /\ closed' = closed \cup {wid}
             /\ looseWals' = IF k = "loose" THEN (looseWals \cap present) \cup {wid}
                             ELSE looseWals
             /\ dirUnsynced' = TRUE
             /\ pc' \in {"newdir", "hand", "idle"}
             /\ UNCHANGED <<store, phase, why, seq, unsynced, maint, replay, ghost, fails>>
    BY RotateParts, Zenon
<1>2. UNCHANGED <<covered, segLog, phase, seq, unsynced, sealing, retiring, due, hist, acked,
                  next>>
    BY <1>1, Zenon DEF store, maint, ghost
<1>3. /\ wid \in present /\ wid \in File /\ wid \in Nat /\ n \in Nat /\ wid < n
      /\ \A f \in Left : f \in File /\ f \in Nat /\ f <= wid /\ f < n /\ f # n
    <2>1. /\ wid \in present /\ wid \in File /\ wid \in Nat
          /\ \A f \in Left : f \in File /\ f \in Nat /\ f <= wid
        BY <1>1, LiveIsLast
    <2>2. n = wid + 1
        BY <1>1
    <2> QED
        BY <2>1, <2>2
<1>4. /\ Left' \subseteq Left \cup {n} /\ n \in Left' /\ Left \subseteq Left'
      /\ present \subseteq Left /\ lingers \subseteq Left
    BY <1>1 DEF Left
<1>5. /\ \A f \in Left : /\ frames'[f] = frames[f] /\ old'[f] = old[f] /\ dur'[f] = dur[f]
                          /\ hdr'[f] = hdr[f] /\ hdrs'[f] = hdrs[f]
      /\ frames'[n] = <<>> /\ dur'[n] = 0 /\ hdr'[n] = k /\ hdrs'[n] = {k, "none"}
      /\ old'[n] = IF spare = <<>> THEN <<>> ELSE Head(spare)
    <2> DEFINE o == IF spare = <<>> THEN <<>> ELSE Head(spare)
    <2> HIDE DEF o
    <2>1. old' = [old EXCEPT ![n] = o]
        BY <1>1 DEF o
    <2>2. old'[n] = o /\ \A f \in Left : old'[f] = old[f]
        BY <2>1, <1>3 DEF TypeOK
    <2>3. \A f \in Left : /\ frames'[f] = frames[f] /\ dur'[f] = dur[f]
                          /\ hdr'[f] = hdr[f] /\ hdrs'[f] = hdrs[f]
        BY <1>1, <1>3 DEF TypeOK
    <2>4. frames'[n] = <<>> /\ dur'[n] = 0 /\ hdr'[n] = k /\ hdrs'[n] = {k, "none"}
        BY <1>1 DEF TypeOK
    <2> QED
        BY <2>2, <2>3, <2>4 DEF o
<1>6. /\ \A f \in Left : Frames(f)' = Frames(f) /\ \A i : SeqAt(f, i)' = SeqAt(f, i)
      /\ Frames(n)' = {}
    BY <1>1, <1>5 DEF Frames, SeqAt
<1>7. \A f \in Left' : \A i \in Frames(f)' : f \in Left /\ i \in Frames(f)
    BY <1>4, <1>6
<1>8. TypeOK'
    BY TypeRotate
<1>9. FrameInv'
    <2> SUFFICES ASSUME NEW f \in Left', NEW i \in Frames(f)'
        PROVE /\ frames'[f][i].life = f
              /\ SeqAt(f, i)' <= Len(hist') /\ frames'[f][i].b = hist'[SeqAt(f, i)']
              /\ i > 1 /\ SeqAt(f, i)' > covered' => SeqAt(f, i)' = SeqAt(f, i - 1)' + 1
              /\ \A j \in Frames(f)' : i < j =>
                  /\ SeqAt(f, i)' < SeqAt(f, j)'
                  /\ SeqAt(f, i)' >= covered' => SeqAt(f, j)' = SeqAt(f, i)' + (j - i)
        BY Zenon DEF FrameInv
    <2>1. f \in Left /\ i \in Frames(f)
        BY <1>7
    <2>2. /\ frames[f][i].life = f
          /\ SeqAt(f, i) <= Len(hist) /\ frames[f][i].b = hist[SeqAt(f, i)]
          /\ i > 1 /\ SeqAt(f, i) > covered => SeqAt(f, i) = SeqAt(f, i - 1) + 1
          /\ \A j \in Frames(f) : i < j =>
              /\ SeqAt(f, i) < SeqAt(f, j)
              /\ SeqAt(f, i) >= covered => SeqAt(f, j) = SeqAt(f, i) + (j - i)
        BY <2>1, Zenon DEF FrameInv
    <2> QED
        BY <2>1, <2>2, <1>2, <1>5, <1>6
<1>10. OrderInv'
    <2> SUFFICES ASSUME NEW f \in Left', NEW g \in Left', f < g,
                        NEW i \in Frames(f)', NEW j \in Frames(g)'
                 PROVE  SeqAt(f, i)' < SeqAt(g, j)'
        BY DEF OrderInv
    <2> QED
        BY <1>6, <1>7 DEF OrderInv
<1>11. PICK a \in present :
            /\ Begins(a, covered) /\ (Power => a \in entered) /\ LivesBelow(a)
            /\ \A f \in due : f < a
            /\ (\A f \in lingers : f < a) \/ (\E e \in present : Ended(e))
    BY Zenon DEF AnchorInv
<1>12. (\A f \in lingers : f < a) /\ a \in Nat /\ a < n
    BY <1>1, <1>3, <1>4, <1>11 DEF Ended
<1>13. OldInv'
    <2>1. ASSUME NEW i \in DOMAIN old'[n] PROVE old'[n][i].life < n
        <3>1. spare # <<>> /\ old'[n] = Head(spare)
            <4>1. CASE spare = <<>>
                <5>1. old'[n] = <<>>
                    BY <4>1, <1>5
                <5> QED
                    BY <5>1, <2>1
            <4> QED
                BY <4>1, <1>5
        <3>2. spare \in Seq(Seq(Frame)) /\ 1 \in DOMAIN spare /\ Head(spare) = spare[1]
            BY <3>1 DEF TypeOK
        <3>3. spare[1] \in Seq(Frame) /\ i \in DOMAIN spare[1] /\ old'[n][i] = spare[1][i]
            BY <3>1, <3>2, <2>1
        <3>4. spare[1][i].life < a
            BY <3>2, <3>3, <1>11 DEF LivesBelow
        <3>5. spare[1][i].life \in Nat
            <4>1. PICK x \in Seq(Frame) : x = spare[1]
                BY <3>3
            <4>2. x[i] \in Frame
                BY <3>3, <4>1
            <4> QED
                BY <4>1, <4>2 DEF Frame, File
        <3> QED
            BY <3>3, <3>4, <3>5, <1>3, <1>12
    <2> QED
        BY <2>1, <1>4, <1>5 DEF OldInv
<1>14. HdrInv'
    BY <1>1, <1>4, <1>5 DEF HdrInv
<1>15. ASSUME NEW w \in present, NEW s, Begins(w, s) PROVE Begins(w, s)'
    <2>1. w \in present' /\ w \in Left /\ frames'[w] = frames[w] /\ SeqAt(w, 1)' = SeqAt(w, 1)
        BY <1>1, <1>4, <1>5, <1>6
    <2>2. ASSUME NEW f \in Left', f < w, NEW i \in Frames(f)' PROVE SeqAt(f, i)' < s
        BY <2>2, <1>6, <1>7, <1>15 DEF Begins
    <2> QED
        BY <2>1, <2>2, <1>15 DEF Begins
<1>16. AnchorInv'
    <2>1. Begins(a, covered)'
        <3>1. PICK s : s = covered
            OBVIOUS
        <3>2. Begins(a, s)'
            BY <3>1, <1>11, <1>15
        <3> QED
            BY <3>1, <3>2, <1>2 DEF Begins
    <2>2. LivesBelow(a)'
        BY <1>1 DEF LivesBelow
    <2>3. a \in present' /\ a # n
        BY <1>1, <1>3, <1>4
    <2>4. \A f \in lingers' : f < a
        BY <1>1, <1>12
    <2>5. (Power => a \in entered') /\ \A f \in due' : f < a
        BY <2>3, <1>1, <1>2, <1>11
    <2> QED
        BY <2>1, <2>2, <2>3, <2>4, <2>5, Zenon DEF AnchorInv, Power
<1>17. HistInv' /\ KillInv'
    BY <1>2 DEF HistInv, KillInv
<1>18. SealInv'
    <2> SUFFICES ASSUME NEW i \in DOMAIN sealing
        PROVE /\ covered' <= sealing'[i].end /\ sealing'[i].end <= Len(hist') + 1
              /\ \A j \in DOMAIN sealing' : j < i => sealing'[j].end <= sealing'[i].end
              /\ \E w \in present' :
                  /\ Begins(w, sealing[i].end)'
                  /\ \A f \in due' \cup retiring' : f < w
                  /\ \A j \in DOMAIN sealing' : j <= i => \A f \in sealing'[j].wals : f < w
        BY <1>2 DEF SealInv
    <2>1. /\ covered <= sealing[i].end /\ sealing[i].end <= Len(hist) + 1
          /\ \A j \in DOMAIN sealing : j < i => sealing[j].end <= sealing[i].end
        BY DEF SealInv
    <2>2. PICK w \in present :
              /\ Begins(w, sealing[i].end)
              /\ \A f \in due \cup retiring : f < w
              /\ \A j \in DOMAIN sealing : j <= i => \A f \in sealing[j].wals : f < w
        BY DEF SealInv
    <2>3. PICK s : s = sealing[i].end
        OBVIOUS
    <2>4. Begins(w, s)'
        BY <2>2, <2>3, <1>15
    <2>5. Begins(w, sealing[i].end)' /\ w \in present'
        BY <2>3, <2>4, <1>2 DEF Begins
    <2> QED
        BY <2>1, <2>2, <2>5, <1>2
<1>19. UpInv'
    <2>1. \A s : Has(s) => Has(s)'
        <3> SUFFICES ASSUME NEW s, Has(s) PROVE Has(s)'
            OBVIOUS
        <3>1. PICK f \in present : \E i \in Frames(f) : SeqAt(f, i) = s
            BY DEF Has
        <3>2. PICK i \in Frames(f) : SeqAt(f, i) = s
            BY <3>1
        <3>3. f \in present' /\ i \in Frames(f)' /\ SeqAt(f, i)' = s
            BY <3>2, <1>1, <1>4, <1>6
        <3> QED
            BY <3>3 DEF Has
    <2>2. /\ seq = Len(hist) + 1 /\ \A s \in covered..Len(hist) : Has(s)
          /\ \A f \in closed \cup retiring : f < wid
          /\ \A i \in DOMAIN sealing : \A f \in sealing[i].wals : f < wid
        BY <1>1 DEF UpInv
    <2>3. n \in present' /\ hdr'[n] # "none" /\ synced' <= Len(frames'[n])
        BY <1>1, <1>5
    <2>4. \A f \in present' : f <= n
        BY <1>1, <1>3, <1>4
    <2>5. \A f \in closed \cup retiring : f \in Nat
        BY DEF TypeOK, File
    <2>6. \A f \in closed' \cup retiring' : f < n
        BY <2>2, <2>5, <1>1, <1>2, <1>3
    <2>7. \A i \in DOMAIN sealing : \A f \in sealing[i].wals : f < n
        <3> TAKE i \in DOMAIN sealing
        <3>1. sealing[i].wals \subseteq File
            <4>1. sealing[i] \in Seal
                BY DEF TypeOK
            <4> QED
                BY <4>1 DEF Seal
        <3> QED
            BY <3>1, <2>2, <1>3 DEF File
    <2> QED
        BY <2>1, <2>2, <2>3, <2>4, <2>6, <2>7, <1>1, <1>2 DEF UpInv
<1>20. PcInv' /\ RestInv' /\ DownInv' /\ ReplayInv' /\ NeverRefused'
    BY <1>1, <1>2 DEF PcInv, RestInv, DownInv, ReplayInv, NeverRefused
<1>21. DurInv'
    <2> SUFFICES ASSUME Power PROVE DurInv'
        BY DEF DurInv
    <2>1. \A f \in present : /\ f \in Left /\ f \in Nat /\ f < n /\ f # n
                             /\ dur[f] \in Nat /\ Len(frames[f]) \in Nat
                             /\ dur[f] <= Len(frames[f])
        BY <1>3, <1>4, FrameShape DEF DurInv, TypeOK
    <2>2. /\ \A f \in present \ {wid} : f \notin looseWals => dur[f] = Len(frames[f])
          /\ synced <= dur[wid] /\ (~dirUnsynced => present \subseteq entered)
          /\ \A f \in present : "chained" \in hdrs[f] =>
                  \A g \in present : g < f => WholeFile(g)
          /\ \A s \in 1..(seq - 1) : s + unsynced < seq => Kept(s)
        BY <1>1 DEF DurInv
    <2>3. k = "chained" => \A g \in present : WholeFile(g)
        <3> SUFFICES ASSUME k = "chained", NEW g \in present PROVE WholeFile(g)
            OBVIOUS
        <3>1. ~FramesUnsynced /\ looseWals = {} /\ ~dirUnsynced
            BY <1>1 DEF PcInv
        <3>2. dur[wid] = Len(frames[wid])
            <4>1. synced \in Nat /\ ~(Len(frames[wid]) > synced)
                BY <3>1 DEF FramesUnsynced, TypeOK
            <4> QED
                BY <4>1, <2>1, <2>2, <1>3
        <3> QED
            BY <3>1, <3>2, <2>2 DEF WholeFile
    <2>4. \A g \in present : WholeFile(g) => WholeFile(g)'
        BY <2>1, <1>1, <1>5 DEF WholeFile
    <2>5. \A f \in present' : dur'[f] <= Len(frames'[f])
        BY <2>1, <1>1, <1>5
    <2>6. ASSUME NEW f \in present', f # n, f \notin looseWals' PROVE dur'[f] = Len(frames'[f])
        <3>1. f \in present /\ dur'[f] = dur[f] /\ frames'[f] = frames[f]
            BY <2>6, <1>1, <1>4, <1>5
        <3>2. CASE k = "loose"
            BY <3>1, <3>2, <2>2, <2>6, <1>1
        <3>3. CASE k = "chained"
            BY <3>1, <3>3, <2>3 DEF WholeFile
        <3> QED
            BY <3>2, <3>3
    <2>7. ASSUME NEW f \in present', "chained" \in hdrs'[f], NEW g \in present', g < f
          PROVE  WholeFile(g)'
        <3>1. g \in present
            BY <2>1, <2>7, <1>1, <1>3
        <3>2. CASE f = n
            <4>1. k = "chained"
                BY <3>2, <2>7, <1>5
            <4> QED
                BY <4>1, <3>1, <2>3, <2>4
        <3>3. CASE f \in present
            BY <3>1, <3>3, <2>2, <2>4, <2>7, <1>4, <1>5
        <3> QED
            BY <3>2, <3>3, <1>1
    <2>8. ASSUME NEW s \in 1..(seq - 1), s + unsynced < seq PROVE Kept(s)'
        <3>1. Kept(s)
            BY <2>2, <2>8
        <3>2. CASE s < covered
            BY <3>2, <1>2 DEF Kept
        <3>3. CASE \E f \in present \cap entered : \E i \in 1..dur[f] : frames[f][i].seq = s
            <4>1. PICK f \in present \cap entered : \E i \in 1..dur[f] : frames[f][i].seq = s
                BY <3>3
            <4>2. f \in present' \cap entered' /\ dur'[f] = dur[f] /\ frames'[f] = frames[f]
                BY <2>1, <1>1, <1>5
            <4> QED
                BY <4>1, <4>2 DEF Kept
        <3> QED
            BY <3>1, <3>2, <3>3 DEF Kept
    <2>9. synced' <= dur'[wid'] /\ dirUnsynced' = TRUE /\ wid' = n
        BY <1>1, <1>5
    <2>10. \A f \in present' \ {wid'} : f \notin looseWals' => dur'[f] = Len(frames'[f])
        BY <2>6, <2>9
    <2>11. \A f \in present' : "chained" \in hdrs'[f] => \A g \in present' : g < f => WholeFile(g)'
        BY <2>7
    <2>12. \A s \in 1..(seq' - 1) : s + unsynced' < seq' => Kept(s)'
        BY <2>8, <1>2
    <2>13. phase' = "up"
        BY <1>1, <1>2
    <2> QED
        BY <2>5, <2>9, <2>10, <2>11, <2>12, <2>13 DEF DurInv
<1>22. QueueInv'
    <2>1. \A f \in retiring \cup due : f # wid
        <3>1. \A f \in retiring \cup due : f < wid
            BY <1>1, LiveIsLast DEF UpInv
        <3> QED
            BY <3>1, <1>3
    <2>2. \A i \in DOMAIN sealing : \A f \in sealing[i].wals : f # wid
        <3>1. \A i \in DOMAIN sealing : \A f \in sealing[i].wals : f < wid
            BY <1>1 DEF UpInv
        <3> QED
            BY <3>1, <1>3
    <2> QED
        BY <2>1, <2>2, <1>1, <1>2, <1>3 DEF QueueInv
<1> QED
    BY <1>8, <1>9, <1>10, <1>13, <1>14, <1>16, <1>17, <1>18, <1>19, <1>20, <1>21, <1>22

\* A seal landed durable: the log begins later, in a file the seal's retirement
\* does not touch.
LEMMA StepLand ==
    ASSUME LogInv, LandDurable PROVE LogInv'
<1> USE DEF LogInv
<1>0. phase = "up" /\ phase' = "up" /\ sealing # <<>> /\ due = {}
    BY DEF LandDurable, call
<1>1. UNCHANGED <<present, spare, hdr, hdrs, frames, dur, old, pc, wid, seq, synced, closed,
                  looseWals, unsynced, dirUnsynced, hist, acked, next>>
    BY DEF LandDurable, bytes, call, live, queues, ghost
<1>2. PICK n \in Nat : Len(sealing) = n + 1
    <2>1. Len(sealing) \in Nat /\ Len(sealing) # 0
        BY <1>0 DEF TypeOK
    <2>2. Len(sealing) - 1 \in Nat /\ Len(sealing) = (Len(sealing) - 1) + 1
        BY <2>1
    <2> QED
        BY <2>2
<1>3. /\ DOMAIN sealing = 1..(n + 1) /\ DOMAIN sealing' = 1..n /\ Head(sealing) = sealing[1]
      /\ \A i \in 1..n : sealing'[i] = sealing[i + 1]
    <2>1. sealing \in Seq(Seal) /\ sealing' = Tail(sealing)
        BY DEF LandDurable, TypeOK
    <2> QED
        BY <2>1, <1>0, <1>2
<1>4. /\ covered' = sealing[1].end
      /\ segLog' = SubSeq(hist, 1, sealing[1].end - 1)
      /\ entered' = present /\ lingers' = {}
      /\ due' = retiring \cup sealing[1].wals /\ retiring' = {}
    BY <1>3 DEF LandDurable, DirSynced
<1>5. \A i \in 1..(n + 1) : sealing[i].end \in Nat /\ sealing[i].wals \subseteq File
    <2> TAKE i \in 1..(n + 1)
    <2>1. sealing[i] \in Seal
        BY <1>3 DEF TypeOK
    <2> QED
        BY <2>1, WalAssumption DEF Seal, Seqno
<1>6. 1 \in 1..(n + 1) /\ \A i \in 1..n : i + 1 \in 1..(n + 1) /\ 1 < i + 1 /\ 1 <= i + 1
    OBVIOUS
<1>7. PICK e \in Nat : e = sealing[1].end
    BY <1>5, <1>6
<1>8. \A i \in 1..(n + 1) :
         /\ covered <= sealing[i].end /\ sealing[i].end <= Len(hist) + 1
         /\ \A j \in 1..(n + 1) : j < i => sealing[j].end <= sealing[i].end
         /\ \E w \in present :
              /\ Begins(w, sealing[i].end)
              /\ \A f \in due \cup retiring : f < w
              /\ \A j \in 1..(n + 1) : j <= i => \A f \in sealing[j].wals : f < w
    BY <1>3 DEF SealInv
<1>9. covered \in Nat /\ covered <= e /\ e <= Len(hist) + 1 /\ covered' = e /\ Len(hist) \in Nat
    BY <1>4, <1>6, <1>7, <1>8, WalAssumption DEF TypeOK, Seqno
<1>10. Left' \subseteq Left
    BY <1>1, <1>4 DEF Left
<1>11. TypeOK' /\ FrameInv' /\ OrderInv' /\ OldInv'
    <2>1. covered' \in Nat /\ covered' >= covered
        BY <1>9
    <2> QED
        BY <2>1, <1>1, <1>10, TypeLand, ShrinkKeeps
<1>12. HdrInv'
    BY <1>1 DEF HdrInv
<1>13. HistInv'
    BY <1>1, <1>4, <1>7, <1>9 DEF HistInv
<1>14. AnchorInv'
    <2>1. PICK a \in present :
            /\ Begins(a, covered) /\ (Power => a \in entered) /\ LivesBelow(a)
            /\ \A f \in due : f < a
        BY Zenon DEF AnchorInv
    <2>2. PICK w \in present :
              /\ Begins(w, e)
              /\ \A f \in retiring : f < w
              /\ \A f \in sealing[1].wals : f < w
        BY <1>6, <1>7, <1>8
    <2>3. a \in Nat /\ w \in Nat /\ retiring \cup sealing[1].wals \subseteq Nat
        <3>1. present \subseteq Nat /\ retiring \subseteq Nat
            BY DEF TypeOK, File
        <3>2. sealing[1].wals \subseteq Nat
            BY <1>5, <1>6 DEF File
        <3> QED
            BY <3>1, <3>2
    <2>4. Begins(a, e)
        <3>1. a \in Left /\ \A f \in Left : \A i \in Frames(f) : SeqAt(f, i) \in Nat
            BY FrameFacts DEF Left
        <3>2. frames[a] # <<>> => 1 \in Frames(a)
            BY <2>1, FrameShape DEF TypeOK, Frames
        <3> QED
            BY <2>1, <3>1, <3>2, <1>9 DEF Begins
    <2>5. PICK b \in present : Begins(b, e) /\ a <= b /\ w <= b
        BY <2>2, <2>3, <2>4
    <2>6. b \in Nat
        BY DEF TypeOK, File
    <2>7. LivesBelow(b)
        <3> SUFFICES ASSUME NEW m \in DOMAIN spare, NEW i \in DOMAIN spare[m]
                     PROVE  spare[m][i].life < b
            BY DEF LivesBelow
        <3>1. spare[m][i].life < a
            BY <2>1 DEF LivesBelow
        <3>2. spare[m][i].life \in Nat
            <4>1. PICK x \in Seq(Frame) : x = spare[m]
                BY DEF TypeOK
            <4>2. x[i] \in Frame
                BY <4>1
            <4> QED
                BY <4>1, <4>2 DEF Frame, File
        <3> QED
            BY <3>1, <3>2, <2>3, <2>5, <2>6
    <2>8. \A f \in due' : f < b
        BY <2>2, <2>3, <2>5, <2>6, <1>4
    <2>9. Begins(b, covered)'
        <3>1. Begins(b, e)'
            BY <2>5, <1>1, <1>10, BeginsKeeps
        <3> QED
            BY <3>1, <1>9 DEF Begins
    <2>10. LivesBelow(b)' /\ b \in present' /\ b \in entered'
        BY <2>7, <1>1, <1>4 DEF LivesBelow
    <2>11. \A f \in lingers' : f < b
        BY <1>4
    <2> QED
        BY <2>8, <2>9, <2>10, <2>11, Zenon DEF AnchorInv
<1>15. SealInv'
    <2> SUFFICES ASSUME NEW i \in 1..n
        PROVE /\ covered' <= sealing'[i].end /\ sealing'[i].end <= Len(hist') + 1
              /\ \A j \in 1..n : j < i => sealing'[j].end <= sealing'[i].end
              /\ \E w \in present' :
                  /\ Begins(w, sealing[i].end)'
                  /\ \A f \in due' \cup retiring' : f < w
                  /\ \A j \in 1..n : j <= i => \A f \in sealing'[j].wals : f < w
        BY <1>3 DEF SealInv
    <2>1. i + 1 \in 1..(n + 1) /\ 1 < i + 1 /\ sealing'[i] = sealing[i + 1]
        BY <1>3, <1>6
    <2>2. PICK s \in Nat : s = sealing[i + 1].end
        BY <2>1, <1>5
    <2>3. covered' <= s /\ s <= Len(hist') + 1
        BY <2>1, <2>2, <1>1, <1>4, <1>6, <1>8
    <2>4. ASSUME NEW j \in 1..n, j < i PROVE sealing'[j].end <= sealing'[i].end
        <3>1. j + 1 \in 1..(n + 1) /\ j + 1 < i + 1 /\ sealing'[j] = sealing[j + 1]
            BY <2>4, <1>3
        <3> QED
            BY <3>1, <2>1, <1>8
    <2>5. PICK w \in present :
              /\ Begins(w, s)
              /\ \A f \in due \cup retiring : f < w
              /\ \A j \in 1..(n + 1) : j <= i + 1 => \A f \in sealing[j].wals : f < w
        BY <2>1, <2>2, <1>8
    <2>6. Begins(w, s)'
        BY <2>5, <1>1, <1>10, BeginsKeeps
    <2>7. Begins(w, sealing[i].end)'
        <3>1. sealing'[i].end = s
            BY <2>1, <2>2
        <3> QED
            BY <2>6, <3>1 DEF Begins
    <2>8. \A f \in due' \cup retiring' : f < w
        BY <2>1, <2>5, <1>4, <1>6
    <2>9. ASSUME NEW j \in 1..n, j <= i PROVE \A f \in sealing'[j].wals : f < w
        <3>1. j + 1 \in 1..(n + 1) /\ j + 1 <= i + 1 /\ sealing'[j] = sealing[j + 1]
            BY <2>9, <1>3
        <3> QED
            BY <3>1, <2>5
    <2> QED
        BY <2>1, <2>2, <2>3, <2>4, <2>7, <2>8, <2>9, <1>1
<1>16. UpInv'
    <2>1. \A s : Has(s)' = Has(s)
        BY <1>1 DEF Has, Frames, SeqAt
    <2>2. /\ wid \in present /\ (\A f \in present : f <= wid) /\ hdr[wid] # "none"
          /\ seq = Len(hist) + 1 /\ synced <= Len(frames[wid])
          /\ \A s \in covered..Len(hist) : Has(s)
          /\ \A f \in closed : f < wid
          /\ \A i \in 1..(n + 1) : \A f \in sealing[i].wals : f < wid
        BY <1>0, <1>3 DEF UpInv
    <2>3. \A s \in covered'..Len(hist) : Has(s)'
        BY <2>1, <2>2, <1>9
    <2>4. \A i \in DOMAIN sealing' : \A f \in sealing'[i].wals : f < wid
        BY <2>2, <1>3, <1>6
    <2> QED
        BY <2>2, <2>3, <2>4, <1>0, <1>1, <1>4 DEF UpInv
<1>17. QueueInv'
    <2>1. /\ closed \cup retiring \cup due \subseteq present
          /\ closed \cap retiring = {}
          /\ \A i \in 1..(n + 1) :
              /\ sealing[i].wals \subseteq present
              /\ sealing[i].wals \cap (closed \cup retiring \cup due) = {}
              /\ \A j \in 1..(n + 1) : j # i => sealing[i].wals \cap sealing[j].wals = {}
        BY <1>3 DEF QueueInv
    <2>2. closed' \cup retiring' \cup due' \subseteq present' /\ closed' \cap retiring' = {}
        BY <2>1, <1>1, <1>4, <1>6
    <2>3. due' \cap (closed' \cup retiring') = {}
        BY <2>1, <1>1, <1>4, <1>6
    <2>4. ASSUME NEW i \in 1..n
          PROVE  /\ sealing'[i].wals \subseteq present'
                 /\ sealing'[i].wals \cap (closed' \cup retiring' \cup due') = {}
                 /\ \A j \in 1..n : j # i => sealing'[i].wals \cap sealing'[j].wals = {}
        <3>1. i + 1 \in 1..(n + 1) /\ i + 1 # 1 /\ sealing'[i] = sealing[i + 1]
            BY <1>3
        <3>2. \A j \in 1..n : /\ j + 1 \in 1..(n + 1) /\ sealing'[j] = sealing[j + 1]
                              /\ j # i => j + 1 # i + 1
            BY <1>3
        <3>3. sealing[i + 1].wals \cap sealing[1].wals = {}
            BY <3>1, <2>1, <1>6
        <3>4. \A j \in 1..n : j # i => sealing[i + 1].wals \cap sealing[j + 1].wals = {}
            BY <3>1, <3>2, <2>1
        <3>5. /\ sealing[i + 1].wals \subseteq present
              /\ sealing[i + 1].wals \cap (closed \cup retiring) = {}
            BY <3>1, <2>1
        <3> QED
            BY <3>1, <3>2, <3>3, <3>4, <3>5, <1>1, <1>4
    <2> QED
        BY <2>2, <2>3, <2>4, <1>3 DEF QueueInv
<1>18. PcInv'
    BY <1>1 DEF PcInv, FramesUnsynced
<1>19. RestInv' /\ DownInv' /\ ReplayInv' /\ NeverRefused' /\ KillInv'
    BY <1>0, <1>1 DEF RestInv, DownInv, ReplayInv, NeverRefused, KillInv
<1>20. DurInv'
    <2> SUFFICES ASSUME Power PROVE DurInv'
        BY DEF DurInv
    <2>1. /\ \A f \in present : dur[f] <= Len(frames[f])
          /\ \A f \in present \ {wid} : f \notin looseWals => dur[f] = Len(frames[f])
          /\ synced <= dur[wid]
          /\ \A f \in present : "chained" \in hdrs[f] =>
                  \A g \in present : g < f => g \in entered /\ dur[g] = Len(frames[g])
          /\ \A s \in 1..(seq - 1) : s + unsynced < seq => Kept(s)
        BY <1>0 DEF DurInv, WholeFile
    <2>2. ASSUME NEW s \in 1..(seq - 1), s + unsynced < seq PROVE Kept(s)'
        <3>1. s \in Nat /\ covered' \in Nat /\ covered' >= covered
            BY <1>9, WalAssumption DEF TypeOK, Seqno
        <3>2. \A f \in present \cap entered : dur'[f] \in Nat /\ dur'[f] >= dur[f]
            BY <1>1 DEF TypeOK
        <3>3. present \cap entered \subseteq present' \cap entered' /\ UNCHANGED frames
            BY <1>1, <1>4
        <3> QED
            BY <2>1, <2>2, <3>1, <3>2, <3>3, KeptGrows
    <2> QED
        BY <2>1, <2>2, <1>0, <1>1, <1>4 DEF DurInv, WholeFile
<1> QED
    BY <1>11, <1>12, <1>13, <1>14, <1>15, <1>16, <1>17, <1>18, <1>19, <1>20

\* A file retired: nothing past what is covered is in it.
LEMMA StepRetire ==
    ASSUME LogInv, NEW f \in File, RetireWal(f) PROVE LogInv'
<1> USE DEF LogInv
<1>0. phase = "up" /\ phase' = "up" /\ f \in due
    BY DEF RetireWal, call
<1>1. UNCHANGED <<hdr, hdrs, frames, dur, old, covered, segLog, pc, wid, seq, synced, closed,
                  looseWals, unsynced, dirUnsynced, sealing, retiring, hist, acked, next>>
    BY DEF RetireWal, bytes, store, call, live, queues, ghost
<1>2. /\ due' = due \ {f} /\ present' = present \ {f} /\ entered' = entered \ {f}
      /\ lingers' = lingers \cup {f}
      /\ spare' = spare \/ spare' = << Visible(f) >>
    BY DEF RetireWal
<1>3. f \in present /\ f \in Left /\ f \in Nat
    BY <1>0 DEF QueueInv, Left, TypeOK, File
<1>4. Left' = Left
    BY <1>2, <1>3 DEF Left
<1>5. PICK a \in present :
            /\ Begins(a, covered) /\ (Power => a \in entered) /\ LivesBelow(a)
            /\ \A g \in due : g < a
            /\ (\A g \in lingers : g < a) \/ (\E e \in present : Ended(e))
    BY Zenon DEF AnchorInv
<1>6. a \in Nat /\ f < a /\ a # f /\ \A g \in lingers : g < a
    BY <1>0, <1>3, <1>5 DEF Ended, TypeOK, File
<1>7. \A i \in Frames(f) : SeqAt(f, i) < covered
    BY <1>3, <1>5, <1>6 DEF Begins
<1>8. covered \in Nat /\ covered' = covered
    BY <1>1, WalAssumption DEF TypeOK, Seqno
<1>9. TypeOK' /\ FrameInv' /\ OrderInv' /\ OldInv'
    <2>1. covered' \in Nat /\ covered' >= covered /\ Left' \subseteq Left
        BY <1>4, <1>8
    <2> QED
        BY <2>1, <1>1, TypeRetire, ShrinkKeeps
<1>10. HdrInv' /\ HistInv' /\ PcInv' /\ KillInv'
    BY <1>1, <1>2 DEF HdrInv, HistInv, PcInv, KillInv, FramesUnsynced
<1>11. RestInv' /\ DownInv' /\ ReplayInv' /\ NeverRefused'
    BY <1>0 DEF RestInv, DownInv, ReplayInv, NeverRefused
<1>12. ASSUME NEW w \in present, w # f, NEW s, Begins(w, s) PROVE Begins(w, s)'
    BY <1>1, <1>2, <1>4, <1>12, BeginsKeeps
<1>13. AnchorInv'
    <2>1. LivesBelow(a)'
        <3>1. CASE spare' = spare
            BY <3>1, <1>5 DEF LivesBelow
        <3>2. CASE spare' = << Visible(f) >>
            <4>1. /\ Visible(f) \in Seq(Frame)
                  /\ \A i \in 1..Len(Visible(f)) : Visible(f)[i].life <= f
                BY <1>3, ReadsItsOwn
            <4>2. PICK v \in Seq(Frame) : v = Visible(f)
                BY <4>1
            <4>3. \A i \in DOMAIN v : v[i].life < a
                <5> TAKE i \in DOMAIN v
                <5>1. v[i] \in Frame /\ i \in 1..Len(v)
                    OBVIOUS
                <5>2. v[i].life \in Nat
                    BY <5>1 DEF Frame, File
                <5>3. v[i].life <= f
                    BY <5>1, <4>1, <4>2
                <5> QED
                    BY <5>2, <5>3, <1>3, <1>6
            <4>4. \A m \in DOMAIN spare' : spare'[m] = v
                BY <3>2, <4>2
            <4> QED
                BY <4>3, <4>4 DEF LivesBelow
        <3> QED
            BY <3>1, <3>2, <1>2
    <2>2. Begins(a, covered)'
        <3>1. PICK s : s = covered
            OBVIOUS
        <3>2. Begins(a, s)'
            BY <3>1, <1>5, <1>6, <1>12
        <3> QED
            BY <3>1, <3>2, <1>8 DEF Begins
    <2>3. a \in present' /\ (Power => a \in entered') /\ \A g \in due' : g < a
        BY <1>2, <1>5, <1>6
    <2>4. \A g \in lingers' : g < a
        BY <1>2, <1>6
    <2> QED
        BY <2>1, <2>2, <2>3, <2>4, Zenon DEF AnchorInv, Power
<1>14. SealInv'
    <2> SUFFICES ASSUME NEW i \in DOMAIN sealing
        PROVE /\ covered' <= sealing'[i].end /\ sealing'[i].end <= Len(hist') + 1
              /\ \A j \in DOMAIN sealing' : j < i => sealing'[j].end <= sealing'[i].end
              /\ \E w \in present' :
                  /\ Begins(w, sealing[i].end)'
                  /\ \A g \in due' \cup retiring' : g < w
                  /\ \A j \in DOMAIN sealing' : j <= i => \A g \in sealing'[j].wals : g < w
        BY <1>1 DEF SealInv
    <2>1. /\ covered <= sealing[i].end /\ sealing[i].end <= Len(hist) + 1
          /\ \A j \in DOMAIN sealing : j < i => sealing[j].end <= sealing[i].end
        BY DEF SealInv
    <2>2. PICK w \in present :
              /\ Begins(w, sealing[i].end)
              /\ \A g \in due \cup retiring : g < w
              /\ \A j \in DOMAIN sealing : j <= i => \A g \in sealing[j].wals : g < w
        BY DEF SealInv
    <2>3. w # f /\ w \in present'
        BY <2>2, <1>0, <1>2, <1>3
    <2>4. PICK s : s = sealing[i].end
        OBVIOUS
    <2>5. Begins(w, s)'
        BY <2>2, <2>3, <2>4, <1>12
    <2>6. Begins(w, sealing[i].end)'
        BY <2>4, <2>5, <1>1 DEF Begins
    <2> QED
        BY <2>1, <2>2, <2>3, <2>6, <1>1, <1>2
<1>15. UpInv'
    <2>1. ASSUME NEW s \in covered..Len(hist) PROVE Has(s)'
        <3>1. Has(s)
            BY <1>0 DEF UpInv
        <3>2. PICK g \in present : \E i \in Frames(g) : SeqAt(g, i) = s
            BY <3>1 DEF Has
        <3>3. PICK i \in Frames(g) : SeqAt(g, i) = s
            BY <3>2
        <3>4. s \in Int /\ s >= covered
            BY <1>8
        <3>5. g # f
            BY <3>3, <3>4, <1>7, <1>8
        <3>6. g \in present' /\ i \in Frames(g)' /\ SeqAt(g, i)' = s
            BY <3>3, <3>5, <1>1, <1>2 DEF Frames, SeqAt
        <3> QED
            BY <3>6 DEF Has
    <2>2. wid # f
        BY <1>0, <1>3, LiveIsLast
    <2> QED
        BY <2>1, <2>2, <1>0, <1>1, <1>2 DEF UpInv
<1>16. QueueInv'
    BY <1>0, <1>1, <1>2 DEF QueueInv
<1>17. DurInv'
    <2> SUFFICES ASSUME Power PROVE DurInv'
        BY DEF DurInv
    <2>1. /\ \A g \in present : dur[g] <= Len(frames[g])
          /\ \A g \in present \ {wid} : g \notin looseWals => dur[g] = Len(frames[g])
          /\ synced <= dur[wid] /\ (~dirUnsynced => present \subseteq entered)
          /\ \A h \in present : "chained" \in hdrs[h] =>
                  \A g \in present : g < h => g \in entered /\ dur[g] = Len(frames[g])
          /\ \A s \in 1..(seq - 1) : s + unsynced < seq => Kept(s)
        BY <1>0 DEF DurInv, WholeFile
    <2>2. ASSUME NEW s \in 1..(seq - 1), s + unsynced < seq PROVE Kept(s)'
        <3>1. Kept(s)
            BY <2>1, <2>2
        <3>2. CASE s < covered
            BY <3>2, <1>1 DEF Kept
        <3>3. CASE \E g \in present \cap entered : \E i \in 1..dur[g] : frames[g][i].seq = s
            <4>1. PICK g \in present \cap entered : \E i \in 1..dur[g] : frames[g][i].seq = s
                BY <3>3
            <4>2. CASE g = f
                <5>1. PICK i \in 1..dur[f] : SeqAt(f, i) = s
                    BY <4>1, <4>2 DEF SeqAt
                <5>2. i \in Frames(f)
                    <6>1. dur[f] \in Nat /\ dur[f] <= Len(frames[f]) /\ Len(frames[f]) \in Nat
                        BY <2>1, <1>3, FrameFacts DEF TypeOK
                    <6> QED
                        BY <6>1 DEF Frames
                <5> QED
                    BY <5>1, <5>2, <1>7, <1>8 DEF Kept
            <4>3. CASE g # f
                BY <4>1, <4>3, <1>1, <1>2 DEF Kept
            <4> QED
                BY <4>2, <4>3
        <3> QED
            BY <3>1, <3>2, <3>3 DEF Kept
    <2> QED
        BY <2>1, <2>2, <1>0, <1>1, <1>2 DEF DurInv, WholeFile
<1> QED
    BY <1>9, <1>10, <1>11, <1>13, <1>14, <1>15, <1>16, <1>17

-----------------------------------------------------------------------------
(* The failures.                                                              *)

\* What a process that is gone leaves to prove.
LEMMA Forgotten ==
    ASSUME LogInv, Forget
    PROVE  /\ HistInv' /\ SealInv' /\ UpInv' /\ QueueInv' /\ PcInv' /\ RestInv' /\ ReplayInv'
           /\ KillInv' /\ NeverRefused' /\ phase' = "down" /\ due' = {}
           /\ UNCHANGED <<covered, hist, acked, next>>
<1> USE DEF LogInv
<1>1. /\ phase' = "down" /\ pc' = "idle" /\ closed' = {} /\ looseWals' = {}
      /\ unsynced' = 0 /\ dirUnsynced' = FALSE /\ sealing' = <<>> /\ retiring' = {} /\ due' = {}
      /\ UNCHANGED <<covered, segLog, hist, acked, next>>
    BY DEF Forget, store, ghost
<1>2. HistInv'
    <2>1. acked \in Nat /\ unsynced \in Nat /\ Len(hist) \in Nat /\ acked + unsynced <= Len(hist)
        BY DEF HistInv, TypeOK
    <2>2. acked' + unsynced' <= Len(hist')
        BY <1>1, <2>1
    <2> QED
        BY <1>1, <2>2 DEF HistInv
<1>3. SealInv' /\ QueueInv'
    BY <1>1 DEF SealInv, QueueInv
<1>4. UpInv' /\ PcInv' /\ RestInv' /\ ReplayInv' /\ NeverRefused'
    BY <1>1 DEF UpInv, PcInv, RestInv, ReplayInv, NeverRefused
<1>5. KillInv'
    BY <1>1 DEF KillInv
<1> QED
    BY <1>1, <1>2, <1>3, <1>4, <1>5

\* With every batch past what is covered in some file, nothing is missing in
\* front of one.
LEMMA NoGap ==
    ASSUME TypeOK, FrameInv, \A s \in covered..Len(hist) : Has(s), NEW f PROVE ~Gap(f)
<1> SUFFICES ASSUME Gap(f) PROVE FALSE
    OBVIOUS
<1>1. f \in present /\ frames[f] # <<>> /\ f \in Left /\ f \in File
    BY DEF Gap, Left, TypeOK
<1>2. 1 \in Frames(f)
    BY <1>1, FrameShape DEF Frames
<1>3. SeqAt(f, 1) \in Nat /\ SeqAt(f, 1) <= Len(hist) /\ Len(hist) \in Nat /\ covered \in Nat
    BY <1>1, <1>2, FrameFacts, WalAssumption DEF TypeOK, Seqno
<1>4. PICK s \in covered..(SeqAt(f, 1) - 1) : ~Has(s)
    BY DEF Gap
<1>5. s \in covered..Len(hist)
    BY <1>3
<1> QED
    BY <1>4, <1>5

\* A process killed: the page cache has all that was written.
LEMMA StepKill ==
    ASSUME OneKind, LogInv, Kill PROVE LogInv'
<1> USE DEF LogInv
<1>1. ~Power
    BY DEF OneKind, Power, Kill
<1>2. Forget /\ UNCHANGED <<names, bytes>> /\ phase \in {"up", "replay"}
    BY DEF Kill
<1>3. /\ HistInv' /\ SealInv' /\ UpInv' /\ QueueInv' /\ PcInv' /\ RestInv' /\ ReplayInv'
      /\ KillInv' /\ NeverRefused' /\ phase' = "down" /\ due' = {}
      /\ UNCHANGED <<covered, hist, acked, next>>
    BY <1>2, Forgotten
<1>4. UNCHANGED <<present, entered, lingers, spare, hdr, hdrs, frames, dur, old>>
    BY <1>2 DEF names, bytes
<1>5. TypeOK' /\ FrameInv' /\ OrderInv' /\ OldInv' /\ HdrInv'
    <2>1. covered \in Nat /\ covered' >= covered /\ Left' \subseteq Left /\ Fails
        BY <1>3, <1>4, WalAssumption DEF TypeOK, Seqno, Left, Fails
    <2> QED
        BY <2>1, <1>3, <1>4, TypeFails, ShrinkKeeps DEF HdrInv
<1>6. \A s \in covered..Len(hist) : Has(s)
    BY <1>1, <1>2 DEF UpInv, DownInv
<1>7. \A s : Has(s)' = Has(s)
    BY <1>4 DEF Has, Frames, SeqAt
<1>8. \A f : ~Gap(f)
    BY <1>6, NoGap
<1>9. \A f : Gap(f)' = Gap(f)
    BY <1>3, <1>4, <1>7 DEF Gap, SeqAt
<1>10. DownInv'
    <2>1. acked \in Nat /\ unsynced \in Nat /\ Len(hist) \in Nat /\ covered \in Nat
        BY WalAssumption DEF TypeOK, Seqno
    <2>2. acked <= Len(hist)
        BY <2>1 DEF HistInv
    <2>3. \A s \in covered..acked : Has(s)
        BY <2>1, <2>2, <1>6
    <2> QED
        BY <2>3, <1>1, <1>3, <1>6, <1>7, <1>8, <1>9 DEF DownInv, Power
<1>11. AnchorInv'
    <2>1. PICK a \in present :
            /\ Begins(a, covered) /\ LivesBelow(a)
            /\ (\A f \in lingers : f < a) \/ (\E e \in present : Ended(e))
        BY Zenon DEF AnchorInv
    <2>2. \A f \in lingers : f < a
        BY <2>1, <1>8 DEF Ended
    <2>3. Begins(a, covered)' /\ LivesBelow(a)'
        BY <2>1, <1>3, <1>4 DEF Begins, LivesBelow, Left, Frames, SeqAt
    <2>4. a \in present' /\ (\A f \in due' : f < a) /\ \A f \in lingers' : f < a
        BY <2>2, <1>3, <1>4
    <2>5. ~(Power)'
        BY <1>1 DEF Power
    <2> QED
        BY <2>3, <2>4, <2>5, Zenon DEF AnchorInv
<1>12. DurInv'
    BY <1>1 DEF DurInv, Power
<1> QED
    BY <1>3, <1>5, <1>10, <1>11, <1>12

\* The machine loses power: what is lost of the open store's log lies behind a
\* loose header, and of a replay nothing is.
LEMMA StepPowerLoss ==
    ASSUME LogInv, PowerLoss PROVE LogInv'
<1> USE DEF LogInv
<1>1. Power
    BY Zenon DEF Power, PowerLoss
<1>2. Forget /\ UNCHANGED <<old, spare>> /\ phase \in {"up", "replay"}
    BY Zenon DEF PowerLoss
<1>3. /\ HistInv' /\ SealInv' /\ UpInv' /\ QueueInv' /\ PcInv' /\ RestInv' /\ ReplayInv'
      /\ KillInv' /\ NeverRefused' /\ phase' = "down" /\ due' = {}
      /\ UNCHANGED <<covered, hist, acked, next>>
    BY <1>2, Forgotten
<1>4. /\ present' \subseteq Left /\ present \cap entered \subseteq present'
      /\ entered' = present' /\ lingers' = {} /\ Left' = present'
    BY PowerParts DEF Left
<1>5. \A f \in present' : \E n \in dur[f]..Len(frames[f]) :
                /\ n \in Nat /\ dur'[f] = n /\ Len(frames'[f]) = n
                /\ \A i \in 1..n : frames'[f][i] = frames[f][i]
                /\ hdr'[f] \in HeadersLeft(f, n) /\ hdrs'[f] = {hdr'[f]}
    BY PowerParts
<1>6. TypeOK'
    BY TypeFails DEF Fails
<1>7. \A f \in Left : f \in File /\ f \in Nat /\ dur[f] \in Nat /\ Len(frames[f]) \in Nat
    BY FrameFacts DEF TypeOK
\* Of a file that is left: a prefix, and the header it had, if anything.
<1>8. ASSUME NEW f \in present'
      PROVE  /\ f \in Left
             /\ dur'[f] = Len(frames'[f]) /\ dur'[f] \in Nat /\ hdrs'[f] = {hdr'[f]}
             /\ dur[f] <= dur'[f] /\ dur'[f] <= Len(frames[f])
             /\ \A i \in Frames(f)' : /\ i \in Frames(f) /\ frames'[f][i] = frames[f][i]
                                      /\ SeqAt(f, i)' = SeqAt(f, i)
             /\ Frames(f)' = 1..dur'[f]
             /\ hdr'[f] = "none" => frames'[f] = <<>>
             /\ frames'[f] # <<>> => hdr'[f] \in hdrs[f]
    <2>1. PICK n \in dur[f]..Len(frames[f]) :
                /\ n \in Nat /\ dur'[f] = n /\ Len(frames'[f]) = n
                /\ \A i \in 1..n : frames'[f][i] = frames[f][i]
                /\ hdr'[f] \in HeadersLeft(f, n) /\ hdrs'[f] = {hdr'[f]}
        BY <1>5
    <2>2. f \in Left /\ dur[f] \in Nat /\ Len(frames[f]) \in Nat /\ f \in File
        BY <1>4, <1>7
    <2>3. dur[f] <= n /\ n <= Len(frames[f])
        BY <2>2
    <2>4. frames'[f] \in Seq(Frame)
        BY <2>2, <1>6 DEF TypeOK
    <2>5. Frames(f)' = 1..n /\ \A i \in 1..n : i \in Frames(f)
        BY <2>1, <2>2, <2>3 DEF Frames
    <2>6. \A i \in 1..n : SeqAt(f, i)' = SeqAt(f, i)
        BY <2>1 DEF SeqAt
    <2>7. n # 0 => hdr'[f] \in hdrs[f] /\ hdr'[f] # "none"
        BY <2>1 DEF HeadersLeft
    <2>8. n = 0 <=> frames'[f] = <<>>
        BY <2>1, <2>4
    <2> QED
        BY <2>1, <2>2, <2>3, <2>5, <2>6, <2>7, <2>8
<1>9. FrameInv'
    <2> SUFFICES ASSUME NEW f \in present', NEW i \in Frames(f)'
        PROVE /\ frames'[f][i].life = f
              /\ SeqAt(f, i)' <= Len(hist') /\ frames'[f][i].b = hist'[SeqAt(f, i)']
              /\ i > 1 /\ SeqAt(f, i)' > covered' => SeqAt(f, i)' = SeqAt(f, i - 1)' + 1
              /\ \A j \in Frames(f)' : i < j =>
                  /\ SeqAt(f, i)' < SeqAt(f, j)'
                  /\ SeqAt(f, i)' >= covered' => SeqAt(f, j)' = SeqAt(f, i)' + (j - i)
        BY <1>4, Zenon DEF FrameInv
    <2>1. f \in Left /\ i \in Frames(f) /\ frames'[f][i] = frames[f][i]
          /\ SeqAt(f, i)' = SeqAt(f, i)
        BY <1>8
    <2>2. /\ frames[f][i].life = f
          /\ SeqAt(f, i) <= Len(hist) /\ frames[f][i].b = hist[SeqAt(f, i)]
          /\ i > 1 /\ SeqAt(f, i) > covered => SeqAt(f, i) = SeqAt(f, i - 1) + 1
          /\ \A j \in Frames(f) : i < j =>
              /\ SeqAt(f, i) < SeqAt(f, j)
              /\ SeqAt(f, i) >= covered => SeqAt(f, j) = SeqAt(f, i) + (j - i)
        BY <2>1, Zenon DEF FrameInv
    <2>3. i > 1 => SeqAt(f, i - 1)' = SeqAt(f, i - 1)
        <3>1. i > 1 => i - 1 \in Frames(f)'
            BY <1>8
        <3> QED
            BY <3>1, <1>8
    <2>4. \A j \in Frames(f)' : j \in Frames(f) /\ SeqAt(f, j)' = SeqAt(f, j)
        BY <1>8
    <2> QED
        BY <2>1, <2>2, <2>3, <2>4, <1>3
<1>10. OrderInv' /\ OldInv'
    <2>1. OrderInv'
        <3> SUFFICES ASSUME NEW f \in present', NEW g \in present', f < g,
                            NEW i \in Frames(f)', NEW j \in Frames(g)'
                     PROVE  SeqAt(f, i)' < SeqAt(g, j)'
            BY <1>4 DEF OrderInv
        <3> QED
            BY <1>8 DEF OrderInv
    <2>2. OldInv'
        BY <1>2, <1>4 DEF OldInv
    <2> QED
        BY <2>1, <2>2
<1>11. HdrInv'
    BY <1>8 DEF HdrInv
<1>12. PICK a \in present :
            /\ Begins(a, covered) /\ a \in entered /\ LivesBelow(a)
            /\ (\A f \in lingers : f < a) \/ (\E e \in present : Ended(e))
    BY <1>1, Zenon DEF AnchorInv
<1>13. AnchorInv'
    <2>1. a \in present' /\ a \in entered'
        BY <1>4, <1>12
    <2>2. LivesBelow(a)'
        BY <1>2, <1>12 DEF LivesBelow
    <2>3. Begins(a, covered)'
        <3>1. ASSUME NEW f \in Left', f < a, NEW i \in Frames(f)' PROVE SeqAt(f, i)' < covered'
            BY <3>1, <1>3, <1>4, <1>8, <1>12 DEF Begins
        <3>2. ASSUME frames'[a] # <<>> PROVE SeqAt(a, 1)' <= covered'
            <4>1. a \in File /\ frames'[a] \in Seq(Frame)
                BY <1>6, <1>7, <2>1, <1>4 DEF TypeOK
            <4>2. 1 \in Frames(a)'
                BY <4>1, <3>2 DEF Frames
            <4>3. 1 \in Frames(a) /\ SeqAt(a, 1)' = SeqAt(a, 1)
                BY <4>2, <2>1, <1>8
            <4>4. frames[a] # <<>>
                BY <4>3 DEF Frames
            <4> QED
                BY <4>3, <4>4, <1>3, <1>12 DEF Begins
        <3> QED
            BY <2>1, <3>1, <3>2 DEF Begins
    <2> QED
        BY <2>1, <2>2, <2>3, <1>3, <1>4, Zenon DEF AnchorInv
<1>14. DurInv'
    <2>1. \A f \in present' : /\ dur'[f] <= Len(frames'[f]) /\ dur'[f] = Len(frames'[f])
                              /\ f \in entered' /\ hdrs'[f] = {hdr'[f]}
        BY <1>4, <1>8
    <2>2. phase' # "up"
        BY <1>3
    <2> QED
        BY <2>1, <2>2 DEF DurInv, WholeFile
\* What is whole on the device is left.
<1>15. ASSUME NEW f \in present, f \in entered, NEW i \in Frames(f), i <= dur[f], NEW s,
              SeqAt(f, i) = s
       PROVE  Has(s)'
    <2>1. f \in present' /\ dur[f] <= dur'[f] /\ dur'[f] \in Nat /\ Frames(f)' = 1..dur'[f]
        BY <1>4, <1>8, <1>15
    <2>2. f \in Left /\ dur[f] \in Nat /\ i \in Nat /\ i >= 1
        BY <1>7, FrameFacts DEF Left
    <2>3. i \in Frames(f)'
        BY <2>1, <2>2, <1>15
    <2>4. SeqAt(f, i)' = s
        BY <2>1, <2>3, <1>8, <1>15
    <2> QED
        BY <2>1, <2>3, <2>4 DEF Has
<1>16. /\ covered \in Nat /\ acked \in Nat /\ unsynced \in Nat /\ Len(hist) \in Nat
       /\ acked + unsynced <= Len(hist)
    BY WalAssumption DEF TypeOK, Seqno, HistInv
<1>17. \A f \in Left : f < a => \A i \in Frames(f) : SeqAt(f, i) < covered
    BY <1>12 DEF Begins
\* Of a gap behind f: what f has left, and the sequence that is missing.
<1>18. ASSUME NEW f, Gap(f)'
       PROVE  /\ f \in present' /\ f \in Left /\ 1 \in Frames(f) /\ SeqAt(f, 1)' = SeqAt(f, 1)
              /\ frames[f] # <<>> /\ frames'[f] # <<>> /\ SeqAt(f, 1) \in Nat
              /\ SeqAt(f, 1) <= Len(hist)
              /\ \E s \in Nat : covered <= s /\ s < SeqAt(f, 1) /\ ~Has(s)'
    <2>1. f \in present' /\ frames'[f] # <<>> /\ f \in Left /\ f \in File
        BY <1>4, <1>7, <1>18 DEF Gap
    <2>2. 1 \in Frames(f)'
        BY <2>1, <1>6 DEF Frames, TypeOK
    <2>3. 1 \in Frames(f) /\ SeqAt(f, 1)' = SeqAt(f, 1)
        BY <2>1, <2>2, <1>8
    <2>4. SeqAt(f, 1) \in Nat /\ SeqAt(f, 1) <= Len(hist) /\ frames[f] # <<>>
        BY <2>1, <2>3, FrameFacts DEF Frames
    <2>5. PICK s \in covered'..(SeqAt(f, 1)' - 1) : ~Has(s)'
        BY <1>18 DEF Gap
    <2>6. s \in covered..(SeqAt(f, 1) - 1)
        BY <2>3, <2>5, <1>3
    <2>7. s \in Nat /\ covered <= s /\ s < SeqAt(f, 1)
        BY <2>4, <2>6, <1>16
    <2> QED
        BY <2>1, <2>3, <2>4, <2>5, <2>7
<1>19. ASSUME phase = "up" PROVE DownInv'
    <2>1. ASSUME NEW s \in covered..acked PROVE Has(s)'
        <3>1. s \in Nat /\ covered <= s /\ s <= acked
            BY <1>16
        <3>2. seq = Len(hist) + 1 /\ covered >= 1
            BY <1>19, WalAssumption DEF UpInv, TypeOK, Seqno
        <3>3. s \in 1..(seq - 1) /\ s + unsynced < seq
            BY <3>1, <3>2, <1>16
        <3>4. Kept(s)
            BY <3>3, <1>1, <1>19 DEF DurInv
        <3>5. PICK f \in present \cap entered : \E i \in 1..dur[f] : frames[f][i].seq = s
            BY <3>1, <3>4, <1>16 DEF Kept
        <3>6. PICK i \in 1..dur[f] : SeqAt(f, i) = s
            BY <3>5 DEF SeqAt
        <3>7. f \in Left /\ dur[f] \in Nat /\ dur[f] <= Len(frames[f]) /\ Len(frames[f]) \in Nat
            BY <1>1, <1>7 DEF DurInv, Left
        <3>8. i \in Frames(f) /\ i <= dur[f]
            BY <3>7 DEF Frames
        <3> QED
            BY <3>6, <3>8, <1>15
    <2>2. ASSUME NEW f \in present', Gap(f)' PROVE hdr'[f] = "loose"
        <3>1. /\ f \in Left /\ 1 \in Frames(f) /\ SeqAt(f, 1)' = SeqAt(f, 1)
              /\ frames'[f] # <<>> /\ SeqAt(f, 1) \in Nat /\ SeqAt(f, 1) <= Len(hist)
            BY <2>2, <1>18
        <3>2. PICK s \in Nat : covered <= s /\ s < SeqAt(f, 1) /\ ~Has(s)'
            BY <2>2, <1>18
        <3>3. \A g \in lingers : g < a
            BY <1>12, <1>19 DEF Ended
        <3>4. f \in present
            <4> SUFFICES ASSUME f \in lingers PROVE FALSE
                BY <3>1 DEF Left
            <4>1. SeqAt(f, 1) < covered
                BY <3>1, <3>3, <1>17
            <4> QED
                BY <4>1, <3>1, <3>2, <1>16
        <3>5. "chained" \notin hdrs[f]
            <4> SUFFICES ASSUME "chained" \in hdrs[f] PROVE FALSE
                OBVIOUS
            <4>1. \A g \in present : g < f => g \in entered /\ dur[g] = Len(frames[g])
                BY <3>4, <1>1, <1>19 DEF DurInv, WholeFile
            <4>2. s \in covered..Len(hist)
                BY <3>1, <3>2, <1>16
            <4>3. Has(s)
                BY <4>2, <1>19 DEF UpInv
            <4>4. PICK g \in present : \E i \in Frames(g) : SeqAt(g, i) = s
                BY <4>3 DEF Has
            <4>5. PICK i \in Frames(g) : SeqAt(g, i) = s
                BY <4>4
            <4>6. g \in Left /\ g \in Nat /\ f \in Nat
                BY <3>1, <1>7 DEF Left
            <4>7. CASE g < f
                <5>1. g \in entered /\ i <= dur[g]
                    BY <4>1, <4>6, <4>7, FrameFacts
                <5> QED
                    BY <5>1, <4>5, <3>2, <1>15
            <4>8. CASE g = f
                <5>1. i \in Nat /\ i >= 1 /\ (1 < i => SeqAt(f, 1) < SeqAt(f, i))
                    BY <4>8, <3>1, FrameFacts
                <5> QED
                    BY <5>1, <4>5, <4>8, <3>1, <3>2
            <4>9. CASE f < g
                <5>1. SeqAt(f, 1) < SeqAt(g, i)
                    BY <4>6, <4>9, <3>1 DEF OrderInv
                <5> QED
                    BY <5>1, <4>5, <3>1, <3>2
            <4> QED
                BY <4>6, <4>7, <4>8, <4>9
        <3>6. hdr'[f] \in hdrs[f] /\ hdr'[f] # "none"
            BY <3>1, <1>8
        <3>7. f \in File /\ hdr'[f] \in Kind
            BY <3>1, <1>6, <1>7 DEF TypeOK
        <3> QED
            BY <3>5, <3>6, <3>7 DEF Kind
    <2>3. \A f \in present' : Gap(f)' => \E e \in present' : e <= f /\ Gap(e)' /\ hdr'[e] = "loose"
        <3> SUFFICES ASSUME NEW f \in present', Gap(f)'
                     PROVE  \E e \in present' : e <= f /\ Gap(e)' /\ hdr'[e] = "loose"
            OBVIOUS
        <3>1. f <= f
            BY <1>4, <1>7
        <3> QED
            BY <3>1, <2>2
    <2>4. \A s \in covered'..acked' : Has(s)'
        BY <2>1, <1>3
    <2> QED
        BY <2>3, <2>4, <1>1, <1>4 DEF DownInv, Power
<1>20. ASSUME phase = "replay" PROVE DownInv'
    <2>1. \A f \in present : f \in entered /\ dur[f] = Len(frames[f]) /\ hdrs[f] = {hdr[f]}
        BY <1>1, <1>20 DEF DurInv, WholeFile
    <2>2. present \subseteq present'
        BY <2>1, <1>4
    <2>3. \A s : Has(s) => Has(s)'
        <3> SUFFICES ASSUME NEW s, Has(s) PROVE Has(s)'
            OBVIOUS
        <3>1. PICK f \in present : \E i \in Frames(f) : SeqAt(f, i) = s
            BY DEF Has
        <3>2. PICK i \in Frames(f) : SeqAt(f, i) = s
            BY <3>1
        <3>3. f \in entered /\ i <= dur[f]
            BY <2>1, FrameFacts DEF Left
        <3> QED
            BY <3>2, <3>3, <1>15
    <2>4. \A s \in covered'..acked' : Has(s)'
        BY <2>3, <1>3, <1>20 DEF DownInv
    <2>5. ASSUME NEW f \in present, Gap(f) PROVE hdr'[f] = hdr[f] /\ frames'[f] = frames[f]
        <3>1. f \in present' /\ f \in Left /\ f \in File
            BY <2>2, <1>7 DEF Left
        <3>2. Len(frames'[f]) = Len(frames[f]) /\ dur'[f] = Len(frames[f])
            BY <3>1, <2>1, <1>7, <1>8
        <3>3. frames[f] \in Seq(Frame) /\ frames'[f] \in Seq(Frame) /\ frames[f] # <<>>
            BY <2>5, <3>1, <1>6 DEF TypeOK, Gap
        <3>4. \A i \in 1..Len(frames[f]) : frames'[f][i] = frames[f][i]
            BY <3>1, <3>2, <1>8
        <3>5. frames'[f] = frames[f]
            BY <3>2, <3>3, <3>4
        <3>6. hdr'[f] \in hdrs[f]
            BY <3>1, <3>3, <3>5, <1>8
        <3> QED
            BY <3>5, <3>6, <2>1
    <2>6. CASE \E e \in present : Ended(e)
        <3>1. PICK e \in present : Ended(e)
            BY <2>6
        <3>2. /\ Gap(e) /\ hdr[e] = "loose" /\ acked < from
              /\ \A f \in present \ {e} : \A i \in Frames(f) : SeqAt(f, i) < from
              /\ (\A f \in lingers : e < f) /\ (\A f \in present : f <= e)
            BY <3>1 DEF Ended
        <3>3. e \in present' /\ hdr'[e] = "loose" /\ frames'[e] = frames[e] /\ e \in Left /\ e \in Nat
            BY <3>2, <2>2, <2>5, <1>7 DEF Left
        <3>4. 1 \in Frames(e) /\ frames[e] # <<>>
            BY <3>2, <3>3, <1>7, FrameShape DEF Gap, Frames
        <3>5. SeqAt(e, 1) \in Nat /\ SeqAt(e, 1)' = SeqAt(e, 1)
            BY <3>3, <3>4, FrameFacts DEF SeqAt
        <3>6. PICK s \in covered..(SeqAt(e, 1) - 1) : ~Has(s)
            BY <3>2 DEF Gap
        <3>7. s \in Nat /\ covered <= s /\ s < SeqAt(e, 1)
            BY <3>5, <3>6, <1>16
        <3>8. ~Has(s)'
            <4> SUFFICES ASSUME Has(s)' PROVE FALSE
                OBVIOUS
            <4>1. PICK g \in present' : \E i \in Frames(g)' : SeqAt(g, i)' = s
                BY DEF Has
            <4>2. PICK i \in Frames(g)' : SeqAt(g, i)' = s
                BY <4>1
            <4>3. g \in Left /\ i \in Frames(g) /\ SeqAt(g, i) = s
                BY <4>2, <1>8
            <4>4. CASE g \in present
                BY <4>3, <4>4, <3>6 DEF Has
            <4>5. CASE g \in lingers
                <5>1. SeqAt(e, 1) < SeqAt(g, i)
                    BY <4>3, <4>5, <3>2, <3>3, <3>4 DEF OrderInv
                <5> QED
                    BY <5>1, <4>3, <3>5, <3>7
            <4> QED
                BY <4>3, <4>4, <4>5 DEF Left
        <3>9. Gap(e)'
            <4>1. s \in covered'..(SeqAt(e, 1)' - 1)
                BY <3>5, <3>6, <1>3
            <4> QED
                BY <4>1, <3>3, <3>4, <3>8 DEF Gap
        <3>10. ASSUME NEW f \in present', Gap(f)' PROVE e <= f
            <4>1. /\ f \in Left /\ 1 \in Frames(f) /\ SeqAt(f, 1) \in Nat
                  /\ \E t \in Nat : covered <= t /\ t < SeqAt(f, 1) /\ ~Has(t)'
                BY <3>10, <1>18
            <4>2. PICK t \in Nat : covered <= t /\ t < SeqAt(f, 1) /\ ~Has(t)'
                BY <4>1
            <4>3. ~Has(t)
                BY <4>2, <2>3
            <4>4. CASE f \in lingers
                BY <4>4, <3>2, <3>3, <4>1, <1>7
            <4>5. CASE f \in present /\ f # e
                <5>1. SeqAt(f, 1) < from /\ from \in Nat
                    BY <4>1, <4>5, <3>2, WalAssumption DEF TypeOK, Seqno
                <5>2. t \in covered..(from - 1)
                    BY <5>1, <4>1, <4>2, <1>16
                <5> QED
                    BY <5>2, <4>3, <1>20 DEF ReplayInv
            <4>6. CASE f = e
                BY <4>6, <3>3
            <4> QED
                BY <4>1, <4>4, <4>5, <4>6 DEF Left
        <3>11. \A f \in present' : Gap(f)' =>
                   \E x \in present' : x <= f /\ Gap(x)' /\ hdr'[x] = "loose"
            BY <3>3, <3>9, <3>10
        <3> QED
            BY <2>4, <3>11, <1>1, <1>4 DEF DownInv, Power
    <2>7. CASE ~(\E e \in present : Ended(e))
        <3>1. lingers = {} /\ present' = present
            BY <2>2, <2>7, <1>1, <1>4, <1>20 DEF DownInv, Left
        <3>2. \A s : Has(s)' => Has(s)
            <4> SUFFICES ASSUME NEW s, Has(s)' PROVE Has(s)
                OBVIOUS
            <4>1. PICK g \in present' : \E i \in Frames(g)' : SeqAt(g, i)' = s
                BY DEF Has
            <4>2. PICK i \in Frames(g)' : SeqAt(g, i)' = s
                BY <4>1
            <4> QED
                BY <4>2, <3>1, <1>8 DEF Has
        <3>3. ASSUME NEW f \in present', Gap(f)' PROVE Gap(f)
            <4>1. /\ f \in Left /\ 1 \in Frames(f) /\ SeqAt(f, 1) \in Nat /\ frames[f] # <<>>
                  /\ \E t \in Nat : covered <= t /\ t < SeqAt(f, 1) /\ ~Has(t)'
                BY <3>3, <1>18
            <4>2. PICK t \in Nat : covered <= t /\ t < SeqAt(f, 1) /\ ~Has(t)'
                BY <4>1
            <4>3. t \in covered..(SeqAt(f, 1) - 1) /\ ~Has(t)
                BY <4>1, <4>2, <2>3, <1>16
            <4> QED
                BY <4>1, <4>3, <3>1 DEF Gap
        <3>4. ASSUME NEW f \in present, Gap(f) PROVE Gap(f)'
            <4>1. frames'[f] = frames[f] /\ SeqAt(f, 1)' = SeqAt(f, 1)
                BY <3>4, <2>5 DEF SeqAt
            <4> QED
                BY <4>1, <3>1, <3>2, <3>4, <1>3 DEF Gap
        <3>5. ASSUME NEW f \in present', Gap(f)'
              PROVE  \E x \in present' : x <= f /\ Gap(x)' /\ hdr'[x] = "loose"
            <4>1. Gap(f) /\ f \in present
                BY <3>1, <3>3, <3>5
            <4>2. PICK x \in present : x <= f /\ Gap(x) /\ hdr[x] = "loose"
                BY <4>1, <1>20 DEF DownInv
            <4> QED
                BY <4>2, <3>1, <3>4, <2>5
        <3> QED
            BY <2>4, <3>5, <1>1, <1>4 DEF DownInv, Power
    <2> QED
        BY <2>6, <2>7
<1> QED
    BY <1>2, <1>3, <1>6, <1>9, <1>10, <1>11, <1>13, <1>14, <1>19, <1>20

-----------------------------------------------------------------------------
(* The open.                                                                  *)

LEMMA StepOpenStart ==
    ASSUME LogInv, OpenStart PROVE LogInv'
<1> USE DEF LogInv
<1>1. /\ phase = "down" /\ phase' = "replay" /\ todo' = present /\ valid' = 0
      /\ from' = covered /\ rec' = segLog
    BY DEF OpenStart
<1>2. UNCHANGED <<present, entered, lingers, spare, hdr, hdrs, frames, dur, old, covered, segLog,
                  pc, wid, seq, synced, closed, looseWals, unsynced, dirUnsynced, sealing,
                  retiring, due, hist, acked, next>>
    BY DEF OpenStart, names, bytes, store, live, queues, maint, ghost
<1>3. TypeOK' /\ FrameInv' /\ OrderInv' /\ OldInv' /\ HdrInv'
    <2>1. covered \in Nat /\ covered' >= covered /\ Left' \subseteq Left
        BY <1>2, WalAssumption DEF TypeOK, Seqno, Left
    <2> QED
        BY <2>1, <1>2, TypeOpenStart, ShrinkKeeps DEF HdrInv
<1>4. \A e : ~Ended(e)
    BY <1>1 DEF Ended
<1>5. \A s : Has(s)' = Has(s)
    BY <1>2 DEF Has, Frames, SeqAt
<1>6. \A f : Gap(f)' = Gap(f)
    BY <1>2, <1>5 DEF Gap, SeqAt
<1>7. DownInv'
    BY <1>1, <1>2, <1>4, <1>5, <1>6 DEF DownInv, Power
<1>8. AnchorInv'
    <2>1. PICK a \in present :
            /\ Begins(a, covered) /\ (Power => a \in entered) /\ LivesBelow(a)
            /\ (\A f \in due : f < a) /\ \A f \in lingers : f < a
        BY <1>4, Zenon DEF AnchorInv
    <2>2. Begins(a, covered)' /\ LivesBelow(a)'
        BY <2>1, <1>2 DEF Begins, LivesBelow, Left, Frames, SeqAt
    <2>3. /\ a \in present' /\ (Power => a \in entered') /\ (\A f \in due' : f < a)
          /\ \A f \in lingers' : f < a
        BY <2>1, <1>2
    <2> QED
        BY <2>2, <2>3, Zenon DEF AnchorInv, Power
<1>9. HistInv' /\ SealInv' /\ UpInv' /\ QueueInv' /\ PcInv' /\ RestInv' /\ NeverRefused' /\ KillInv'
    <2>1. sealing' = <<>>
        BY <1>1, <1>2 DEF RestInv
    <2> QED
        BY <2>1, <1>1, <1>2, QueueStands
        DEF HistInv, SealInv, UpInv, PcInv, RestInv, NeverRefused, KillInv
<1>10. ReplayInv'
    <2>1. covered \in Nat /\ covered <= covered /\ covered <= Len(hist) + 1
        BY WalAssumption DEF TypeOK, Seqno, HistInv
    <2>2. \A s \in covered..(covered - 1) : FALSE
        BY <2>1
    <2>3. segLog = SubSeq(hist, 1, covered - 1)
        BY DEF HistInv
    <2> QED
        BY <2>1, <2>2, <2>3, <1>1, <1>2 DEF ReplayInv
<1>11. DurInv'
    BY <1>1, <1>2 DEF DurInv, WholeFile
<1> QED
    BY <1>3, <1>7, <1>8, <1>9, <1>10, <1>11

\* A replay that ends the log at the next file.
LEMMA ReplayEnds ==
    ASSUME LogInv, phase = "replay", todo # {}, NEW f \in present, f = Min(todo),
           \A g \in todo : f <= g, f \in todo,
           Gap(f), hdr[f] = "loose", ~Has(from), frames[f] # <<>>, from < SeqAt(f, 1),
           present' = {g \in present : g <= f}, entered' = entered \cap present',
           lingers' = lingers \cup (present \ present'), todo' = {}, valid' = 0,
           UNCHANGED <<from, rec, phase, spare, bytes, store, pc, why, live, queues, maint,
                       ghost, fails>>
    PROVE  LogInv'
<1> USE DEF LogInv
<1>1. UNCHANGED <<spare, hdr, hdrs, frames, dur, old, covered, segLog, pc, wid, seq, synced,
                  closed, looseWals, unsynced, dirUnsynced, sealing, retiring, due, hist,
                  acked, next, from, rec, phase>>
    BY DEF bytes, store, live, queues, maint, ghost
<1>2. /\ covered \in Nat /\ from \in Nat /\ acked \in Nat /\ Len(hist) \in Nat
      /\ covered <= from
    BY WalAssumption DEF TypeOK, Seqno, ReplayInv
<1>3. \A g \in Left : g \in File /\ g \in Nat
    BY DEF TypeOK, Left, File
<1>4. f \in Left /\ f \in Nat /\ f <= f /\ 1 \in Frames(f) /\ SeqAt(f, 1) \in Nat
    <2>1. f \in Left /\ f \in File /\ f \in Nat
        BY <1>3 DEF Left
    <2>2. 1 \in Frames(f)
        BY <2>1, FrameShape DEF Frames
    <2> QED
        BY <2>1, <2>2, FrameFacts
<1>5. Left' = Left /\ f \in present' /\ present' \subseteq present
    BY <1>4 DEF Left
<1>6. Power
    BY NoGap DEF DownInv
<1>7. \A e : ~Ended(e)
    BY DEF Ended
<1>8. lingers = {}
    BY <1>6, <1>7 DEF DownInv
<1>9. TypeOK'
    <2>1. present' \subseteq File /\ entered' \subseteq File /\ lingers' \subseteq File
        BY <1>5 DEF TypeOK
    <2>2. todo' \subseteq File /\ valid' \in Nat
        OBVIOUS
    <2> QED
        BY <2>1, <2>2 DEF TypeOK, bytes, store, live, queues, maint, ghost
<1>10. FrameInv' /\ OrderInv' /\ OldInv' /\ HdrInv'
    <2>1. covered' \in Nat /\ covered' >= covered /\ Left' \subseteq Left
        BY <1>1, <1>2, <1>5
    <2> QED
        BY <2>1, <1>1, <1>5, ShrinkKeeps DEF HdrInv
<1>11. \A s : Has(s)' => Has(s)
    BY <1>1, <1>5 DEF Has, Frames, SeqAt
<1>12. \A s \in covered..(from - 1) : Has(s)'
    <2> TAKE s \in covered..(from - 1)
    <2>1. s \in Nat /\ s < from
        BY <1>2
    <2>2. Has(s)
        BY DEF ReplayInv
    <2>3. PICK g \in present : \E i \in Frames(g) : SeqAt(g, i) = s
        BY <2>2 DEF Has
    <2>4. PICK i \in Frames(g) : SeqAt(g, i) = s
        BY <2>3
    <2>5. g \in Left /\ g \in Nat
        BY <1>3 DEF Left
    <2>6. CASE g <= f
        BY <2>4, <2>6, <1>1 DEF Has, Frames, SeqAt
    <2>7. CASE f < g
        <3>1. SeqAt(f, 1) < SeqAt(g, i)
            BY <2>5, <2>7, <1>4 DEF OrderInv
        <3> QED
            BY <3>1, <2>1, <2>4, <1>2, <1>4
    <2> QED
        BY <2>5, <2>6, <2>7, <1>4
<1>13. acked < from
    <2> SUFFICES ASSUME from <= acked PROVE FALSE
        BY <1>2
    <2>1. from \in covered..acked
        BY <1>2
    <2> QED
        BY <2>1 DEF DownInv
<1>14. \A g \in present' \ {f} : g \in present \ todo /\ \A i \in Frames(g) : SeqAt(g, i) < from
    <2> TAKE g \in present' \ {f}
    <2>1. g \in present /\ g <= f /\ g # f /\ g \in Nat
        BY <1>3, <1>5 DEF Left
    <2>2. g \notin todo
        BY <2>1, <1>4
    <2> QED
        BY <2>1, <2>2, <1>7 DEF ReplayInv
<1>15. Gap(f)'
    <2>1. PICK s \in covered..(SeqAt(f, 1) - 1) : ~Has(s)
        BY DEF Gap
    <2>2. s \in covered'..(SeqAt(f, 1)' - 1) /\ ~Has(s)' /\ frames'[f] # <<>>
        BY <2>1, <1>1, <1>11 DEF SeqAt
    <2> QED
        BY <2>2, <1>5 DEF Gap
<1>16. Ended(f)'
    <2>1. \A g \in present' : g <= f
        OBVIOUS
    <2>2. \A g \in lingers' : f < g
        <3> TAKE g \in lingers'
        <3>1. g \in present /\ ~(g <= f)
            BY <1>8
        <3>2. g \in Nat
            BY <3>1, <1>3 DEF Left
        <3> QED
            BY <3>1, <3>2, <1>4
    <2>3. \A g \in present' \ {f} : \A i \in Frames(g)' : SeqAt(g, i)' < from'
        BY <1>1, <1>14 DEF Frames, SeqAt
    <2>4. acked' < from' /\ phase' = "replay" /\ hdr'[f] = "loose"
        BY <1>1, <1>13
    <2> QED
        BY <2>1, <2>2, <2>3, <2>4, <1>5, <1>15 DEF Ended
<1>17. AnchorInv'
    <2>1. PICK a \in present :
            /\ Begins(a, covered) /\ (Power => a \in entered) /\ LivesBelow(a)
            /\ (\A g \in due : g < a)
        BY Zenon DEF AnchorInv
    <2>2. a <= f /\ a \in Nat
        <3>1. a \in Nat
            BY <1>3 DEF Left
        <3>2. CASE f < a
            <4>1. SeqAt(f, 1) < covered
                BY <2>1, <3>2, <1>4 DEF Begins
            <4> QED
                BY <4>1, <1>2, <1>4
        <3> QED
            BY <3>1, <3>2, <1>4
    <2>3. a \in present' /\ (Power => a \in entered')
        BY <2>1, <2>2
    <2>4. Begins(a, covered)'
        <3>1. PICK s : s = covered
            OBVIOUS
        <3>2. Begins(a, s)'
            BY <2>1, <2>3, <3>1, <1>1, <1>5, BeginsKeeps
        <3> QED
            BY <3>1, <3>2, <1>1 DEF Begins
    <2>5. LivesBelow(a)' /\ \A g \in due' : g < a
        BY <2>1, <1>1 DEF LivesBelow
    <2> QED
        BY <2>3, <2>4, <2>5, <1>5, <1>16, Zenon DEF AnchorInv, Power
<1>18. HistInv' /\ SealInv' /\ UpInv' /\ QueueInv' /\ PcInv' /\ RestInv' /\ NeverRefused' /\ KillInv'
    <2>1. sealing = <<>> /\ closed = {} /\ retiring = {} /\ due = {} /\ pc = "idle"
        BY DEF RestInv
    <2>2. QueueInv'
        BY <2>1, <1>1 DEF QueueInv
    <2> QED
        BY <2>1, <2>2, <1>1
        DEF HistInv, SealInv, UpInv, PcInv, RestInv, NeverRefused, KillInv
<1>19. DownInv'
    <2>1. ASSUME NEW g \in present', Gap(g)' PROVE g = f
        <3> SUFFICES ASSUME g # f PROVE FALSE
            OBVIOUS
        <3>1. frames[g] # <<>> /\ g \in Left
            BY <2>1, <1>1, <1>5 DEF Gap, Left
        <3>2. 1 \in Frames(g)
            BY <3>1, <1>3, FrameShape DEF Frames
        <3>3. SeqAt(g, 1) < from /\ SeqAt(g, 1) \in Nat
            BY <3>1, <3>2, <1>14, FrameFacts
        <3>4. PICK s \in covered'..(SeqAt(g, 1)' - 1) : ~Has(s)'
            BY <2>1 DEF Gap
        <3>5. s \in covered..(SeqAt(g, 1) - 1)
            BY <3>4, <1>1 DEF SeqAt
        <3>6. s \in covered..(from - 1)
            BY <3>3, <3>5, <1>2
        <3> QED
            BY <3>4, <3>6, <1>12
    <2>2. \A g \in present' : Gap(g)' => \E e \in present' : e <= g /\ Gap(e)' /\ hdr'[e] = "loose"
        BY <2>1, <1>1, <1>4, <1>5, <1>15
    <2>3. \A s \in covered'..acked' : Has(s)'
        BY <1>1, <1>2, <1>12, <1>13
    <2> QED
        BY <2>2, <2>3, <1>5, <1>6, <1>16 DEF DownInv, Power
<1>20. ReplayInv'
    BY <1>1, <1>5, <1>12, <1>16 DEF ReplayInv
<1>21. DurInv'
    BY <1>1, <1>5 DEF DurInv, WholeFile
<1> QED
    BY <1>9, <1>10, <1>17, <1>18, <1>19, <1>20, <1>21

LEMMA JoinedAt ==
    ASSUME NEW S, NEW x \in Seq(S), NEW y \in Seq(S)
    PROVE  /\ x \o y \in Seq(S) /\ Len(x \o y) = Len(x) + Len(y)
           /\ \A i \in 1..(Len(x) + Len(y)) :
                 (x \o y)[i] = IF i <= Len(x) THEN x[i] ELSE y[i - Len(x)]
OBVIOUS

LEMMA PrefixGrows ==
    ASSUME NEW S, NEW h \in Seq(S), NEW p \in Nat, NEW c \in Nat, p + c <= Len(h),
           NEW y \in Seq(S), Len(y) = c, \A n \in 1..c : y[n] = h[p + n]
    PROVE  SubSeq(h, 1, p) \o y = SubSeq(h, 1, p + c)
<1>0. PICK x : x = SubSeq(h, 1, p)
    OBVIOUS
<1>1. PICK m \in Nat : m = p + c /\ m <= Len(h) /\ p <= Len(h)
    OBVIOUS
<1>2. x \in Seq(S) /\ Len(x) = p /\ \A i \in 1..p : x[i] = h[i]
    BY <1>0, <1>1
<1>3. PICK z : z = SubSeq(h, 1, m)
    OBVIOUS
<1>4. z \in Seq(S) /\ Len(z) = m /\ \A i \in 1..m : z[i] = h[i]
    BY <1>1, <1>3
<1>5. PICK w : w = x \o y
    OBVIOUS
<1>6. /\ w \in Seq(S) /\ Len(w) = Len(x) + Len(y)
      /\ \A i \in 1..(Len(x) + Len(y)) : w[i] = IF i <= Len(x) THEN x[i] ELSE y[i - Len(x)]
    <2>1. x \in Seq(S) /\ y \in Seq(S)
        BY <1>2
    <2>2. /\ x \o y \in Seq(S) /\ Len(x \o y) = Len(x) + Len(y)
          /\ \A i \in 1..(Len(x) + Len(y)) :
                 (x \o y)[i] = IF i <= Len(x) THEN x[i] ELSE y[i - Len(x)]
        BY ONLY <2>1, JoinedAt
    <2> QED
        BY ONLY <2>2, <1>5
<1>l. Len(x) + Len(y) = m /\ Len(x) = p
    BY <1>1, <1>2
<1>7. Len(w) = m /\ \A i \in 1..m : w[i] = IF i <= p THEN x[i] ELSE y[i - p]
    BY <1>6, <1>l
<1>8. \A i \in 1..m : w[i] = h[i]
    <2> TAKE i \in 1..m
    <2>1. CASE i <= p
        BY <2>1, <1>2, <1>7
    <2>2. CASE ~(i <= p)
        <3>1. i - p \in 1..c /\ p + (i - p) = i
            BY <2>2, <1>1
        <3>2. y[i - p] = h[p + (i - p)]
            BY <3>1
        <3> QED
            BY <2>2, <3>1, <3>2, <1>7
    <2> QED
        BY <2>1, <2>2
<1>9. w = z
    <2>1. w \in Seq(S) /\ z \in Seq(S) /\ Len(w) = Len(z)
        BY <1>4, <1>6, <1>7
    <2>2. \A i \in 1..Len(w) : w[i] = z[i]
        BY <1>4, <1>7, <1>8
    <2> QED
        BY ONLY <2>1, <2>2
<1> QED
    BY <1>0, <1>1, <1>3, <1>5, <1>9

\* A replay that runs on through the next file.
LEMMA ReplayRuns ==
    ASSUME LogInv, phase = "replay", todo # {}, NEW f \in present, f \in Nat,
           f \in todo, \A g \in todo : f <= g, NEW c \in Nat,
           from + c <= Len(hist) + 1,
           \A i \in Frames(f) : SeqAt(f, i) < from + c,
           \A s \in from..(from + c - 1) :
               (\E i \in Frames(f) : SeqAt(f, i) = s) /\ BatchAt(f, s) = hist[s],
           todo' = todo \ {f}, valid' = Len(Readable(f)), from' = from + c,
           rec' = rec \o [n \in 1..c |-> BatchAt(f, from + n - 1)],
           UNCHANGED <<present, entered, lingers, phase, spare, bytes, store, pc, why, live,
                       queues, maint, ghost, fails>>
    PROVE  LogInv'
<1> USE DEF LogInv
<1>1. UNCHANGED <<present, entered, lingers, spare, hdr, hdrs, frames, dur, old, covered, segLog,
                  pc, wid, seq, synced, closed, looseWals, unsynced, dirUnsynced, sealing,
                  retiring, due, hist, acked, next, phase>>
    BY DEF bytes, store, live, queues, maint, ghost
<1>2. /\ covered \in Nat /\ from \in Nat /\ from >= 1 /\ Len(hist) \in Nat /\ covered <= from
      /\ from <= Len(hist) + 1 /\ hist \in Seq(Batch) /\ rec = SubSeq(hist, 1, from - 1)
    <2>1. covered \in Seqno /\ from \in Seqno /\ hist \in Seq(Batch) /\ Len(hist) \in Nat
        BY DEF TypeOK
    <2>2. covered \in Nat /\ from \in Nat /\ from >= 1
        BY <2>1, WalAssumption DEF Seqno
    <2>3. covered <= from /\ from <= Len(hist) + 1 /\ rec = SubSeq(hist, 1, from - 1)
        BY Zenon DEF ReplayInv
    <2> QED
        BY <2>1, <2>2, <2>3, Zenon
<1>3. valid' = Len(frames[f]) /\ Len(frames[f]) \in Nat /\ f \in Left
    BY ReadsItsOwn, FrameFacts DEF Left
\* What is recovered is the history up to the new `from'.
<1>4. rec' = SubSeq(hist, 1, from + c - 1)
    <2>1. PICK p \in Nat : p = from - 1
        BY <1>2
    <2>2. p + c <= Len(hist) /\ from + c - 1 = p + c
        BY <2>1, <1>2
    <2>4. PICK y : y = [n \in 1..c |-> BatchAt(f, from + n - 1)]
        OBVIOUS
    <2>5. \A n \in 1..c : y[n] = hist[p + n] /\ hist[p + n] \in Batch
        <3> TAKE n \in 1..c
        <3>1. from + n - 1 \in from..(from + c - 1) /\ from + n - 1 = p + n
            BY <2>1, <1>2
        <3>2. p + n \in 1..Len(hist)
            BY <2>1, <2>2, <1>2
        <3>3. y[n] = BatchAt(f, from + n - 1)
            BY <2>4
        <3>4. BatchAt(f, from + n - 1) = hist[p + n]
            BY <3>1
        <3> QED
            BY <3>2, <3>3, <3>4, <1>2
    <2>6. y \in Seq(Batch) /\ Len(y) = c
        <3>1. y \in [1..c -> Batch]
            BY <2>4, <2>5
        <3> QED
            BY <3>1
    <2>7. rec = SubSeq(hist, 1, p) /\ rec' = rec \o y
        BY <2>1, <2>4, <1>2
    <2>8. rec \o y = SubSeq(hist, 1, p + c)
        <3>1. \A n \in 1..c : y[n] = hist[p + n]
            BY <2>5
        <3>2. p \in Nat /\ c \in Nat /\ p + c <= Len(hist) /\ hist \in Seq(Batch)
            BY <2>2, <1>2
        <3>3. y \in Seq(Batch) /\ Len(y) = c /\ rec = SubSeq(hist, 1, p)
            BY <2>6, <2>7
        <3>4. SubSeq(hist, 1, p) \o y = SubSeq(hist, 1, p + c)
            BY ONLY <3>1, <3>2, <3>3, PrefixGrows, Zenon
        <3> QED
            BY <3>3, <3>4
    <2> QED
        BY <2>2, <2>7, <2>8
<1>5. TypeOK'
    <2>1. from' \in Seqno
        <3>1. next \in Nat /\ next <= MaxBatch + 1 /\ Len(hist) < next /\ MaxBatch \in Nat
            BY WalAssumption DEF TypeOK, HistInv
        <3>2. from + c >= 1 /\ from + c <= MaxBatch + 1
            BY <3>1, <1>2
        <3>3. from + c \in Int
            BY <1>2
        <3> QED
            BY <3>1, <3>2, <3>3 DEF Seqno
    <2>2. rec' \in Seq(Batch)
        <3>1. PICK m \in Nat : m = from + c - 1 /\ m <= Len(hist)
            BY <1>2
        <3>2. SubSeq(hist, 1, m) \in Seq(Batch)
            BY <3>1, <1>2
        <3> QED
            BY <3>1, <3>2, <1>4
    <2>3. todo' \subseteq File /\ valid' \in Nat
        BY <1>3 DEF TypeOK
    <2> QED
        BY <2>1, <2>2, <2>3 DEF TypeOK, bytes, store, live, queues, maint, ghost
<1>6. FrameInv' /\ OrderInv' /\ OldInv' /\ HdrInv'
    <2>1. covered' \in Nat /\ covered' >= covered /\ Left' \subseteq Left
        BY <1>1, <1>2 DEF Left
    <2> QED
        BY <2>1, <1>1, ShrinkKeeps DEF HdrInv
<1>7. \A e : ~Ended(e)
    BY DEF Ended
<1>8. \A s : Has(s)' = Has(s)
    BY <1>1 DEF Has, Frames, SeqAt
<1>9. \A g : Gap(g)' = Gap(g)
    BY <1>1, <1>8 DEF Gap, SeqAt
<1>10. DownInv'
    BY <1>1, <1>7, <1>8, <1>9 DEF DownInv, Power
<1>11. AnchorInv'
    <2>1. PICK a \in present :
            /\ Begins(a, covered) /\ (Power => a \in entered) /\ LivesBelow(a)
            /\ (\A g \in due : g < a) /\ \A g \in lingers : g < a
        BY <1>7, Zenon DEF AnchorInv
    <2>2. Begins(a, covered)' /\ LivesBelow(a)'
        BY <2>1, <1>1 DEF Begins, LivesBelow, Left, Frames, SeqAt
    <2>3. /\ a \in present' /\ (Power => a \in entered') /\ (\A g \in due' : g < a)
          /\ \A g \in lingers' : g < a
        BY <2>1, <1>1
    <2> QED
        BY <2>2, <2>3, Zenon DEF AnchorInv, Power
<1>12. HistInv' /\ SealInv' /\ UpInv' /\ QueueInv' /\ PcInv' /\ RestInv' /\ NeverRefused' /\ KillInv'
    <2>1. sealing' = <<>>
        BY <1>1 DEF RestInv
    <2> QED
        BY <2>1, <1>1, QueueStands
        DEF HistInv, SealInv, UpInv, PcInv, RestInv, NeverRefused, KillInv
<1>13. ReplayInv'
    <2>1. \A g \in present : g \in Nat
        BY DEF TypeOK, File
    <2>2. /\ todo \subseteq present
          /\ \A x \in todo, g \in present \ todo : g < x
          /\ \A s \in covered..(from - 1) : Has(s)
          /\ \A g \in present \ todo : \A i \in Frames(g) : SeqAt(g, i) < from
        BY <1>7 DEF ReplayInv
    <2>3. \A x \in todo', g \in present \ todo' : g < x
        <3> TAKE x \in todo', g \in present \ todo'
        <3>1. x \in todo /\ x # f /\ f <= x /\ x \in Nat
            BY <2>1, <2>2
        <3>2. CASE g = f
            BY <3>1, <3>2
        <3>3. CASE g \in present \ todo
            BY <3>1, <3>3, <2>2
        <3> QED
            BY <3>2, <3>3
    <2>4. ASSUME NEW s \in covered..(from + c - 1) PROVE Has(s)
        <3>1. s \in covered..(from - 1) \/ s \in from..(from + c - 1)
            BY <1>2
        <3>2. CASE s \in from..(from + c - 1)
            BY <3>2 DEF Has
        <3> QED
            BY <3>1, <3>2, <2>2
    <2>5. \A g \in present \ todo' : \A i \in Frames(g) : SeqAt(g, i) < from + c
        <3> TAKE g \in present \ todo'
        <3> TAKE i \in Frames(g)
        <3>1. CASE g = f
            BY <3>1
        <3>2. CASE g \in present \ todo
            <4>1. SeqAt(g, i) < from /\ SeqAt(g, i) \in Nat
                BY <3>2, <2>2, FrameFacts DEF Left
            <4> QED
                BY <4>1, <1>2
        <3> QED
            BY <3>1, <3>2
    <2>6. ASSUME NEW m \in present \ todo', \A g \in present \ todo' : g <= m
          PROVE  valid' = Len(frames[m])
        <3>1. f <= m /\ m \in Nat
            BY <2>1, <2>6
        <3>2. CASE m # f
            <4>1. m \in present \ todo
                BY <3>2
            <4>2. m < f
                BY <4>1, <2>2
            <4> QED
                BY <4>2, <3>1
        <3> QED
            BY <3>2, <1>3
    <2>7. todo' \subseteq present' /\ covered' <= from' /\ from' <= Len(hist') + 1
        BY <2>2, <1>1, <1>2
    <2>e. hist' = hist /\ covered' = covered /\ from' - 1 = from + c - 1
        BY <1>1, <1>2
    <2>8. rec' = SubSeq(hist', 1, from' - 1)
        BY <2>e, <1>4, Zenon
    <2>9. \A s \in covered'..(from' - 1) : Has(s)'
        BY <2>4, <2>e, <1>8, Zenon
    <2>10. \A g \in present' \ todo' : \A i \in Frames(g)' : SeqAt(g, i)' < from'
        BY <2>5, <1>1 DEF Frames, SeqAt
    <2>11. \A m \in present' \ todo' : (\A g \in present' \ todo' : g <= m) => valid' = Len(frames'[m])
        BY <2>6, <1>1
    <2>12. \A x \in todo', g \in present' \ todo' : g < x
        BY <2>3, <1>1
    <2> QED
        BY <2>7, <2>8, <2>9, <2>10, <2>11, <2>12 DEF ReplayInv
<1>14. DurInv'
    BY <1>1 DEF DurInv, WholeFile
<1> QED
    BY <1>5, <1>6, <1>10, <1>11, <1>12, <1>13, <1>14

LEMMA StepReplayFile ==
    ASSUME LogInv, ReplayFile PROVE LogInv'
<1> USE DEF LogInv
<1>1. PICK f : f = Min(todo)
    OBVIOUS
<1>2. phase = "replay" /\ todo # {}
    BY Zenon DEF ReplayFile
<1>3. UNCHANGED <<spare, bytes, store, pc, why, live, queues, maint, ghost, fails>>
    BY Zenon DEF ReplayFile
<1>4. \/ /\ EndsAt(f)
         /\ present' = {g \in present : g <= f}
         /\ entered' = entered \cap present'
         /\ lingers' = lingers \cup (present \ present')
         /\ todo' = {} /\ valid' = 0
         /\ UNCHANGED <<from, rec, phase>>
      \/ /\ ~EndsAt(f) /\ Continuous(f)
         /\ todo' = todo \ {f}
         /\ valid' = Len(Readable(f))
         /\ from' = from + Cardinality(Applied(f))
         /\ rec' = rec \o [n \in 1..Cardinality(Applied(f)) |-> BatchAt(f, from + n - 1)]
         /\ UNCHANGED <<present, entered, lingers, phase>>
      \/ ~EndsAt(f) /\ ~Continuous(f)
    BY <1>1, Zenon DEF ReplayFile
<1>5. /\ f \in todo /\ f \in present /\ f \in Nat /\ \A g \in todo : f <= g
      /\ \/ /\ EndsAt(f) /\ Gap(f) /\ hdr[f] = "loose" /\ ~Has(from)
            /\ frames[f] # <<>> /\ from < SeqAt(f, 1)
         \/ /\ ~EndsAt(f) /\ Continuous(f)
            /\ \E c \in Nat :
                 /\ Cardinality(Applied(f)) = c /\ from + c <= Len(hist) + 1
                 /\ \A i \in Frames(f) : SeqAt(f, i) < from + c
                 /\ \A s \in from..(from + c - 1) :
                       /\ \E i \in Frames(f) : SeqAt(f, i) = s
                       /\ BatchAt(f, s) = hist[s]
    BY <1>1, <1>2, ReplayCases
<1>6. CASE EndsAt(f)
    <2>1. /\ Gap(f) /\ hdr[f] = "loose" /\ ~Has(from) /\ frames[f] # <<>> /\ from < SeqAt(f, 1)
        BY <1>5, <1>6, Zenon
    <2>2. /\ present' = {g \in present : g <= f}
          /\ entered' = entered \cap present'
          /\ lingers' = lingers \cup (present \ present')
          /\ todo' = {} /\ valid' = 0
          /\ UNCHANGED <<from, rec, phase>>
        BY <1>4, <1>6, Zenon
    <2> QED
        BY <2>1, <2>2, <1>1, <1>2, <1>3, <1>5, ReplayEnds, Zenon
<1>7. CASE ~EndsAt(f)
    <2>1. PICK c \in Nat :
                 /\ Cardinality(Applied(f)) = c /\ from + c <= Len(hist) + 1
                 /\ \A i \in Frames(f) : SeqAt(f, i) < from + c
                 /\ \A s \in from..(from + c - 1) :
                       /\ \E i \in Frames(f) : SeqAt(f, i) = s
                       /\ BatchAt(f, s) = hist[s]
        BY <1>5, <1>7, Zenon
    <2>2. /\ todo' = todo \ {f} /\ valid' = Len(Readable(f))
          /\ from' = from + c
          /\ rec' = rec \o [n \in 1..c |-> BatchAt(f, from + n - 1)]
          /\ UNCHANGED <<present, entered, lingers, phase>>
        BY <2>1, <1>4, <1>5, <1>7
    <2> QED
        BY <2>1, <2>2, <1>2, <1>3, <1>5, ReplayRuns, Zenon
<1> QED
    BY <1>6, <1>7

\* The end of Db::open, with its local names.
LEMMA OpenEndParts ==
    ASSUME LogInv, OpenEnd
    PROVE  \E f \in present :
             /\ phase = "replay" /\ todo = {} /\ phase' = "up" /\ f \in File
             /\ f \in Nat /\ \A g \in present : g <= f
             /\ present' = present /\ wid' = f /\ synced' = valid
             /\ retiring' = present \ {f} /\ seq' = from /\ hist' = rec
             /\ frames'[f] = SubSeq(Visible(f), 1, valid) /\ old'[f] = <<>>
             /\ \A g \in File : g # f =>
                   /\ frames'[g] = frames[g] /\ old'[g] = old[g] /\ dur'[g] = dur[g]
                   /\ hdr'[g] = hdr[g] /\ hdrs'[g] = hdrs[g]
             /\ dur'[f] = valid \/ dur'[f] = dur[f]
             /\ Len(Visible(f)) > valid => dur'[f] = valid /\ lingers' = {}
             /\ lingers' = {} \/ lingers' = lingers
             /\ hdr'[f] # "none" /\ hdr'[f] \in hdrs'[f]
             /\ hdr' \in [File -> Kind] /\ hdrs' \in [File -> SUBSET Kind]
             /\ frames' \in [File -> Seq(Frame)] /\ old' \in [File -> Seq(Frame)]
             /\ dur' \in [File -> Nat] /\ loose' \in BOOLEAN
             /\ UNCHANGED <<entered, spare, store, pc, why, queues, sealing, due, replay,
                            acked, next, fails>>
<1> USE DEF LogInv
<1> DEFINE f == Max(present)
           K == IF hdr[f] = "none" THEN "chained" ELSE hdr[f]
           H == IF hdr[f] = "none" THEN {K, "none"}
                ELSE IF Len(Visible(f)) > valid THEN {K} ELSE hdrs[f]
           D == IF Len(Visible(f)) > valid THEN valid ELSE dur[f]
           F == SubSeq(Visible(f), 1, valid)
<1>1. present # {} /\ present \in SUBSET (0..MaxFile) /\ MaxFile \in Nat
    BY WalAssumption DEF AnchorInv, TypeOK, File
<1>2. f \in present /\ \A g \in present : g <= f
    BY <1>1, MaxOf, Zenon
<1>3. f \in File /\ f \in Nat /\ f \in Left
    <2>1. \A g \in present : g \in File /\ g \in Nat /\ g \in Left
        BY DEF TypeOK, File, Left
    <2> QED
        BY <2>1, <1>2, Zenon
<1>4. /\ phase = "replay" /\ todo = {} /\ phase' = "up" /\ seq' = from /\ hist' = rec
      /\ UNCHANGED <<entered, spare, store, pc, why, queues, sealing, due, replay,
                     acked, next, fails>>
    BY Zenon DEF OpenEnd
<1>5. /\ present' = present \cup {f}
      /\ frames' = [frames EXCEPT ![f] = F]
      /\ old' = [old EXCEPT ![f] = <<>>]
      /\ dur' = [dur EXCEPT ![f] = D]
      /\ hdr' = [hdr EXCEPT ![f] = K]
      /\ hdrs' = [hdrs EXCEPT ![f] = H]
      /\ wid' = f /\ synced' = valid
      /\ retiring' = present \ {f}
    <2>1. f = IF present = {} THEN 0 ELSE Max(present)
        BY <1>1
    <2> QED
        BY <2>1, <1>1, Zenon DEF OpenEnd
<1>6. loose' \in BOOLEAN
    <2>1. loose' = (K = "loose")
        BY <1>1, Zenon DEF OpenEnd
    <2> QED
        BY <2>1
<1>7. /\ Len(Visible(f)) > valid => lingers' = {}
      /\ lingers' = {} \/ lingers' = lingers
    <2>1. IF Len(Visible(f)) > valid THEN lingers' = {} ELSE lingers' = lingers
        BY <1>1, Zenon DEF OpenEnd, UnlinksReached
    <2> QED
        BY <2>1
<1>8. F \in Seq(Frame)
    <2>1. PICK v \in Seq(Frame) : v = Visible(f)
        BY <1>2, ReadsItsOwn
    <2>2. valid \in Nat /\ valid <= Len(v)
        <3>1. CASE \E e \in present : Ended(e)
            BY <3>1 DEF Ended
        <3>2. CASE ~\E e \in present : Ended(e)
            <4>1. valid = Len(frames[f])
                BY <3>2, <1>2, <1>4 DEF ReplayInv
            <4> QED
                BY <4>1, <2>1, <1>2, <1>3, ReadsItsOwn, FrameFacts
        <3> QED
            BY <3>1, <3>2
    <2>3. SubSeq(v, 1, valid) \in Seq(Frame)
        BY <2>2
    <2> QED
        BY <2>1, <2>3
<1>9. D \in Nat /\ (D = valid \/ D = dur[f]) /\ (Len(Visible(f)) > valid => D = valid)
    BY <1>3 DEF TypeOK
<1>10. K \in Kind /\ K # "none"
    <2>1. hdr[f] \in Kind
        BY <1>3 DEF TypeOK
    <2> QED
        BY <2>1 DEF Kind
<1>11. H \in SUBSET Kind /\ K \in H
    <2>1. hdrs[f] \in SUBSET Kind /\ "none" \in Kind /\ hdr[f] \in hdrs[f]
        BY <1>2, <1>3 DEF TypeOK, HdrInv, Kind
    <2> QED
        BY <2>1, <1>10
<1>e. f = Max(present)
    OBVIOUS
<1>s. F = SubSeq(Visible(f), 1, valid)
    OBVIOUS
<1> HIDE DEF f, K, H, D, F
<1>12. present' = present
    BY <1>2, <1>5
<1>13. frames' \in [File -> Seq(Frame)] /\ frames'[f] = F /\ \A g \in File : g # f => frames'[g] = frames[g]
    BY <1>3, <1>5, <1>8 DEF TypeOK
<1>14. old' \in [File -> Seq(Frame)] /\ old'[f] = <<>> /\ \A g \in File : g # f => old'[g] = old[g]
    <2>1. <<>> \in Seq(Frame)
        OBVIOUS
    <2> QED
        BY <2>1, <1>3, <1>5 DEF TypeOK
<1>15. dur' \in [File -> Nat] /\ dur'[f] = D /\ \A g \in File : g # f => dur'[g] = dur[g]
    BY <1>3, <1>5, <1>9 DEF TypeOK
<1>16. hdr' \in [File -> Kind] /\ hdr'[f] = K /\ \A g \in File : g # f => hdr'[g] = hdr[g]
    BY <1>3, <1>5, <1>10 DEF TypeOK
<1>17. hdrs' \in [File -> SUBSET Kind] /\ hdrs'[f] = H /\ \A g \in File : g # f => hdrs'[g] = hdrs[g]
    BY <1>3, <1>5, <1>11 DEF TypeOK
<1>18. /\ \A g \in File : g # f =>
                   /\ frames'[g] = frames[g] /\ old'[g] = old[g] /\ dur'[g] = dur[g]
                   /\ hdr'[g] = hdr[g] /\ hdrs'[g] = hdrs[g]
       /\ frames'[f] = SubSeq(Visible(f), 1, valid)
       /\ dur'[f] = valid \/ dur'[f] = dur[f]
       /\ Len(Visible(f)) > valid => dur'[f] = valid /\ lingers' = {}
       /\ hdr'[f] # "none" /\ hdr'[f] \in hdrs'[f]
    BY <1>7, <1>9, <1>10, <1>11, <1>13, <1>14, <1>15, <1>16, <1>17, <1>s, Zenon
<1> QED
    BY <1>2, <1>3, <1>4, <1>5, <1>6, <1>7, <1>12, <1>13, <1>14, <1>15, <1>16, <1>17, <1>18, Zenon

\* A failed store back up: the history is what was recovered.
LEMMA StepOpenEnd ==
    ASSUME LogInv, OpenEnd PROVE LogInv'
<1> USE DEF LogInv
<1>1. PICK f \in present :
             /\ phase = "replay" /\ todo = {} /\ phase' = "up" /\ f \in File
             /\ f \in Nat /\ \A g \in present : g <= f
             /\ present' = present /\ wid' = f /\ synced' = valid
             /\ retiring' = present \ {f} /\ seq' = from /\ hist' = rec
             /\ frames'[f] = SubSeq(Visible(f), 1, valid) /\ old'[f] = <<>>
             /\ \A g \in File : g # f =>
                   /\ frames'[g] = frames[g] /\ old'[g] = old[g] /\ dur'[g] = dur[g]
                   /\ hdr'[g] = hdr[g] /\ hdrs'[g] = hdrs[g]
             /\ dur'[f] = valid \/ dur'[f] = dur[f]
             /\ Len(Visible(f)) > valid => dur'[f] = valid /\ lingers' = {}
             /\ lingers' = {} \/ lingers' = lingers
             /\ hdr'[f] # "none" /\ hdr'[f] \in hdrs'[f]
             /\ hdr' \in [File -> Kind] /\ hdrs' \in [File -> SUBSET Kind]
             /\ frames' \in [File -> Seq(Frame)] /\ old' \in [File -> Seq(Frame)]
             /\ dur' \in [File -> Nat] /\ loose' \in BOOLEAN
             /\ UNCHANGED <<entered, spare, store, pc, why, queues, sealing, due, replay,
                            acked, next, fails>>
    BY OpenEndParts, Zenon
<1>2. UNCHANGED <<present, entered, spare, covered, segLog, pc, why, closed, looseWals, unsynced,
                  dirUnsynced, sealing, due, todo, valid, from, rec, acked, next, fails>>
    BY <1>1, Zenon DEF store, queues, replay
<1>3. /\ f \in present /\ f \in File /\ f \in Nat /\ f \in Left /\ phase = "replay" /\ phase' = "up"
      /\ \A g \in present : g <= f /\ g \in File /\ g \in Nat /\ g \in Left
    BY <1>1 DEF Left, TypeOK, File
<1>4. /\ covered \in Nat /\ from \in Nat /\ covered <= from /\ from <= Len(hist) + 1
      /\ from >= 1 /\ covered >= 1 /\ Len(hist) \in Nat /\ hist \in Seq(Batch) /\ acked \in Nat /\ valid \in Nat
      /\ rec = SubSeq(hist, 1, from - 1) /\ \A s \in covered..(from - 1) : Has(s)
    <2>1. covered \in Nat /\ from \in Nat /\ covered >= 1 /\ from >= 1
        BY WalAssumption DEF TypeOK, Seqno
    <2>2. hist \in Seq(Batch) /\ acked \in Nat /\ valid \in Nat
        BY Zenon DEF TypeOK
    <2>3. Len(hist) \in Nat
        BY <2>2
    <2>4. /\ covered <= from /\ from <= Len(hist) + 1
          /\ rec = SubSeq(hist, 1, from - 1) /\ \A s \in covered..(from - 1) : Has(s)
        BY <1>3, Zenon DEF ReplayInv
    <2> QED
        BY <2>1, <2>2, <2>3, <2>4, Zenon
<1>5. /\ Len(hist') = from - 1 /\ hist' \in Seq(Batch)
      /\ \A s \in 1..(from - 1) : hist'[s] = hist[s]
    <2>1. PICK p \in Nat : p = from - 1 /\ p <= Len(hist)
        BY <1>4
    <2>2. hist' = SubSeq(hist, 1, p)
        BY <2>1, <1>1, <1>4
    <2> QED
        BY <2>1, <2>2, <1>4
<1>6. sealing = <<>> /\ closed = {} /\ due = {} /\ pc = "idle" /\ looseWals = {} /\ unsynced = 0
      /\ dirUnsynced = FALSE
    BY <1>3 DEF RestInv
<1>7. PICK a \in present :
            /\ Begins(a, covered) /\ (Power => a \in entered) /\ LivesBelow(a)
            /\ (\A g \in lingers : g < a) \/ (\E e \in present : Ended(e))
    BY Zenon DEF AnchorInv
<1>8. Frames(f) = 1..Len(frames[f]) /\ Len(frames[f]) \in Nat
      /\ \A g \in Left : g \in File /\ g \in Nat /\ \A i \in Frames(g) : SeqAt(g, i) \in Nat /\ SeqAt(g, i) >= 1
    BY <1>3, FrameFacts DEF Frames
\* Either way, what is left of every file is what it had, up to `from'.
<1>9. /\ valid <= Len(frames[f]) /\ Len(frames'[f]) = valid
      /\ \A i \in 1..valid : frames'[f][i] = frames[f][i]
      /\ \A g \in lingers' : g < a
      /\ \A g \in present : \A i \in Frames(g) :
            g # f \/ i <= valid => SeqAt(g, i) < from
      /\ \A s \in covered..(from - 1) : \E g \in present : \E i \in Frames(g) :
            (g # f \/ i <= valid) /\ SeqAt(g, i) = s
      /\ acked < from
      /\ ~Power => from = Len(hist) + 1
      /\ Power => valid <= dur'[f] /\ dur'[f] = valid
    <2>0. /\ Visible(f) \in Seq(Frame) /\ Len(Visible(f)) >= Len(frames[f])
          /\ SubSeq(Visible(f), 1, Len(frames[f])) = frames[f]
          /\ SubSeq(Visible(f), 1, 0) = <<>>
        BY <1>3, ReadsItsOwn
    <2>1. CASE \E e \in present : Ended(e)
        <3>1. PICK e \in present : Ended(e)
            BY <2>1
        <3>2. e = f
            BY <3>1, <1>3 DEF Ended
        <3>3. /\ valid = 0 /\ Gap(f) /\ acked < from
              /\ \A g \in present \ {f} : \A i \in Frames(g) : SeqAt(g, i) < from
            BY <3>1, <3>2 DEF Ended
        <3>4. frames'[f] = <<>>
            BY <2>0, <3>3, <1>1
        <3>5. 1 \in Frames(f) /\ Len(frames[f]) >= 1
            BY <3>3, <1>3, <1>8, FrameShape DEF Gap
        <3>6. Len(Visible(f)) > valid
            <4>1. Len(Visible(f)) \in Nat
                BY <2>0
            <4> QED
                BY <4>1, <2>0, <3>3, <3>5, <1>8
        <3>7. lingers' = {} /\ dur'[f] = valid
            BY <3>6, <1>1
        <3>8. Power
            BY <3>3, <1>3, NoGap DEF DownInv
        <3>9. PICK s0 \in covered..(SeqAt(f, 1) - 1) : ~Has(s0)
            BY <3>3 DEF Gap
        <3>10. from < SeqAt(f, 1)
            <4>1. SeqAt(f, 1) \in Nat /\ s0 \in Nat /\ s0 < SeqAt(f, 1) /\ covered <= s0
                BY <3>5, <3>9, <1>3, <1>4, <1>8
            <4>2. ~(s0 \in covered..(from - 1))
                BY <3>9, <1>4
            <4> QED
                BY <4>1, <4>2, <1>4
        <3>11. ASSUME NEW s \in covered..(from - 1)
               PROVE  \E g \in present : \E i \in Frames(g) : (g # f \/ i <= valid) /\ SeqAt(g, i) = s
            <4>1. PICK g \in present : \E i \in Frames(g) : SeqAt(g, i) = s
                BY <1>4 DEF Has
            <4>2. PICK i \in Frames(g) : SeqAt(g, i) = s
                BY <4>1
            <4>3. CASE g = f
                <5>1. i \in Nat /\ i >= 1 /\ (1 < i => SeqAt(f, 1) < SeqAt(f, i))
                    BY <4>3, <3>5, <1>3, FrameFacts
                <5>2. SeqAt(f, 1) \in Nat /\ SeqAt(f, i) \in Nat
                    BY <4>3, <3>5, <1>3, <1>8
                <5>3. s < from
                    BY <1>4
                <5> QED
                    BY <5>1, <5>2, <5>3, <4>2, <4>3, <3>10, <1>4
            <4> QED
                BY <4>2, <4>3
        <3>12. \A g \in present : \A i \in Frames(g) : g # f \/ i <= valid => SeqAt(g, i) < from
            <4> TAKE g \in present
            <4> TAKE i \in Frames(g)
            <4>1. CASE g = f
                BY <4>1, <3>3, <1>8
            <4> QED
                BY <4>1, <3>3
        <3> QED
            BY <3>3, <3>4, <3>5, <3>7, <3>8, <3>11, <3>12, <1>8
    <2>2. CASE ~\E e \in present : Ended(e)
        <3>1. /\ \A g \in present : \A i \in Frames(g) : SeqAt(g, i) < from
              /\ valid = Len(frames[f])
            BY <2>2, <1>1, <1>3 DEF ReplayInv
        <3>2. frames'[f] = frames[f]
            BY <2>0, <3>1, <1>1
        <3>3. \A g \in lingers' : g < a
            BY <2>2, <1>1, <1>7
        <3>4. ~Has(from)
            BY <3>1, <1>3, <1>4, <1>8 DEF Has
        <3>5. acked < from
            <4>1. ~(from \in covered..acked)
                BY <3>4, <1>3 DEF DownInv
            <4> QED
                BY <4>1, <1>4
        <3>6. ~Power => from = Len(hist) + 1
            <4> SUFFICES ASSUME ~Power PROVE from = Len(hist) + 1
                OBVIOUS
            <4>1. ~(from \in covered..Len(hist))
                BY <3>4, <1>3 DEF DownInv
            <4> QED
                BY <4>1, <1>4
        <3>7. Power => dur[f] = Len(frames[f])
            BY <1>3 DEF DurInv, WholeFile
        <3>8. Power => dur'[f] = valid
            BY <3>1, <3>7, <1>1
        <3>9. ASSUME NEW s \in covered..(from - 1)
              PROVE  \E g \in present : \E i \in Frames(g) : (g # f \/ i <= valid) /\ SeqAt(g, i) = s
            <4>1. PICK g \in present : \E i \in Frames(g) : SeqAt(g, i) = s
                BY <1>4 DEF Has
            <4>2. PICK i \in Frames(g) : SeqAt(g, i) = s
                BY <4>1
            <4>3. g = f => i <= valid
                BY <3>1, <1>8
            <4> QED
                BY <4>2, <4>3
        <3> QED
            BY <3>1, <3>2, <3>3, <3>5, <3>6, <3>8, <3>9, <1>8
    <2> QED
        BY <2>1, <2>2
<1>10. Left' \subseteq Left /\ present' = present
    BY <1>1 DEF Left
<1>11. /\ Frames(f)' = 1..valid /\ \A g \in Left : g # f => Frames(g)' = Frames(g)
       /\ \A g \in Left : \A i \in Frames(g)' :
            /\ i \in Frames(g) /\ frames'[g][i] = frames[g][i] /\ SeqAt(g, i)' = SeqAt(g, i)
            /\ (g # f \/ i <= valid)
    <2>1. Frames(f)' = 1..valid
        BY <1>9 DEF Frames
    <2>2. \A g \in Left : g # f => frames'[g] = frames[g]
        BY <1>1, <1>8
    <2>3. \A i \in 1..valid : i \in Frames(f) /\ frames'[f][i] = frames[f][i] /\ i <= valid
        BY <1>4, <1>8, <1>9
    <2> QED
        BY <2>1, <2>2, <2>3 DEF Frames, SeqAt
<1>12. \A g \in Left' : \A i \in Frames(g)' : SeqAt(g, i) < from /\ SeqAt(g, i) \in 1..(from - 1)
    <2> TAKE g \in Left'
    <2> TAKE i \in Frames(g)'
    <2>1. g \in Left /\ i \in Frames(g) /\ (g # f \/ i <= valid) /\ SeqAt(g, i) \in Nat /\ SeqAt(g, i) >= 1
        BY <1>8, <1>10, <1>11
    <2>2. CASE g \in present
        BY <2>1, <2>2, <1>4, <1>9
    <2>3. CASE g \in lingers'
        <3>1. SeqAt(g, i) < covered
            BY <2>1, <2>3, <1>7, <1>9 DEF Begins
        <3> QED
            BY <3>1, <2>1, <1>4
    <2> QED
        BY <2>2, <2>3, <1>10 DEF Left
<1>13. TypeOK'
    <2>1. lingers' \subseteq File /\ retiring' \subseteq File /\ wid' \in File /\ synced' \in Nat
        BY <1>1, <1>4 DEF TypeOK
    <2>2. hist' \in Seq(Batch) /\ seq' \in Seqno
        BY <1>1, <1>5 DEF TypeOK
    <2>3. phase' \in {"up", "down", "replay", "refused"}
        BY <1>3
    <2> QED
        BY <2>1, <2>2, <2>3, <1>1, <1>2 DEF TypeOK
<1>14. FrameInv'
    <2> SUFFICES ASSUME NEW g \in Left', NEW i \in Frames(g)'
        PROVE /\ frames'[g][i].life = g
              /\ SeqAt(g, i)' <= Len(hist') /\ frames'[g][i].b = hist'[SeqAt(g, i)']
              /\ i > 1 /\ SeqAt(g, i)' > covered' => SeqAt(g, i)' = SeqAt(g, i - 1)' + 1
              /\ \A j \in Frames(g)' : i < j =>
                  /\ SeqAt(g, i)' < SeqAt(g, j)'
                  /\ SeqAt(g, i)' >= covered' => SeqAt(g, j)' = SeqAt(g, i)' + (j - i)
        BY Zenon DEF FrameInv
    <2>1. /\ g \in Left /\ i \in Frames(g) /\ frames'[g][i] = frames[g][i]
          /\ SeqAt(g, i)' = SeqAt(g, i)
        BY <1>10, <1>11
    <2>2. /\ frames[g][i].life = g
          /\ SeqAt(g, i) <= Len(hist) /\ frames[g][i].b = hist[SeqAt(g, i)]
          /\ i > 1 /\ SeqAt(g, i) > covered => SeqAt(g, i) = SeqAt(g, i - 1) + 1
          /\ \A j \in Frames(g) : i < j =>
              /\ SeqAt(g, i) < SeqAt(g, j)
              /\ SeqAt(g, i) >= covered => SeqAt(g, j) = SeqAt(g, i) + (j - i)
        BY <2>1, Zenon DEF FrameInv
    <2>3. i > 1 => SeqAt(g, i - 1)' = SeqAt(g, i - 1)
        <3> SUFFICES ASSUME i > 1 PROVE SeqAt(g, i - 1)' = SeqAt(g, i - 1)
            OBVIOUS
        <3>1. PICK m \in Nat : Frames(g)' = 1..m
            <4>1. g \in File /\ frames'[g] \in Seq(Frame)
                BY <2>1, <1>1, <1>8
            <4> QED
                BY <4>1 DEF Frames
        <3>2. i - 1 \in Frames(g)'
            BY <3>1
        <3> QED
            BY <3>2, <2>1, <1>11
    <2>4. \A j \in Frames(g)' : j \in Frames(g) /\ SeqAt(g, j)' = SeqAt(g, j)
        BY <2>1, <1>11
    <2>5. SeqAt(g, i) <= Len(hist') /\ hist'[SeqAt(g, i)] = hist[SeqAt(g, i)]
        <3>1. PICK q \in 1..(from - 1) : q = SeqAt(g, i)
            BY <1>12
        <3>2. q <= from - 1
            BY <1>4
        <3> QED
            BY <3>1, <3>2, <1>5
    <2> QED
        BY <2>1, <2>2, <2>3, <2>4, <2>5, <1>2
<1>15. OrderInv'
    <2> SUFFICES ASSUME NEW g \in Left', NEW h \in Left', g < h,
                        NEW i \in Frames(g)', NEW j \in Frames(h)'
                 PROVE  SeqAt(g, i)' < SeqAt(h, j)'
        BY DEF OrderInv
    <2> QED
        BY <1>10, <1>11 DEF OrderInv
<1>16. OldInv'
    <2>1. \A g \in Left' : g \in Left /\ (g # f => old'[g] = old[g])
        BY <1>1, <1>8, <1>10
    <2>2. DOMAIN old'[f] = {}
        BY <1>1
    <2> QED
        BY <2>1, <2>2 DEF OldInv
<1>17. HdrInv'
    BY <1>1, <1>3 DEF HdrInv
<1>18. AnchorInv'
    <2>1. Begins(a, covered)'
        <3>1. ASSUME NEW g \in Left', g < a, NEW i \in Frames(g)' PROVE SeqAt(g, i)' < covered
            BY <3>1, <1>7, <1>10, <1>11 DEF Begins
        <3>2. ASSUME frames'[a] # <<>> PROVE SeqAt(a, 1)' <= covered
            <4>1. a \in Left /\ frames'[a] \in Seq(Frame)
                BY <1>1, <1>3
            <4>2. 1 \in Frames(a)'
                BY <3>2, <4>1 DEF Frames
            <4>3. 1 \in Frames(a) /\ SeqAt(a, 1)' = SeqAt(a, 1)
                BY <4>1, <4>2, <1>11
            <4>4. frames[a] # <<>>
                BY <4>3 DEF Frames
            <4> QED
                BY <4>3, <4>4, <1>7 DEF Begins
        <3> QED
            BY <3>1, <3>2, <1>2 DEF Begins
    <2>2. LivesBelow(a)' /\ \A g \in due' : g < a
        BY <1>2, <1>6, <1>7 DEF LivesBelow
    <2>3. a \in present' /\ (Power => a \in entered') /\ \A g \in lingers' : g < a
        BY <1>2, <1>7, <1>9
    <2> QED
        BY <2>1, <2>2, <2>3, Zenon DEF AnchorInv, Power
<1>19. HistInv'
    <2>1. SubSeq(hist', 1, covered - 1) = SubSeq(hist, 1, covered - 1)
        <3>1. PICK k \in Nat : k = covered - 1 /\ k <= from - 1 /\ k <= Len(hist)
            BY <1>4
        <3>2. \A i \in 1..k : hist'[i] = hist[i]
            BY <1>4, <1>5, <3>1
        <3>3. PICK x : x = SubSeq(hist', 1, k)
            OBVIOUS
        <3>4. PICK y : y = SubSeq(hist, 1, k)
            OBVIOUS
        <3>5. x \in Seq(Batch) /\ Len(x) = k /\ \A i \in 1..k : x[i] = hist'[i]
            BY <3>1, <3>3, <1>5
        <3>6. y \in Seq(Batch) /\ Len(y) = k /\ \A i \in 1..k : y[i] = hist[i]
            BY <3>1, <3>4, <1>4
        <3>7. x = y
            <4>1. \A i \in 1..k : x[i] = y[i]
                BY <3>2, <3>5, <3>6
            <4> QED
                BY ONLY <4>1, <3>5, <3>6
        <3> QED
            BY <3>1, <3>3, <3>4, <3>7
    <2>2. segLog' = SubSeq(hist', 1, covered' - 1)
        BY <2>1, <1>2 DEF HistInv
    <2>3. covered' <= Len(hist') + 1 /\ acked' + unsynced' <= Len(hist') /\ Len(hist') < next'
        <3>1. next \in Nat /\ Len(hist) < next
            BY WalAssumption DEF HistInv, TypeOK
        <3> QED
            BY <3>1, <1>2, <1>4, <1>5, <1>6, <1>9
    <2> QED
        BY <2>2, <2>3 DEF HistInv
<1>20. SealInv' /\ QueueInv' /\ PcInv' /\ RestInv' /\ DownInv' /\ ReplayInv' /\ NeverRefused'
    BY <1>1, <1>2, <1>3, <1>6
    DEF SealInv, QueueInv, PcInv, RestInv, DownInv, ReplayInv, NeverRefused
<1>21. \A s \in covered..(from - 1) : \E g \in present : \E i \in Frames(g)' : SeqAt(g, i)' = s
    <2> TAKE s \in covered..(from - 1)
    <2>1. PICK g \in present : \E i \in Frames(g) : (g # f \/ i <= valid) /\ SeqAt(g, i) = s
        BY <1>9
    <2>2. PICK i \in Frames(g) : (g # f \/ i <= valid) /\ SeqAt(g, i) = s
        BY <2>1
    <2>3. i \in Frames(g)'
        BY <2>2, <1>3, <1>4, <1>8, <1>11
    <2> QED
        BY <2>2, <2>3, <1>3, <1>11
<1>22. UpInv'
    <2>1. wid' \in present' /\ (\A g \in present' : g <= wid') /\ hdr'[wid'] # "none"
        BY <1>1
    <2>2. seq' = Len(hist') + 1 /\ synced' <= Len(frames'[wid'])
        <3>1. wid' = f /\ synced' = valid /\ seq' = from
            BY <1>1, Zenon
        <3>2. Len(hist') = from - 1 /\ from \in Nat /\ from >= 1
            BY <1>4, <1>5, Zenon
        <3>3. seq' = Len(hist') + 1
            BY ONLY <3>1, <3>2
        <3>4. Len(frames'[f]) = valid /\ valid \in Nat
            BY <1>4, <1>9, Zenon
        <3>5. valid <= valid
            BY ONLY <3>4
        <3> QED
            BY <3>1, <3>3, <3>4, <3>5, Zenon
    <2>3. \A s \in covered'..Len(hist') : Has(s)'
        BY <1>2, <1>5, <1>10, <1>21 DEF Has
    <2>4. \A g \in closed' \cup retiring' : g < wid'
        BY <1>1, <1>2, <1>3, <1>6
    <2>5. sealing' = <<>>
        BY <1>2, <1>6
    <2> QED
        BY <2>1, <2>2, <2>3, <2>4, <2>5 DEF UpInv
<1>23. DurInv'
    <2> SUFFICES ASSUME Power PROVE DurInv'
        BY DEF DurInv
    <2>1. \A g \in present : g \in entered /\ dur[g] = Len(frames[g])
        BY <1>3 DEF DurInv, WholeFile
    <2>2. \A g \in present : /\ g \in entered' /\ dur'[g] = Len(frames'[g])
                             /\ Len(frames'[g]) \in Nat /\ dur'[g] <= Len(frames'[g])
        <3> TAKE g \in present
        <3>1. CASE g = f
            BY <3>1, <2>1, <1>2, <1>4, <1>9
        <3>2. CASE g # f
            <4>1. g \in File /\ frames'[g] = frames[g] /\ dur'[g] = dur[g]
                BY <3>2, <1>1, <1>3
            <4>2. g \in entered' /\ dur'[g] = Len(frames'[g])
                BY <4>1, <2>1, <1>2
            <4>3. Len(frames'[g]) \in Nat
                BY <4>1, <1>1
            <4> QED
                BY ONLY <4>2, <4>3
        <3> QED
            BY <3>1, <3>2
    <2>3. synced' <= dur'[wid']
        BY <1>1, <1>9
    <2>4. ASSUME NEW s \in 1..(seq' - 1) PROVE Kept(s)'
        <3>1. s \in 1..(from - 1)
            BY <1>1
        <3>2. CASE s < covered
            BY <3>2, <1>2 DEF Kept
        <3>3. CASE s >= covered
            <4>1. s \in covered..(from - 1)
                BY <3>1, <3>3, <1>4
            <4>2. PICK g \in present : \E i \in Frames(g)' : SeqAt(g, i)' = s
                BY <4>1, <1>21
            <4>3. PICK i \in Frames(g)' : SeqAt(g, i)' = s
                BY <4>2
            <4>4. i \in 1..dur'[g] /\ frames'[g][i].seq = s /\ g \in present' \cap entered'
                BY <4>3, <2>2, <1>10 DEF Frames, SeqAt
            <4> QED
                BY <4>4 DEF Kept
        <3> QED
            BY <3>1, <3>2, <3>3, <1>4
    <2>5. \A g \in present' : WholeFile(g)' /\ dur'[g] <= Len(frames'[g]) /\ g \in entered'
        BY <2>2, <1>10 DEF WholeFile
    <2> QED
        BY <2>3, <2>4, <2>5, <1>3 DEF DurInv, WholeFile
<1>24. KillInv'
    <2> SUFFICES ASSUME ~Power PROVE hist' = [i \in 1..(next' - 1) |-> i]
        BY DEF KillInv
    <2>1. Len(hist') = Len(hist) /\ \A s \in 1..Len(hist) : hist'[s] = hist[s]
        BY <1>4, <1>5, <1>9
    <2>2. hist' = hist
        <3>1. hist \in Seq(Batch) /\ hist' \in Seq(Batch)
            BY <1>4, <1>5, Zenon
        <3> QED
            BY ONLY <3>1, <2>1
    <2> QED
        BY <2>2, <1>2 DEF KillInv
<1> QED
    BY <1>13, <1>14, <1>15, <1>16, <1>17, <1>18, <1>19, <1>20, <1>22, <1>23, <1>24

-----------------------------------------------------------------------------
(* The invariant of the log, and what follows from it.                        *)

LEMMA InitInv == Init => LogInv
<1> SUFFICES ASSUME Init PROVE LogInv
    OBVIOUS
<1>1. TypeOK
    BY TypeInit
<1>2. /\ present = {0} /\ entered = {0} /\ lingers = {} /\ covered = 1 /\ phase = "up"
      /\ pc = "idle" /\ wid = 0 /\ seq = 1 /\ synced = 0 /\ closed = {} /\ looseWals = {}
      /\ unsynced = 0 /\ dirUnsynced = FALSE /\ sealing = <<>> /\ retiring = {} /\ due = {}
      /\ hist = <<>> /\ acked = 0 /\ next = 1 /\ segLog = <<>>
    BY DEF Init
<1>3. 0 \in File
    BY WalAssumption DEF File
<1>4. /\ frames[0] = <<>> /\ old[0] = <<>> /\ dur[0] = 0 /\ hdr[0] = "chained"
      /\ hdrs[0] = {"chained", "none"}
    BY <1>3 DEF Init
<1>5. Left = {0} /\ Frames(0) = {} /\ Len(frames[0]) = 0
    BY <1>2, <1>4 DEF Left, Frames
<1>6. FrameInv /\ OrderInv /\ OldInv /\ HdrInv
    BY <1>2, <1>4, <1>5 DEF FrameInv, OrderInv, OldInv, HdrInv
<1>7. AnchorInv
    <2>1. LivesBelow(0)
        <3>1. \A n \in DOMAIN spare : spare[n] = <<>>
            BY DEF Init
        <3> QED
            BY <3>1 DEF LivesBelow
    <2>2. Begins(0, covered)
        BY <1>2, <1>4, <1>5 DEF Begins
    <2> QED
        BY <2>1, <2>2, <1>2 DEF AnchorInv
<1>8. HistInv
    <2>1. SubSeq(hist, 1, 0) = <<>> /\ Len(hist) = 0
        BY <1>2
    <2> QED
        BY <2>1, <1>2 DEF HistInv
<1>9. SealInv /\ QueueInv /\ PcInv /\ RestInv /\ DownInv /\ ReplayInv /\ NeverRefused
    BY <1>2 DEF SealInv, QueueInv, PcInv, RestInv, DownInv, ReplayInv, NeverRefused
<1>10. UpInv
    BY <1>2, <1>4 DEF UpInv
<1>11. DurInv
    BY <1>2, <1>4, <1>5 DEF DurInv, WholeFile
<1>12. KillInv
    <2>1. hist \in Seq(Nat) /\ Len(hist) = 0 /\ [i \in 1..0 |-> i] \in Seq(Nat)
          /\ Len([i \in 1..0 |-> i]) = 0
        BY <1>2
    <2>2. hist = [i \in 1..0 |-> i]
        BY ONLY <2>1
    <2> QED
        BY <2>2, <1>2 DEF KillInv
<1> QED
    BY <1>1, <1>6, <1>7, <1>8, <1>9, <1>10, <1>11, <1>12 DEF LogInv

LEMMA StepStill ==
    ASSUME LogInv, UNCHANGED vars PROVE LogInv'
<1> USE DEF LogInv
<1>1. UNCHANGED <<present, entered, lingers, hdr, hdrs, frames, dur, old, spare, covered, segLog,
                  phase, pc, why, wid, seq, synced, loose, closed, looseWals, unsynced,
                  dirUnsynced, sealing, retiring, due, todo, valid, from, rec, hist, acked,
                  next, fails>>
    BY DEF vars, names, bytes, store, call, live, queues, maint, replay, ghost
<1>2. TypeOK' /\ NeverRefused' /\ KillInv' /\ HistInv'
    BY <1>1, ZenonT(30) DEF TypeOK, NeverRefused, KillInv, HistInv, Power
<1>3. FrameInv' /\ OrderInv' /\ OldInv' /\ HdrInv'
    BY <1>1 DEF FrameInv, OrderInv, OldInv, HdrInv, Left, Frames, SeqAt
<1>4. AnchorInv'
    BY <1>1 DEF AnchorInv, Begins, LivesBelow, Ended, Gap, Has, Left, Frames, SeqAt
<1>5. SealInv' /\ QueueInv' /\ PcInv' /\ RestInv'
    BY <1>1 DEF SealInv, QueueInv, PcInv, RestInv, Begins, FramesUnsynced, Left, Frames, SeqAt
<1>6. UpInv'
    BY <1>1 DEF UpInv, Has, Frames, SeqAt
<1>7. DownInv' /\ ReplayInv'
    <2>1. /\ \A f : Frames(f)' = Frames(f) /\ (\A i : SeqAt(f, i)' = SeqAt(f, i))
          /\ Power' = Power
        BY <1>1, Zenon DEF Frames, SeqAt, Power
    <2>2. \A s : Has(s)' = Has(s)
        BY <1>1, <2>1, Zenon DEF Has
    <2>3. \A f : Gap(f)' = Gap(f)
        BY <1>1, <2>1, <2>2, Zenon DEF Gap
    <2>4. \A e : Ended(e)' = Ended(e)
        BY <1>1, <2>1, <2>3, Zenon DEF Ended
    <2>5. DownInv'
        BY <1>1, <2>1, <2>2, <2>3, <2>4, Zenon DEF DownInv
    <2>6. ReplayInv'
        BY <1>1, <2>1, <2>2, <2>4, Zenon DEF ReplayInv
    <2> QED
        BY <2>5, <2>6
<1>8. DurInv'
    BY <1>1 DEF DurInv, WholeFile, Kept
<1> QED
    BY <1>2, <1>3, <1>4, <1>5, <1>6, <1>7, <1>8

\* Every step keeps the invariant, where a store has one kind of failure.
LEMMA LogStep ==
    ASSUME OneKind, LogInv, [Next]_vars PROVE LogInv'
<1>1. CASE Commit
    BY <1>1, StepCommit
<1>2. CASE Sync
    BY <1>2, StepSync
<1>3. CASE WalDirBarrier \/ SyncFails \/ NoRotation \/ NewDirBarrier \/ Seals
    BY <1>3, StepSmall
<1>4. CASE SyncLoose
    BY <1>4, StepSyncLoose
<1>5. CASE Chain
    BY <1>5, StepChain
<1>6. CASE SyncLive
    BY <1>6, StepSyncLive
<1>7. CASE RotateWal
    BY <1>7, StepRotate
<1>8. CASE HandSeal
    BY <1>8, StepHandSeal
<1>9. CASE LandDurable
    BY <1>9, StepLand
<1>10. CASE \E f \in File : RetireWal(f)
    BY <1>10, StepRetire
<1>11. CASE OpenStart
    BY <1>11, StepOpenStart
<1>12. CASE ReplayFile
    BY <1>12, StepReplayFile
<1>13. CASE OpenEnd
    BY <1>13, StepOpenEnd
<1>14. CASE Kill
    BY <1>14, StepKill
<1>15. CASE PowerLoss
    BY <1>15, StepPowerLoss
<1>16. CASE UNCHANGED vars
    BY <1>16, StepStill
<1> QED
    BY <1>1, <1>2, <1>3, <1>4, <1>5, <1>6, <1>7, <1>8, <1>9, <1>10, <1>11, <1>12, <1>13,
       <1>14, <1>15, <1>16
    DEF Next, Writer, Maint, Opens, Fails

LEMMA LogAlways == ASSUME OneKind PROVE Spec => []LogInv
<1>1. Init => LogInv
    BY InitInv
<1>2. LogInv /\ [Next]_vars => LogInv'
    BY LogStep
<1> QED
    BY <1>1, <1>2, PTL DEF Spec

\* The log's variables keep their types at every step of a commit, a sync, a
\* rotation, a seal, a landing, a failure and an open.
THEOREM TypeCorrect == ASSUME OneKind PROVE Spec => []TypeOK
<1>1. LogInv => TypeOK
    BY DEF LogInv
<1> QED
    BY LogAlways, <1>1, PTL

\* No open is refused for a sequence gap (`wal sequence gap: a durable record is
\* missing'): whatever a failure left, the first gap lies at a file whose header
\* is loose, and the replay ends the log there.
THEOREM NoLogRefused == ASSUME OneKind PROVE Spec => []NeverRefused
<1>1. LogInv => NeverRefused
    BY DEF LogInv
<1> QED
    BY LogAlways, <1>1, PTL

\* SyncPolicy::EveryN bounds what a power loss takes: the batches the device may
\* not hold are no more than the writer's count of commits since its barrier.
THEOREM PowerLossBounded == ASSUME Failures = {"power"} PROVE Spec => []LossCounted
<1>1. OneKind /\ Power
    BY DEF OneKind, Power
<1>2. ASSUME LogInv PROVE LossCounted
    <2> SUFFICES ASSUME phase = "up"
                 PROVE  Cardinality({s \in 1..(seq - 1) : ~Kept(s)}) <= unsynced
        BY DEF LossCounted
    <2>1. /\ seq \in Nat /\ seq >= 1 /\ unsynced \in Nat /\ unsynced < seq
          /\ \A s \in 1..(seq - 1) : s + unsynced < seq => Kept(s)
        <3>1. Len(hist) \in Nat /\ seq = Len(hist) + 1 /\ acked \in Nat /\ unsynced \in Nat
              /\ acked + unsynced <= Len(hist)
            BY <1>2, SeqRoom DEF LogInv, HistInv, TypeOK
        <3>2. \A s \in 1..(seq - 1) : s + unsynced < seq => Kept(s)
            BY <1>1, <1>2 DEF LogInv, DurInv
        <3> QED
            BY <3>1, <3>2
    <2>2. PICK a \in Nat : a = seq - unsynced
        BY <2>1
    <2>3. PICK b \in Nat : b = seq - 1
        BY <2>1
    <2>4. {s \in 1..(seq - 1) : ~Kept(s)} \in SUBSET (a..b)
        BY <2>1, <2>2, <2>3
    <2>5. IsFiniteSet(a..b) /\ Cardinality(a..b) = IF a > b THEN 0 ELSE b - a + 1
        BY FS_Interval
    <2>6. Cardinality(a..b) = unsynced
        BY <2>1, <2>2, <2>3, <2>5
    <2>7. Cardinality({s \in 1..(seq - 1) : ~Kept(s)}) <= Cardinality(a..b)
        BY <2>4, <2>5, FS_Subset, Zenon
    <2> QED
        BY <2>6, <2>7, Zenon
<1> QED
    BY <1>1, <1>2, LogAlways, PTL

\* A process that is killed, at whatever step, loses nothing it committed, and
\* its store's opens replay every batch once and in order.
THEOREM KillsLoseNothing == ASSUME "power" \notin Failures PROVE Spec => []NothingLost
<1>1. OneKind /\ ~Power
    BY DEF OneKind, Power
<1>2. LogInv => NothingLost
    BY <1>1 DEF LogInv, KillInv, NothingLost
<1> QED
    BY <1>1, <1>2, LogAlways, PTL

-----------------------------------------------------------------------------
(* The files implement the abstract log of DurableLog.                         *)

\* The end of an open is the abstract log's recovery: it keeps a prefix of what
\* was committed that has all that was promised.
LEMMA Recovers ==
    ASSUME LogInv, OpenEnd PROVE Log!Recover
<1>1. /\ phase = "replay" /\ phase' = "up" /\ hist' = rec /\ acked' = acked /\ seq' = from
    BY Zenon DEF OpenEnd
<1>2. /\ rec = SubSeq(hist, 1, from - 1) /\ from <= Len(hist) + 1
    BY <1>1, Zenon DEF LogInv, ReplayInv
<1>3. LogInv'
    BY StepOpenEnd
<1>4. HistInv' /\ UpInv' /\ TypeOK'
    BY <1>3, Zenon DEF LogInv
<1>5. acked' + unsynced' <= Len(hist') /\ seq' = Len(hist') + 1
    BY <1>4, <1>1, Zenon DEF HistInv, UpInv
<1>6. acked' \in Nat /\ unsynced' \in Nat /\ Len(hist') \in Nat /\ Len(hist) \in Nat
    <2>1. hist' \in Seq(Batch) /\ hist \in Seq(Batch) /\ acked' \in Nat /\ unsynced' \in Nat
        BY <1>4, Zenon DEF LogInv, TypeOK
    <2> QED
        BY ONLY <2>1
<1>7. from \in Nat /\ from >= 1 /\ acked \in Nat
    BY WalAssumption DEF LogInv, TypeOK, Seqno
<1>8. PICK n \in Nat : n = from - 1
    BY <1>7
<1>9. n \in acked..Len(hist)
    <2>1. acked' = acked /\ seq' = from
        BY <1>1, Zenon
    <2>2. PICK u \in Nat : u = unsynced'
        BY <1>6, Zenon
    <2>3. PICK h \in Nat : h = Len(hist')
        BY <1>6, Zenon
    <2>4. PICK l \in Nat : l = Len(hist)
        BY <1>6, Zenon
    <2>5. acked + u <= h /\ from = h + 1 /\ from <= l + 1
        BY <2>1, <2>2, <2>3, <2>4, <1>2, <1>5, Zenon
    <2>6. n \in acked..l
        BY ONLY <2>5, <1>7, <1>8
    <2> QED
        BY <2>4, <2>6, Zenon
<1>10. hist' = SubSeq(hist, 1, n)
    BY <1>1, <1>2, <1>8, Zenon
<1>11. phase # "up" /\ (phase = "up")' = TRUE
    BY <1>1
<1> QED
    BY <1>1, <1>9, <1>10, <1>11, Zenon DEF Log!Recover

\* Every step of the files is a step of the abstract log, or leaves it as it is.
LEMMA LogMaps ==
    ASSUME OneKind, LogInv, [Next]_vars PROVE [Log!Next]_(Log!vars)
<1>s. ASSUME hist' = hist, acked' = acked, phase' = phase PROVE UNCHANGED Log!vars
    BY <1>s DEF Log!vars
<1>1. CASE Commit
    <2>1. next \in Batch
        BY <1>1, WalAssumption DEF Commit, LogInv, TypeOK, Batch
    <2>2. phase = "up" /\ hist' = Append(hist, next) /\ acked' = acked /\ phase' = phase
        BY <1>1, Zenon DEF Commit
    <2>3. Log!Commit(next)
        BY <2>2 DEF Log!Commit
    <2> QED
        BY <2>1, <2>3, Zenon DEF Log!Next
<1>2. CASE Sync \/ SyncLive
    <2>1. phase = "up" /\ hist' = hist /\ phase' = phase /\ (acked' = acked \/ acked' = Len(hist))
        BY <1>2, Zenon DEF Sync, SyncLive
    <2>2. CASE acked' = Len(hist)
        <3>1. Log!Sync
            BY <2>1, <2>2 DEF Log!Sync
        <3> QED
            BY <3>1, Zenon DEF Log!Next
    <2> QED
        BY <2>1, <2>2, <1>s, Zenon
<1>3. CASE \/ WalDirBarrier \/ SyncFails \/ NoRotation \/ NewDirBarrier \/ Seals \/ SyncLoose
           \/ Chain \/ RotateWal \/ HandSeal
    <2>1. hist' = hist /\ acked' = acked /\ phase' = phase
        BY <1>3, Zenon
        DEF WalDirBarrier, SyncFails, NoRotation, NewDirBarrier, Seals, SyncLoose, Chain,
            RotateWal, HandSeal, ghost, call
    <2> QED
        BY <2>1, <1>s, Zenon
<1>4. CASE LandDurable \/ \E f \in File : RetireWal(f)
    <2>1. hist' = hist /\ acked' = acked /\ phase' = phase
        BY <1>4, Zenon DEF LandDurable, RetireWal, ghost, call
    <2> QED
        BY <2>1, <1>s, Zenon
<1>5. CASE OpenStart \/ ReplayFile
    <2>1. hist' = hist /\ acked' = acked
        BY <1>5, Zenon DEF OpenStart, ReplayFile, ghost
    <2>2. phase # "up" /\ phase' # "up"
        <3>1. CASE OpenStart
            BY <3>1 DEF OpenStart
        <3>2. CASE ReplayFile
            <4>1. phase = "replay" /\ (phase' = phase \/ phase' = "refused")
                BY <3>2, Zenon DEF ReplayFile
            <4> QED
                BY <4>1
        <3> QED
            BY <1>5, <3>1, <3>2
    <2> QED
        BY <2>1, <2>2 DEF Log!vars
<1>6. CASE OpenEnd
    BY <1>6, Recovers, Zenon DEF Log!Next
<1>7. CASE Kill \/ PowerLoss
    <2>1. hist' = hist /\ acked' = acked /\ phase' = "down"
        BY <1>7, Zenon DEF Kill, PowerLoss, Forget, ghost
    <2>2. CASE phase = "up"
        <3>1. Log!Fail
            BY <2>1, <2>2 DEF Log!Fail
        <3> QED
            BY <3>1, Zenon DEF Log!Next
    <2>3. CASE phase # "up"
        BY <2>1, <2>3 DEF Log!vars
    <2> QED
        BY <2>2, <2>3
<1>8. CASE UNCHANGED vars
    <2>1. hist' = hist /\ acked' = acked /\ phase' = phase
        BY <1>8, Zenon DEF vars, ghost, call
    <2> QED
        BY <2>1, <1>s, Zenon
<1> QED
    BY <1>1, <1>2, <1>3, <1>4, <1>5, <1>6, <1>7, <1>8, Zenon
    DEF Next, Writer, Maint, Opens, Fails

\* The log keeps its promises: every behaviour of the files, failures and opens
\* included, is one of the abstract log.  Batches stay in commit order, a sync
\* that returned promised all before it, and an open brings back a prefix of the
\* history that holds everything promised.
THEOREM LogImplementsPromises == ASSUME OneKind PROVE Spec => KeepsPromises
<1>1. Init => Log!Init
    BY DEF Init, Log!Init
<1>2. LogInv /\ [Next]_vars => [Log!Next]_(Log!vars)
    BY LogMaps
<1> QED
    BY <1>1, <1>2, LogAlways, PTL DEF Spec, KeepsPromises, Log!Spec
=============================================================================
