------------------------------- MODULE Scans --------------------------------
(* Range reads beside the writer: one live memtable over one partition.  The  *)
(* writer links chunks and commits; a handle takes a commit's three bounds    *)
(* one load at a time, brings its own blocks to them from the write log and   *)
(* walks them, or the forms the upkeep thread published for that very commit; *)
(* and the segment work replaces the state under all of them, the memtable    *)
(* standing.  A block holds one key.  src/src/db.rs throughout.               *)
EXTENDS Integers, Sequences, FiniteSets, FiniteSetsExt, SequencesExt

CONSTANTS
    MaxKey,       \* keys 1..MaxKey
    Sealed,       \* those the partition holds, each with the value 0
    Handles,      \* reader handles
    Isolations,   \* of {"latest", "snapshot", "dirty"}: what they are set to
    Kinds,        \* of {"append", "put", "delete"}: the writes made
    Allowed,      \* bound, of Happenings: what else may happen to the blocks
    MaxChunk,     \* bound: chunks of the value arena
    MaxCommit,    \* bound: commits
    MaxGen        \* bound: states published

(* Snapshots replaced; passes cut short; forms dropped in one; scans through  *)
(* the writer; handles claimed, and passes nobody is published for; partitions*)
(* rewritten under sparse forms; fills left to the builder ahead, or to the   *)
(* budget; and every form given up at once.                                   *)
Happenings == {"behind", "short", "drop", "writer", "claim", "rewrite", "ahead", "giveup"}

ASSUME ScansAssumption ==
    /\ MaxKey \in Nat /\ Sealed \subseteq 1..MaxKey
    /\ Isolations \subseteq {"latest", "snapshot", "dirty"}
    /\ Kinds \subseteq {"append", "put", "delete"}
    /\ Allowed \subseteq Happenings
    /\ MaxChunk \in Nat /\ MaxCommit \in Nat /\ MaxGen \in Nat \ {0}

VARIABLES
    slab,     \* the table's entries: the key of each, in the order made
    chain,    \* per key its chunks, oldest first: an arena offset, negated
              \* for a tombstone; a value is named by its offset
    tail,     \* the arena's tail
    log,      \* the write log: the entry each write wrote
    wr,       \* where the writer is, and the entry it writes
    mark,     \* MemTable::mark
    marks,    \* MemTable::marks
    hist,     \* what each commit's bounds and values are, from the empty one
    states,   \* the states published: forms, forms_at, forms_complete, snap
    up,       \* the writer's upkeep: its FormsState, the commit posted, and
              \* whether its tables are gone and none made since
    pass,     \* the upkeep thread's pass
    land,     \* the forms the segment work has carried of the state it replaces
    hd        \* per handle its bounds, where it is, and its FormsState

table == <<slab, chain, tail, log, wr>>
commits == <<mark, marks, hist>>
vars == <<table, commits, states, up, pass, land, hd>>

Keys == 1..MaxKey
SeeAll == MaxChunk + 2        \* SEE_ALL
Unbounded == MaxChunk + 1     \* usize::MAX: above every log length and count
NoSnap == -1
NoForm == <<>>
Mark == [at |-> 0, ver |-> -1, vals |-> <<>>]     \* a published wide form

(* A handle's or the writer's blocks: the state and the log position they are *)
(* of, the entries its snapshot covers, those filed since, its own forms.     *)
Fresh(g) == [gen |-> g, seen |-> 0, snap |-> NoSnap, added |-> {},
             own |-> [k \in Keys |-> NoForm]]
Blank == [forms |-> [k \in Keys |-> NoForm], at |-> Unbounded,
          complete |-> FALSE, snap |-> NoSnap]
Bounds0 == [log |-> 0, len |-> 0, wm |-> 1]
Out(fs) == [pc |-> "out", iso |-> "latest", n |-> 0, b |-> Bounds0, g |-> 0,
            canon |-> FALSE, whole |-> FALSE, out |-> <<>>, fs |-> fs]
Commit(b, vals) == [log |-> b.log, len |-> b.len, wm |-> b.wm, vals |-> vals]
Idle == [pc |-> "idle", g |-> 0, b |-> Bounds0, short |-> FALSE]
Resting == [pc |-> "idle", id |-> 0]

-----------------------------------------------------------------------------
(* What the table holds.                                                      *)

Base(k) == IF k \in Sealed THEN <<0>> ELSE <<>>

Offset(c) == IF c < 0 THEN -c ELSE c

(* live_offs_into over the partition's own, of the chunks a reader sees: what *)
(* comes after the newest tombstone among them.                               *)
Live(k, seen) ==
    LET tombs == {i \in seen : chain[k][i] < 0}
        last == Max(seen \cup {0})
    IN  IF tombs = {} THEN Base(k) \o SubSeq(chain[k], 1, last)
        ELSE SubSeq(chain[k], Max(tombs) + 1, last)

\* A mutant of Values: the watermark's own chunk seen as well.
ValuesPast(k, wm) == Live(k, {i \in DOMAIN chain[k] : Offset(chain[k][i]) <= wm})

(* The chunks below the watermark: a chain's offsets ascend.                  *)
Values(k, wm) == Live(k, {i \in DOMAIN chain[k] : Offset(chain[k][i]) < wm})

(* probe, by a handle's bounds: an entry not yet in the index is not found.   *)
Indexed == IF wr.pc \in {"head", "index"} THEN Len(slab) - 1 ELSE Len(slab)
ReadAll(k, b) ==
    IF \E i \in 1..Min({Indexed, b.len}) : slab[i] = k
    THEN Values(k, b.wm) ELSE Base(k)

-----------------------------------------------------------------------------
(* The writer: MemTable::write and put, one store another thread can see at a *)
(* time, and MemTable::commit.                                                *)

Chunks(w) == CASE w = "append" -> <<tail>>
               [] w = "delete" -> <<-tail>>
               [] w = "put" -> <<-tail, tail + 1>>

(* A key the table has: the chunks pushed, then the head stored.              *)
Link(k, w) ==
    /\ wr.pc = "idle" /\ k \in Range(slab)
    /\ tail + Len(Chunks(w)) <= MaxChunk + 1
    /\ chain' = [chain EXCEPT ![k] = @ \o Chunks(w)]
    /\ tail' = tail + Len(Chunks(w))
    /\ wr' = [pc |-> "log", id |-> CHOOSE i \in DOMAIN slab : slab[i] = k]
    /\ UNCHANGED <<slab, log, commits, states, up, pass, land, hd>>

(* new_entry: published with its first chunk, a put's value to follow.        *)
Create(k, w) ==
    /\ wr.pc = "idle" /\ k \notin Range(slab)
    /\ tail + Len(Chunks(w)) <= MaxChunk + 1
    /\ slab' = Append(slab, k)
    /\ chain' = [chain EXCEPT ![k] = <<Head(Chunks(w))>>]
    /\ tail' = tail + 1
    /\ wr' = [pc |-> IF w = "put" THEN "head" ELSE "index", id |-> Len(slab) + 1]
    /\ UNCHANGED <<log, commits, states, up, pass, land, hd>>

PutHead ==
    /\ wr.pc = "head"
    /\ chain' = [chain EXCEPT ![slab[wr.id]] = Append(@, tail)]
    /\ tail' = tail + 1
    /\ wr' = [wr EXCEPT !.pc = "index"]
    /\ UNCHANGED <<slab, log, commits, states, up, pass, land, hd>>

IndexInsert ==
    /\ wr.pc = "index"
    /\ wr' = [wr EXCEPT !.pc = "log"]
    /\ UNCHANGED <<slab, chain, tail, log, commits, states, up, pass, land, hd>>

LogWrite ==
    /\ wr.pc = "log"
    /\ log' = Append(log, wr.id)
    /\ wr' = Resting
    /\ UNCHANGED <<slab, chain, tail, commits, states, up, pass, land, hd>>

Write ==
    \/ \E k \in Keys, w \in Kinds : Link(k, w) \/ Create(k, w)
    \/ PutHead \/ IndexInsert \/ LogWrite

(* The words of a commit, in the order they are stored, into the mark the     *)
(* last commit did not write.  A commit of nothing stores the same bounds     *)
(* again, and is not taken.                                                   *)
CommitWord(pc) ==
    CASE pc = "idle" -> <<"log", Len(log), "len">>
      [] pc = "len" -> <<"len", Len(slab), "wm">>
      [] pc = "wm" -> <<"wm", tail, "mark">>

\* A mutant of Marked: one mark for every commit.
MarkedOne(n) == 0

Marked(n) == n % 2

CommitStore ==
    /\ wr.pc \in {"idle", "len", "wm"}
    /\ mark < MaxCommit /\ Len(log) > hist[mark + 1].log
    /\ LET w == CommitWord(wr.pc)
       IN  /\ marks' = [marks EXCEPT ![Marked(mark + 1)][w[1]] = w[2]]
           /\ wr' = [pc |-> w[3], id |-> 0]
    /\ UNCHANGED <<slab, chain, tail, log, mark, hist, states, up, pass, land, hd>>

(* `mark` names it, and hand_over_upkeep posts the commit to the thread.  A   *)
(* commit that files its own batch (Hand::Inline, Hand::File) is one whose    *)
(* pass is over before the writer's next step; one that files nothing, one no *)
(* pass begins on; and Hand::Settle is a WriterScan that walks nothing.       *)
CommitMark ==
    /\ wr.pc = "mark"
    /\ mark' = mark + 1
    /\ LET b == [log |-> Len(log), len |-> Len(slab), wm |-> tail]
       IN  /\ hist' = Append(hist, Commit(b, [k \in Keys |-> Values(k, tail)]))
           /\ up' = [up EXCEPT !.posted = {b}]
    /\ wr' = Resting
    /\ UNCHANGED <<slab, chain, tail, log, marks, states, pass, land, hd>>

-----------------------------------------------------------------------------
(* Blocks, whoever holds them.                                                *)

(* The keys read of the log, and of those the entries it says were made.      *)
ReadOf(fs, n) == {slab[log[i]] : i \in (fs.seen + 1)..n}
Created(fs, n) ==
    {log[i] : i \in {j \in (fs.seen + 1)..n :
                        /\ \A l \in 1..(j - 1) : log[l] # log[j]
                        /\ log[j] > fs.snap}}

(* sync_log and settle_pending: every write from where the log was read to n  *)
(* patched into its block, if the block has a form, under the watermark; an   *)
(* entry made past the snapshot filed.                                        *)
Settled(fs, n, wm) ==
    IF n <= fs.seen THEN fs
    ELSE [fs EXCEPT
            !.seen = n,
            !.added = IF fs.snap = NoSnap THEN {} ELSE @ \cup Created(fs, n),
            !.own = [k \in Keys |->
                        IF k \in ReadOf(fs, n) /\ fs.own[k] # NoForm
                        THEN [ver |-> n, vals |-> Values(k, wm)] ELSE fs.own[k]]]

(* As far as a bound lets it be read.                                         *)
LogEnd(b) == Min({Len(log), b.log})
MemLen(b) == Min({Len(slab), b.len})

\* A mutant of Taken: a longer published snapshot is adopted as well.
TakenLonger(published, len) == Max({published, len})

(* refresh_snapshot_to: what it takes, a published one within its own count   *)
(* if that covers all of it, else its own or either carried forward; and what *)
(* it offers the state.                                                       *)
Taken(published, len) == len
Offered(fs, published, len) ==
    IF published = len \/ fs.snap = len THEN published ELSE Max({published, len})
Refreshed(fs, published, len) ==
    [fs EXCEPT !.snap = Taken(published, len), !.added = {}]

(* The snapshot is taken anew when there is none, or when what was made since *)
(* outgrew it (`behind`; the size is left open).                              *)
MayRefresh(fs, sw) ==
    IF fs.snap = NoSnap THEN sw ELSE sw => "behind" \in Allowed /\ fs.added # {}

(* materialize: a key neither in the snapshot nor filed is the partition's.   *)
Overlaid(fs, k) == \E i \in DOMAIN slab : slab[i] = k /\ (i <= fs.snap \/ i \in fs.added)
Built(fs, k, wm) ==
    [ver |-> fs.seen, vals |-> IF Overlaid(fs, k) THEN Values(k, wm) ELSE Base(k)]

-----------------------------------------------------------------------------
(* The upkeep: the writer's own blocks, brought to a commit on a thread.      *)

(* rebase_tables: the blocks carried to a state published over the same       *)
(* memtable, without the sparse forms of a partition rewritten (`lost`).  A   *)
(* form is dirty unless the state's is the very one; one the state has and    *)
(* the writer's table has not is marked.                                      *)
Stands(g, k) == states[g].forms[k]
Without(fs, ks) == [fs EXCEPT !.own = [k \in Keys |-> IF k \in ks THEN NoForm ELSE @[k]]]
Losses(u, g) ==
    IF "rewrite" \in Allowed /\ u.fs.gen # g
    THEN SUBSET {k \in Keys : u.fs.own[k] # NoForm} ELSE {{}}
Differs(f, own) == f = NoForm \/ f.ver # own.ver \/ f.vals # own.vals
Rebased(u, g, lost) ==
    IF u.fs.gen = g THEN u
    ELSE [u EXCEPT
            !.fs = [Without(@, lost) EXCEPT !.gen = g],
            !.dirty = (@ \cup {k \in Keys : u.fs.own[k] # NoForm /\ Differs(Stands(g, k), u.fs.own[k])})
                          \ lost,
            !.complete = @ /\ lost = {}]
Orphans(u, g, lost) ==
    {k \in Keys : /\ u.fs.gen # g /\ ~u.gone
                  /\ k \in lost \/ (u.fs.own[k] = NoForm /\ Stands(g, k) # NoForm)}

(* What a look at the log does to the writer's blocks: those in `drop` given  *)
(* up before they are patched (the backlog's density), and the table no more  *)
(* complete once a write fell on a block without a form.                      *)
Filed(u, n, wm, drop) ==
    LET v == [u EXCEPT !.fs = Without(@, drop)]
        read == ReadOf(v.fs, n)
        formed == {k \in Keys : v.fs.own[k] # NoForm}
    IN  [v EXCEPT !.fs = Settled(v.fs, n, wm),
                  !.dirty = @ \cup (read \cap formed),
                  !.complete = @ /\ read \subseteq formed]

Marks(st, ks) == [st EXCEPT !.forms = [k \in Keys |-> IF k \in ks THEN Mark ELSE @[k]]]

PassBegin ==
    /\ pass.pc = "idle" /\ up.posted # {}
    /\ \E b \in up.posted :
           pass' = [pc |-> "look", g |-> Len(states), b |-> b, short |-> FALSE]
    /\ up' = [up EXCEPT !.posted = {}]
    /\ UNCHANGED <<table, commits, states, land, hd>>

(* publish_for_handle, at a handle's claim with nothing staged: the upkeep    *)
(* home, and what a pass does but for the fill, while the writer waits.       *)
Claimed == wr.pc = "claim"
Claim ==
    /\ "claim" \in Allowed /\ wr.pc = "idle" /\ pass.pc = "idle"
    /\ LET c == hist[mark + 1]
       IN  /\ Len(log) = c.log
           /\ pass' = [pc |-> "look", g |-> Len(states), short |-> FALSE,
                       b |-> [log |-> c.log, len |-> c.len, wm |-> c.wm]]
    /\ wr' = [pc |-> "claim", id |-> 0]
    /\ up' = [up EXCEPT !.posted = {}]
    /\ UNCHANGED <<slab, chain, tail, log, commits, states, land, hd>>

(* A pass over, or a claim.                                                   *)
PassEnds == pass' = Idle /\ wr' = IF Claimed THEN Resting ELSE wr

(* The log read to the commit, or, in a pass cut short, not so far.           *)
PassLook ==
    /\ pass.pc = "look"
    /\ \E lost \in Losses(up, pass.g) :
       LET u == Rebased(up, pass.g, lost)
       IN  \E n \in up.fs.seen..Max({up.fs.seen, LogEnd(pass.b)}) :
           \E drop \in SUBSET {k \in ReadOf(u.fs, n) : u.fs.own[k] # NoForm} :
           /\ n < LogEnd(pass.b) => "short" \in Allowed /\ ~Claimed
           /\ drop # {} => "drop" \in Allowed
           /\ up' = Filed(u, n, pass.b.wm, drop)
           /\ states' = [states EXCEPT
                            ![pass.g] = Marks(@, drop \cup Orphans(up, pass.g, lost))]
           /\ pass' = [pass EXCEPT !.pc = "snap", !.short = n < LogEnd(pass.b)]
    /\ UNCHANGED <<table, commits, land, hd>>

PassSnap ==
    /\ pass.pc = "snap"
    /\ \E sw \in BOOLEAN :
       /\ MayRefresh(up.fs, sw)
       /\ up' = IF sw THEN [up EXCEPT !.fs = Refreshed(@, states[pass.g].snap, MemLen(pass.b))]
                ELSE up
       /\ states' = IF sw THEN [states EXCEPT
                        ![pass.g].snap = Offered(up.fs, @, MemLen(pass.b))]
                    ELSE states
    /\ IF Claimed /\ up.dirty = {} THEN PassEnds
       ELSE /\ pass' = [pass EXCEPT !.pc = IF Claimed THEN "publish" ELSE "fill"]
            /\ UNCHANGED wr
    /\ UNCHANGED <<slab, chain, tail, log, commits, land, hd>>

(* complete_forms to its end (`whole`), or cut short, or stopped at the       *)
(* budget, or left to the builder ahead, whose forms so far are installed; a  *)
(* short pass publishes nothing and posts its commit again, and one nobody    *)
(* holds a handle for leaves its blocks dirty.                                *)
Needed == {k \in Keys : up.fs.own[k] = NoForm /\ Overlaid(up.fs, k)}
Fill(built, whole, cut, none) ==
    /\ whole => built = Needed /\ ~pass.short /\ ~cut /\ ~up.complete
    /\ cut => "short" \in Allowed /\ ~pass.short /\ ~up.complete
    /\ none => "claim" \in Allowed /\ \A h \in Handles : hd[h].pc = "out"
    /\ "ahead" \in Allowed \/ whole \/ cut \/ (built = {} /\ (pass.short \/ up.complete))
    /\ up' = [up EXCEPT
           !.fs.own = [k \in Keys |-> IF k \in built
                          THEN Built(up.fs, k, pass.b.wm) ELSE @[k]],
           !.dirty = @ \cup built,
           !.complete = @ \/ whole,
           !.gone = @ /\ built = {} /\ ~whole,
           !.posted = IF (pass.short \/ cut) /\ @ = {} THEN {pass.b} ELSE @]
    /\ pass' = IF pass.short \/ cut \/ none THEN Idle ELSE [pass EXCEPT !.pc = "publish"]

PassFill ==
    /\ pass.pc = "fill"
    /\ \E built \in SUBSET Needed, whole, cut, none \in BOOLEAN : Fill(built, whole, cut, none)
    /\ UNCHANGED <<table, commits, states, land, hd>>

(* publish_dirty: block by block, each stamped with the position.             *)
PassPublish ==
    /\ pass.pc = "publish" /\ up.dirty # {}
    /\ LET k == Min(up.dirty)
       IN  /\ states' = [states EXCEPT ![pass.g].forms[k] =
                  IF up.fs.own[k] = NoForm THEN Mark
                  ELSE [at |-> pass.b.log, ver |-> up.fs.own[k].ver,
                        vals |-> up.fs.own[k].vals]]
           /\ up' = [up EXCEPT !.dirty = @ \ {k}]
    /\ UNCHANGED <<table, commits, pass, land, hd>>

\* A mutant of PassOrder: the position first, the completeness after it.
PassOrderSwapped == <<"at", "complete">>

(* Then the completeness, then the position.                                  *)
PassOrder == <<"complete", "at">>
Told(word) == IF word = "at" THEN pass.b.log ELSE up.complete

PassComplete ==
    /\ pass.pc = "publish" /\ up.dirty = {}
    /\ states' = [states EXCEPT ![pass.g][PassOrder[1]] = Told(PassOrder[1])]
    /\ pass' = [pass EXCEPT !.pc = "at"]
    /\ UNCHANGED <<table, commits, up, land, hd>>

PassAt ==
    /\ pass.pc = "at"
    /\ states' = [states EXCEPT ![pass.g][PassOrder[2]] = Told(PassOrder[2])]
    /\ PassEnds
    /\ UNCHANGED <<slab, chain, tail, log, commits, up, land, hd>>

(* drop_blocks: every form at once, and no mark left for any.  A settle that  *)
(* failed keeps the snapshot, abandon_forms does not, and a rebase that       *)
(* failed goes on from the log's start.                                       *)
GiveUp ==
    /\ "giveup" \in Allowed /\ pass.pc \in {"idle", "look", "snap", "fill"}
    /\ LET g == IF pass.pc = "idle" THEN Len(states) ELSE pass.g
           bare == Without(up.fs, Keys)
       IN  \E fs \in {bare, [bare EXCEPT !.snap = NoSnap, !.added = {}]}
                         \cup {Fresh(x) : x \in {g} \ {up.fs.gen}} :
           /\ up' = [fs |-> fs, dirty |-> {}, complete |-> FALSE, gone |-> TRUE,
                     posted |-> IF pass.short /\ up.posted = {} THEN {pass.b}
                                ELSE up.posted]
           /\ IF fs.gen = up.fs.gen THEN PassEnds ELSE UNCHANGED <<pass, wr>>
    /\ UNCHANGED <<slab, chain, tail, log, commits, states, land, hd>>

(* A scan through the writer: the upkeep home, with a commit no pass began on *)
(* forgotten, what is staged settled into its blocks as well, and those it    *)
(* walks built.  One that walks nothing may be the settle alone.              *)
WriterScan ==
    /\ "writer" \in Allowed /\ wr.pc = "idle" /\ pass.pc = "idle"
    /\ \E lost \in Losses(up, Len(states)), walked \in SUBSET Keys, sw \in BOOLEAN :
       LET g == Len(states)
           b == [log |-> Unbounded, len |-> Unbounded, wm |-> SeeAll]
           u == Filed(Rebased(up, g, lost), Max({up.fs.seen, LogEnd(b)}), SeeAll, {})
           fs == IF sw THEN Refreshed(u.fs, states[g].snap, MemLen(b)) ELSE u.fs
           need == {k \in walked : fs.own[k] = NoForm}
       IN  /\ MayRefresh(u.fs, sw) \/ (walked = {} /\ ~sw)
           /\ up' = [fs |-> [fs EXCEPT !.own = [k \in Keys |->
                                IF k \in need THEN Built(fs, k, SeeAll) ELSE @[k]]],
                     dirty |-> u.dirty \cup need, complete |-> u.complete,
                     gone |-> u.gone /\ walked = {}, posted |-> {}]
           /\ states' = [states EXCEPT
                  ![g] = Marks(IF sw THEN [@ EXCEPT !.snap =
                                     Offered(u.fs, states[g].snap, MemLen(b))]
                               ELSE @, Orphans(up, g, lost))]
    /\ UNCHANGED <<table, commits, pass, land, hd>>

-----------------------------------------------------------------------------
(* The segment work: a merge or a piece merge landed over the same memtable.  *)

(* carry_published: the forms of the state it replaces, slot by slot, a       *)
(* sparse one of a partition rewritten as a mark.                             *)
LandCarry ==
    /\ Len(states) < MaxGen /\ Len(land) < MaxKey
    /\ LET f == Stands(Len(states), Len(land) + 1)
       IN  \E carried \in {f, Mark} :
           /\ carried # f => "rewrite" \in Allowed /\ f # NoForm
           /\ land' = Append(land, carried)
    /\ UNCHANGED <<table, commits, states, up, pass, hd>>

LandPublish ==
    /\ Len(states) < MaxGen /\ Len(land) = MaxKey
    /\ states' = Append(states, [Blank EXCEPT !.forms = land])
    /\ land' = <<>>
    /\ UNCHANGED <<table, commits, up, pass, hd>>

-----------------------------------------------------------------------------
(* A handle's scan.                                                           *)

Handles1 == <<table, commits, up, pass, land>>

(* enter, or snapshot(): the state pinned, then under dirty nothing bounds    *)
(* the reads, else committed_at's loads: the mark ...                         *)
Enter(h) ==
    /\ hd[h].pc = "out"
    /\ \E i \in Isolations :
       hd' = [hd EXCEPT ![h] = [@ EXCEPT
                !.iso = i, !.n = mark, !.g = Len(states),
                !.pc = IF i = "dirty" THEN "look" ELSE "log",
                !.b = IF i = "dirty"
                      THEN [log |-> Unbounded, len |-> Unbounded, wm |-> SeeAll]
                      ELSE hd[h].b]]
    /\ UNCHANGED <<Handles1, states>>

(* ... the three words it names ...                                           *)
LoadWord(h) ==
    /\ hd[h].pc \in {"log", "len", "wm"}
    /\ LET w == hd[h].pc
       IN  hd' = [hd EXCEPT ![h].b[w] = marks[Marked(hd[h].n)][w],
                            ![h].pc = CASE w = "log" -> "len" [] w = "len" -> "wm"
                                        [] w = "wm" -> "check"]
    /\ UNCHANGED <<Handles1, states>>

(* ... and the mark again: unmoved, or round again.                           *)
Unmoved(h) == mark = hd[h].n
CheckMark(h) ==
    /\ hd[h].pc = "check"
    /\ hd' = [hd EXCEPT ![h].pc = IF Unmoved(h) THEN "look" ELSE "log",
                        ![h].n = IF Unmoved(h) THEN @ ELSE mark]
    /\ UNCHANGED <<Handles1, states>>

(* sync_log and the settle; another state than its blocks' drops them all.    *)
Look(h) ==
    /\ hd[h].pc = "look"
    /\ LET fs == IF hd[h].fs.gen = hd[h].g THEN hd[h].fs ELSE Fresh(hd[h].g)
       IN  hd' = [hd EXCEPT ![h].pc = "snap",
                            ![h].fs = Settled(fs, LogEnd(hd[h].b), hd[h].b.wm)]
    /\ UNCHANGED <<Handles1, states>>

Snap(h) ==
    /\ hd[h].pc = "snap"
    /\ LET fs == hd[h].fs
           g == hd[h].g
           len == MemLen(hd[h].b)
       IN  \E sw \in BOOLEAN :
           /\ MayRefresh(fs, sw)
           /\ hd' = [hd EXCEPT ![h].pc = "at",
                        ![h].fs = IF sw THEN Refreshed(fs, states[g].snap, len) ELSE fs]
           /\ states' = IF sw THEN [states EXCEPT ![g].snap = Offered(fs, @, len)]
                        ELSE states
    /\ UNCHANGED Handles1

(* scan_blocks: whether the published forms are at its own position, and then *)
(* whether they are complete.                                                 *)
LoadAt(h) ==
    /\ hd[h].pc = "at"
    /\ hd' = [hd EXCEPT ![h].pc = "complete",
                        ![h].canon = states[hd[h].g].at = hd[h].b.log]
    /\ UNCHANGED <<Handles1, states>>

LoadComplete(h) ==
    /\ hd[h].pc = "complete"
    /\ hd' = [hd EXCEPT ![h].pc = "walk",
                        ![h].whole = hd[h].canon /\ states[hd[h].g].complete]
    /\ UNCHANGED <<Handles1, states>>

\* A mutant of Canonical: a form published since the position was read is walked.
CanonicalLate(h, k) ==
    LET f == Stands(hd[h].g, k)
    IN  IF ~hd[h].canon \/ f = Mark THEN NoForm
        ELSE IF f # NoForm THEN f
        ELSE IF hd[h].whole THEN [ver |-> 0, vals |-> Base(k)] ELSE NoForm

(* canonical: the published form of block k a handle at its position walks; a *)
(* mark, and a form published past it, are its own to build, and so is an     *)
(* empty slot unless the table is complete, when the block is clean.          *)
Canonical(h, k) ==
    LET f == Stands(hd[h].g, k)
    IN  IF ~hd[h].canon \/ f = Mark THEN NoForm
        ELSE IF f = NoForm
        THEN IF hd[h].whole THEN [ver |-> 0, vals |-> Base(k)] ELSE NoForm
        ELSE IF f.at > hd[h].b.log THEN NoForm ELSE f

Walk(h) ==
    /\ hd[h].pc = "walk" /\ Len(hd[h].out) < MaxKey
    /\ LET k == Len(hd[h].out) + 1
           fs == hd[h].fs
           own == IF fs.own[k] = NoForm THEN Built(fs, k, hd[h].b.wm) ELSE fs.own[k]
           canon == Canonical(h, k)
       IN  hd' = IF canon # NoForm
                 THEN [hd EXCEPT ![h].out = Append(@, canon.vals)]
                 ELSE [hd EXCEPT ![h].out = Append(@, own.vals), ![h].fs.own[k] = own]
    /\ UNCHANGED <<Handles1, states>>

\* A mutant of Again: the second scan goes on in what the first gave.
AgainAfter(h) ==
    /\ hd[h].pc = "walk" /\ Len(hd[h].out) = MaxKey /\ hd[h].iso = "snapshot"
    /\ hd' = [hd EXCEPT ![h].pc = "look", ![h].canon = FALSE, ![h].whole = FALSE]
    /\ UNCHANGED <<Handles1, states>>

(* A handle holding a snapshot scans again at it; any other leaves, and so    *)
(* does this one at its release.                                              *)
Again(h) ==
    /\ hd[h].pc = "walk" /\ Len(hd[h].out) = MaxKey /\ hd[h].iso = "snapshot"
    /\ hd' = [hd EXCEPT ![h].pc = "look", ![h].out = <<>>,
                        ![h].canon = FALSE, ![h].whole = FALSE]
    /\ UNCHANGED <<Handles1, states>>

Leave(h) ==
    /\ hd[h].pc = "walk" /\ Len(hd[h].out) = MaxKey
    /\ hd' = [hd EXCEPT ![h] = Out(@.fs)]
    /\ UNCHANGED <<Handles1, states>>

Scan(h) ==
    \/ Enter(h) \/ LoadWord(h) \/ CheckMark(h) \/ Look(h) \/ Snap(h)
    \/ LoadAt(h) \/ LoadComplete(h) \/ Walk(h) \/ Again(h) \/ Leave(h)

-----------------------------------------------------------------------------
Init ==
    /\ slab = <<>> /\ chain = [k \in Keys |-> <<>>] /\ tail = 1 /\ log = <<>>
    /\ wr = Resting
    /\ mark = 0 /\ marks = [i \in 0..1 |-> Bounds0]
    /\ hist = <<Commit(Bounds0, [k \in Keys |-> Base(k)])>>
    /\ states = <<Blank>>
    /\ up = [fs |-> Fresh(1), dirty |-> {}, complete |-> FALSE, gone |-> FALSE, posted |-> {}]
    /\ pass = Idle /\ land = <<>>
    /\ hd = [h \in Handles |-> Out(Fresh(0))]

Next ==
    \/ Write \/ CommitStore \/ CommitMark
    \/ PassBegin \/ PassLook \/ PassSnap \/ PassFill
    \/ PassPublish \/ PassComplete \/ PassAt \/ GiveUp \/ Claim
    \/ WriterScan \/ LandCarry \/ LandPublish
    \/ \E h \in Handles : Scan(h)

Spec == Init /\ [][Next]_vars

-----------------------------------------------------------------------------
(* Properties.                                                                *)

Forms == [ver : 0..MaxChunk, vals : Seq(0..MaxChunk)]
FormsStates == [gen : 0..MaxGen, seen : 0..MaxChunk, snap : NoSnap..MaxChunk,
                added : SUBSET (1..MaxChunk), own : [Keys -> Forms \cup {NoForm}]]
Published == [at : 0..MaxChunk, ver : -1..MaxChunk, vals : Seq(0..MaxChunk)]

(* Every variable keeps its type, and a scan that has not begun to walk has   *)
(* given nothing yet.                                                         *)
TypeOK ==
    /\ slab \in Seq(Keys) /\ log \in Seq(DOMAIN slab)
    /\ chain \in [Keys -> Seq(-MaxChunk..MaxChunk)] /\ tail \in 1..(MaxChunk + 1)
    /\ wr.pc \in {"idle", "head", "index", "log", "len", "wm", "mark", "claim"}
    /\ wr.id \in 0..Len(slab) /\ mark \in 0..MaxCommit /\ Len(hist) = mark + 1
    /\ \A g \in DOMAIN states :
          /\ states[g].forms \in [Keys -> Published \cup {NoForm}]
          /\ states[g].at \in 0..Unbounded /\ states[g].complete \in BOOLEAN
          /\ states[g].snap \in NoSnap..MaxChunk
    /\ Len(states) \in 1..MaxGen /\ Len(land) \in 0..MaxKey
    /\ up.fs \in FormsStates /\ up.dirty \subseteq Keys /\ up.complete \in BOOLEAN
    /\ up.gone \in BOOLEAN /\ Cardinality(up.posted) <= 1
    /\ pass.pc \in {"idle", "look", "snap", "fill", "publish", "at"}
    /\ \A h \in DOMAIN hd :
          /\ hd[h].fs \in FormsStates /\ hd[h].iso \in Isolations \cup {"latest"}
          /\ hd[h].g \in 0..Len(states) /\ hd[h].n \in 0..mark
          /\ hd[h].pc # "walk" => hd[h].out = <<>>

(* A handle past its loads, and the commit it is to read at.                  *)
Bounded(h) == hd[h].iso # "dirty" /\ hd[h].pc \in {"look", "snap", "at", "complete", "walk"}
View(h) == hist[hd[h].n + 1]

(* The log length, the entry count and the watermark a handle ends with are   *)
(* those of one commit, though the writer stores them, and the handle loads   *)
(* them, one at a time (MemTable::commit, committed_at).                      *)
OneCommit ==
    \A h \in DOMAIN hd : Bounded(h) =>
        \A w \in {"log", "len", "wm"} : hd[h].b[w] = View(h)[w]

(* A point read by such a handle gives the key's values of that commit, at    *)
(* whichever store of a later write the writer stands.                        *)
PointRight ==
    \A h \in DOMAIN hd : Bounded(h) =>
        \A k \in Keys : ReadAll(k, hd[h].b) = View(h).vals[k]

(* A scan gives every key the values of the handle's own commit, whether it   *)
(* walks blocks it patched from the log or published forms, and through any   *)
(* write, commit, pass of the upkeep thread or landing that runs beside it.   *)
(* A dirty scan may give what was written since as well.                      *)
ScanRight ==
    \A h \in DOMAIN hd : \A k \in DOMAIN hd[h].out :
        IF hd[h].iso # "dirty" THEN hd[h].out[k] = View(h).vals[k]
        ELSE \E w \in View(h).wm..SeeAll : hd[h].out[k] = Values(k, w)

(* The forms of a state hold the position it names: a form not published past *)
(* it has the values of the commit there, and where the state is complete a   *)
(* block without a form is the partition's own (publish_dirty, complete_forms,*)
(* rebase_tables, carry_published).                                           *)
FormsRight ==
    \A g \in DOMAIN states : \A c \in DOMAIN hist : \A k \in Keys :
        states[g].at = hist[c].log =>
            LET f == Stands(g, k)
            IN  IF f = NoForm THEN states[g].complete => hist[c].vals[k] = Base(k)
                ELSE f # Mark /\ f.at <= hist[c].log => f.vals = hist[c].vals[k]

(* Once a scan or a whole pass has its snapshot, that and the entries filed   *)
(* since name every entry of its commit once, and none made after it: no key  *)
(* is missing from the blocks it builds and none is merged twice              *)
(* (refresh_snapshot_to, sync_log, fill_forms).                               *)
Names(fs, len) == (1..fs.snap) \cup fs.added = 1..len /\ (1..fs.snap) \cap fs.added = {}
Named ==
    /\ \A h \in DOMAIN hd : hd[h].pc \in {"at", "complete", "walk"} /\ Bounded(h) =>
          Names(hd[h].fs, hd[h].b.len)
    /\ pass.pc \in {"fill", "publish", "at"} /\ ~pass.short => Names(up.fs, pass.b.len)
=============================================================================
