------------------------------ MODULE Readers ------------------------------
(***************************************************************************)
(* How src/src/db.rs frees what readers may still be walking: the reader    *)
(* table (Readers), the lists of replaced things (RetireList) and the       *)
(* threads that pin, publish and sweep with no lock between them.           *)
(*                                                                         *)
(* The module follows one pointer that readers load -- to the state, a       *)
(* snapshot, a canonical form -- and the list its replaced things go on: the  *)
(* n-th thing it has held is n.  What the other pointers and lists do shows   *)
(* here as bumps of the epoch.  A thread's stores to its slot wait in a       *)
(* buffer where the code does not fence them, and reach the others later.     *)
(***************************************************************************)
EXTENDS Naturals, Sequences, FiniteSets

CONSTANTS
    Thread,     \* the handles: callers' readers, the writer, the segment work
    NSlots,     \* ENGINE_SLOTS + READER_SLOTS
    MaxBuf,     \* the stores a thread's buffer holds
    MaxEpoch,   \* bound: the greatest epoch
    MaxThing    \* bound: the things the pointer holds after its first

ASSUME ReadersAssumption ==
    /\ IsFiniteSet(Thread)
    /\ NSlots \in Nat \ {0} /\ MaxBuf \in Nat \ {0} /\ MaxEpoch \in Nat \ {0} /\ MaxThing \in Nat

Slot  == 1..NSlots
Free  == 0                  \* an unclaimed slot
Top   == MaxEpoch + 2       \* u64::MAX: a claimed slot with nothing pinned
Epoch == 1..MaxEpoch
Thing == 0..MaxThing

\* How the pointer's replaced things are retired: retire_state's way,
\* publish_snapshot's, and publish_form's.
Style == {"state", "snap", "form"}
Item  == [thing : Thing, tag : 1..(MaxEpoch + 1)]

VARIABLES
    asym,    \* the sweep fences for the pins (Readers::asym)
    epoch,   \* Readers::epoch
    slot,    \* the slots, as memory has them
    buf,     \* each thread's stores to its slot not yet in memory
    own,     \* the slot each thread has claimed; Free for none
    pc,      \* where each thread stands
    reg,     \* the epoch its pin loaded, or its retirement's tag
    held,    \* the things it has loaded since it pinned
    style,   \* how what the pointer held is retired
    cell,    \* what the pointer points at
    out,     \* what it swapped out and has not pushed yet
    list,    \* the retire list
    hand,    \* the items a sweep has taken
    low,     \* the lowest pin its walk of the slots has met
    at,      \* the next slot of that walk
    todo,    \* the threads its barrier has yet to run on
    freed    \* the things freed

table  == <<asym, style, epoch, slot, buf, own>>
reader == <<reg, held>>
lists  == <<cell, out, list, freed>>
sweep  == <<hand, low, at, todo>>
vars   == <<table, pc, reader, lists, sweep>>

\* Every variable holds what the code's words and pointers can.
TypeOK ==
    /\ asym \in BOOLEAN /\ style \in Style /\ epoch \in Epoch
    /\ slot \in [Slot -> 0..Top] /\ buf \in [Thread -> Seq(Epoch \cup {Top})]
    /\ own \in [Thread -> Slot \cup {Free}]
    /\ pc \in [Thread -> {"out", "idle", "load", "store", "check", "op", "bump",
                          "peek", "push", "after", "ready", "take", "look",
                          "fence", "walk"}]
    /\ reg \in [Thread -> 0..(MaxEpoch + 1)] /\ held \in [Thread -> SUBSET Thing]
    /\ cell \in Thing
    /\ out \in [Thread -> SUBSET Thing] /\ list \subseteq Item
    /\ hand \in [Thread -> SUBSET Item] /\ low \in [Thread -> 1..Top]
    /\ at \in [Thread -> 1..(NSlots + 1)] /\ todo \in [Thread -> SUBSET Thread]
    /\ freed \subseteq Thing

\* Readers::new, and a first thing for the pointer.
Init ==
    /\ asym \in BOOLEAN /\ style \in Style /\ epoch = 1
    /\ slot = [s \in Slot |-> Free] /\ buf = [t \in Thread |-> <<>>]
    /\ own = [t \in Thread |-> Free] /\ pc = [t \in Thread |-> "out"]
    /\ reg = [t \in Thread |-> 0] /\ held = [t \in Thread |-> {}]
    /\ cell = 0 /\ out = [t \in Thread |-> {}] /\ list = {}
    /\ hand = [t \in Thread |-> {}] /\ low = [t \in Thread |-> Top]
    /\ at = [t \in Thread |-> 1] /\ todo = [t \in Thread |-> {}]
    /\ freed = {}

\* The bound on epochs, taken where a step that owes a bump begins.
Owes(t) == \/ pc[t] \in {"bump", "after", "ready"}
           \/ style = "snap" /\ pc[t] \in {"peek", "push"}
Room == epoch + Cardinality({t \in Thread : Owes(t)}) < MaxEpoch

Go(t, p) == pc' = [pc EXCEPT ![t] = p]

\* Memory's slots once t's stores have all reached it.
Flushed(t) == IF buf[t] = <<>> THEN slot
              ELSE [slot EXCEPT ![own[t]] = buf[t][Len(buf[t])]]

\* A store of t's to its slot, fenced or left in the buffer.
Fenced(t, v) == slot' = [slot EXCEPT ![own[t]] = v] /\ buf' = [buf EXCEPT ![t] = <<>>]
Plain(t, v)  == Len(buf[t]) < MaxBuf /\ buf' = [buf EXCEPT ![t] = Append(@, v)] /\ UNCHANGED slot

\* The oldest of those stores reaches memory.
Drain(t) ==
    /\ buf[t] # <<>>
    /\ slot' = [slot EXCEPT ![own[t]] = Head(buf[t])]
    /\ buf' = [buf EXCEPT ![t] = Tail(@)]
    /\ UNCHANGED <<asym, style, epoch, own, pc, reader, lists, sweep>>

-----------------------------------------------------------------------------
(* The handle.                                                              *)

\* Readers::claim_in: a free slot, by compare-and-swap.
Claim(t) ==
    /\ pc[t] = "out"
    /\ \E s \in Slot :
        /\ slot[s] = Free
        /\ slot' = [slot EXCEPT ![s] = Top]
        /\ own' = [own EXCEPT ![t] = s]
    /\ Go(t, "idle")
    /\ UNCHANGED <<asym, style, epoch, buf, reader, lists, sweep>>

\* Readers::release.
Release(t) ==
    /\ pc[t] = "idle"
    /\ Fenced(t, Free)
    /\ own' = [own EXCEPT ![t] = Free]
    /\ Go(t, "out")
    /\ UNCHANGED <<asym, style, epoch, reader, lists, sweep>>

\* Readers::pin: the epoch loaded,
PinLoad(t) ==
    /\ pc[t] \in {"idle", "load"}
    /\ reg' = [reg EXCEPT ![t] = epoch]
    /\ Go(t, "store")
    /\ UNCHANGED <<table, held, lists, sweep>>

\* stored in the slot, fenced where the sweep does not fence,
PinStore(t) ==
    /\ pc[t] = "store"
    /\ IF asym THEN Plain(t, reg[t]) ELSE Fenced(t, reg[t])
    /\ Go(t, "check")
    /\ UNCHANGED <<asym, style, epoch, own, reader, lists, sweep>>

\* and loaded again; a pin that holds then loads the state.
PinCheck(t) ==
    /\ pc[t] = "check"
    /\ Go(t, IF epoch = reg[t] THEN "op" ELSE "load")
    /\ reg' = [reg EXCEPT ![t] = 0]
    /\ UNCHANGED <<table, held, lists, sweep>>

\* A pointer followed during the operation.
Load(t) ==
    /\ pc[t] = "op"
    /\ held' = [held EXCEPT ![t] = @ \cup {cell}]
    /\ UNCHANGED <<table, pc, reg, lists, sweep>>

\* Readers::unpin, as the operation ends.
Unpin(t) ==
    /\ pc[t] = "op"
    /\ held' = [held EXCEPT ![t] = {}]
    /\ Plain(t, Top)
    /\ Go(t, "idle")
    /\ UNCHANGED <<asym, style, epoch, own, reg, lists, sweep>>

-----------------------------------------------------------------------------
(* A publish: what it replaces is tagged and pushed.                         *)

(***************************************************************************)
(* The compare-and-swap of a publish, which holds what it replaces:          *)
(* publish_segs_with and try_publish_writer_away of a state,                 *)
(* publish_snapshot of a snapshot, publish_form of a form.                   *)
(***************************************************************************)
Swap(t) ==
    /\ pc[t] = "op" /\ cell \in held[t]
    /\ cell < MaxThing /\ (style = "form" \/ Room)
    /\ cell' = cell + 1
    /\ out' = [out EXCEPT ![t] = {cell}]
    /\ held' = [held EXCEPT ![t] = @ \cup {cell + 1}]
    /\ Go(t, IF style = "state" THEN "bump" ELSE "peek")
    /\ UNCHANGED <<table, reg, list, freed, sweep>>

\* Readers::bump.
Bump == epoch' = epoch + 1

\* The bump of a publish of another pointer's.
BumpElsewhere(t) ==
    /\ pc[t] = "op" /\ Room /\ Bump
    /\ UNCHANGED <<asym, style, slot, buf, own, pc, reader, lists, sweep>>

\* retire_state: the tag is the epoch the bump makes.
BumpTag(t) ==
    /\ pc[t] = "bump" /\ Bump
    /\ reg' = [reg EXCEPT ![t] = epoch + 1]
    /\ Go(t, "push")
    /\ UNCHANGED <<asym, style, slot, buf, own, held, lists, sweep>>

\* Mutants of PeekTag: the tag is the epoch loaded, or one past the next.
PeekTagFar(t) ==
    /\ pc[t] = "peek"
    /\ reg' = [reg EXCEPT ![t] = epoch + 2]
    /\ Go(t, "push")
    /\ UNCHANGED <<table, held, lists, sweep>>
PeekTagNow(t) ==
    /\ pc[t] = "peek"
    /\ reg' = [reg EXCEPT ![t] = epoch]
    /\ Go(t, "push")
    /\ UNCHANGED <<table, held, lists, sweep>>

\* A snapshot or a form: the tag is the epoch after the one loaded, which no
\* bump need have reached.
PeekTag(t) ==
    /\ pc[t] = "peek"
    /\ reg' = [reg EXCEPT ![t] = epoch + 1]
    /\ Go(t, "push")
    /\ UNCHANGED <<table, held, lists, sweep>>

\* RetireList::push; a form is then left to a later sweep.
Push(t) ==
    /\ pc[t] = "push"
    /\ list' = list \cup {[thing |-> o, tag |-> reg[t]] : o \in out[t]}
    /\ out' = [out EXCEPT ![t] = {}] /\ reg' = [reg EXCEPT ![t] = 0]
    /\ Go(t, CASE style = "state" -> "take"
               [] style = "snap"  -> "after"
               [] style = "form"  -> "op")
    /\ UNCHANGED <<table, held, cell, freed, sweep>>

\* publish_snapshot's bump behind its push, and sweep_retired_forms's ahead of
\* its sweep.
BumpAfter(t) ==
    /\ pc[t] \in {"after", "ready"} /\ Bump
    /\ Go(t, "take")
    /\ UNCHANGED <<asym, style, slot, buf, own, reader, lists, sweep>>

-----------------------------------------------------------------------------
(* A sweep, inside an operation or at its end.                               *)

Back(t) == IF held[t] # {} THEN "op" ELSE "idle"

\* A sweep begun where there is something to sweep.
Sweep(t) ==
    /\ list # {} /\ (style # "form" \/ Room)
    /\ pc[t] = "idle" \/ (pc[t] = "op" /\ held[t] # {})
    /\ Go(t, IF style = "form" THEN "ready" ELSE "take")
    /\ UNCHANGED <<table, reader, lists, sweep>>

\* A mutant of Take that reads the list and does not take it.
TakeLeaves(t) ==
    /\ pc[t] = "take"
    /\ hand' = [hand EXCEPT ![t] = list]
    /\ Go(t, IF list = {} THEN Back(t) ELSE IF asym THEN "look" ELSE "walk")
    /\ UNCHANGED <<table, reader, lists, low, at, todo>>

\* RetireList::sweep: the whole list taken, before the pins are read.
Take(t) ==
    /\ pc[t] = "take"
    /\ hand' = [hand EXCEPT ![t] = list]
    /\ list' = {}
    /\ Go(t, IF list = {} THEN Back(t) ELSE IF asym THEN "look" ELSE "walk")
    /\ UNCHANGED <<table, reader, cell, out, freed, low, at, todo>>

\* Readers::walk_pins, one slot of it.
WalkPins(t) ==
    /\ pc[t] \in {"look", "walk"} /\ at[t] <= NSlots
    /\ LET v == slot[at[t]] IN
        low' = [low EXCEPT ![t] = IF v # Free /\ v < @ THEN v ELSE @]
    /\ at' = [at EXCEPT ![t] = @ + 1]
    /\ UNCHANGED <<table, pc, reader, lists, hand, todo>>

Walked(t) == at[t] > NSlots

\* A pin met is below the lowest tag taken.
BelowAll(t) == \A i \in hand[t] : low[t] < i.tag

\* A mutant of OldestFor that takes the walk without the barrier for enough.
OldestForUnfenced(t) ==
    /\ pc[t] = "look" /\ Walked(t)
    /\ Go(t, "walk")
    /\ UNCHANGED <<table, reader, lists, sweep>>

\* Readers::oldest_for, where the sweep fences: a pin below every tag, seen
\* without the barrier, ends the sweep; otherwise the barrier is issued.
OldestFor(t) ==
    /\ pc[t] = "look" /\ Walked(t)
    /\ IF BelowAll(t)
       THEN Go(t, "walk") /\ UNCHANGED <<low, at, todo>>
       ELSE /\ Go(t, "fence") /\ todo' = [todo EXCEPT ![t] = Thread]
            /\ low' = [low EXCEPT ![t] = Top] /\ at' = [at EXCEPT ![t] = 1]
    /\ UNCHANGED <<table, reader, lists, hand>>

\* Readers::sync_pins: membarrier runs a barrier on every thread, each in its
\* time, and returns once it has.
SyncPins(t) ==
    /\ pc[t] = "fence"
    /\ \/ \E u \in todo[t] :
            /\ slot' = Flushed(u)
            /\ buf' = [buf EXCEPT ![u] = <<>>]
            /\ todo' = [todo EXCEPT ![t] = @ \ {u}]
            /\ UNCHANGED pc
       \/ /\ todo[t] = {} /\ Go(t, "walk")
          /\ UNCHANGED <<slot, buf, todo>>
    /\ UNCHANGED <<asym, style, epoch, own, reader, lists, hand, low, at>>

\* The end of RetireList::sweep: what no pin is older than is freed, and the
\* rest put back.
FreeOld(t) ==
    LET old == {i \in hand[t] : i.tag <= low[t]} IN
    /\ pc[t] = "walk" /\ Walked(t)
    /\ freed' = freed \cup {i.thing : i \in old}
    /\ list' = list \cup (hand[t] \ old)
    /\ hand' = [hand EXCEPT ![t] = {}]
    /\ low' = [low EXCEPT ![t] = Top] /\ at' = [at EXCEPT ![t] = 1]
    /\ Go(t, Back(t))
    /\ UNCHANGED <<table, reader, cell, out, todo>>

-----------------------------------------------------------------------------
Step(t) ==
    \/ Drain(t) \/ Claim(t) \/ Release(t)
    \/ PinLoad(t) \/ PinStore(t) \/ PinCheck(t) \/ Unpin(t)
    \/ Load(t) \/ Swap(t) \/ Sweep(t) \/ BumpElsewhere(t)
    \/ BumpTag(t) \/ PeekTag(t) \/ Push(t) \/ BumpAfter(t)
    \/ Take(t) \/ WalkPins(t) \/ OldestFor(t) \/ SyncPins(t) \/ FreeOld(t)

Next == \E t \in Thread : Step(t)

Spec == Init /\ [][Next]_vars

-----------------------------------------------------------------------------
(* Properties.                                                              *)

\* Nothing a thread has loaded since it pinned is freed under it, nor what the
\* pointer leads to: whoever sweeps, whatever was pushed or bumped
\* meanwhile, and with the pin's store still on its way to memory.
NoUseAfterFree ==
    /\ \A t \in Thread : held[t] \cap freed = {}
    /\ cell \notin freed

\* Everything replaced is in one place: swapped out and not pushed, in its
\* list, in one sweep's hands, or freed.  Two sweeps that split a list, and
\* pushes meanwhile, neither free a thing twice nor lose one.
Places(o) ==
    Cardinality({t \in Thread : o \in out[t]})
    + Cardinality({i \in list : i.thing = o})
    + Cardinality({t \in Thread : \E i \in hand[t] : i.thing = o})
    + (IF o \in freed THEN 1 ELSE 0)
RetiredOnce ==
    \A n \in Thing : Places(n) = IF n < cell THEN 1 ELSE 0

\* What the sweep relies on: a thread inside an operation is pinned, in memory or
\* once its stores have reached it, in a slot of its own, and below the tag of
\* everything it holds that has been retired since.
Pinned(t) == Flushed(t)[own[t]]
PinsCover ==
    \A t \in Thread : held[t] # {} =>
        /\ Pinned(t) \in 1..epoch
        /\ \A u \in Thread \ {t} : own[u] # own[t]
        /\ \A i \in list \cup UNION {hand[u] : u \in Thread} :
              i.thing \in held[t] => Pinned(t) < i.tag
=============================================================================
