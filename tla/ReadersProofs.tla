--------------------------- MODULE ReadersProofs ---------------------------
(***************************************************************************)
(* Nothing is freed under a reader, for any number of threads, slots,        *)
(* epochs, buffered stores and replaced things: the invariant that a pin,    *)
(* a publish and a sweep keep between them with no lock, and its proof.      *)
(***************************************************************************)
EXTENDS Readers, SequenceTheorems, FiniteSetTheorems, TLAPS

\* The shape of the variables.  The bounds of TypeOK play no part here.
Retirement == [thing : Nat, tag : Nat]
Place == {"out", "idle", "load", "store", "check", "op", "bump", "peek", "push",
          "after", "ready", "take", "look", "fence", "walk"}
Shape ==
    /\ asym \in BOOLEAN /\ style \in Style
    /\ epoch \in Nat \ {0} /\ cell \in Nat /\ freed \subseteq Nat
    /\ slot \in [Slot -> Nat] /\ buf \in [Thread -> Seq(Nat \ {0})]
    /\ own \in [Thread -> Slot \cup {Free}] /\ pc \in [Thread -> Place]
    /\ reg \in [Thread -> Nat] /\ held \in [Thread -> SUBSET Nat]
    /\ out \in [Thread -> SUBSET Nat] /\ list \subseteq Retirement
    /\ hand \in [Thread -> SUBSET Retirement] /\ low \in [Thread -> Nat]
    /\ at \in [Thread -> Nat] /\ todo \in [Thread -> SUBSET Thread]

\* A slot has one owner, which is not taken for free while it has, and only an
\* owner has stores on their way.
OwnInv ==
    \A t \in Thread :
        /\ own[t] = Free <=> pc[t] = "out"
        /\ own[t] = Free => buf[t] = <<>>
        /\ own[t] # Free => slot[own[t]] # Free
        /\ \A u \in Thread : u # t /\ own[u] = own[t] => own[t] = Free

\* Where a thread is inside an operation.
Inside(t) == held[t] # {} \/ pc[t] \in {"op", "bump", "peek", "push", "after"}

\* What a pin leaves, step by step; and that a fenced one is in memory.
PinInv ==
    \A t \in Thread :
        /\ pc[t] \in {"store", "check"} => reg[t] \in 1..epoch
        /\ pc[t] = "check" => Pinned(t) = reg[t]
        /\ pc[t] = "check" /\ ~asym => buf[t] = <<>>
        /\ pc[t] \in {"out", "idle", "load", "store", "check"} => held[t] = {}
        /\ Inside(t) => Pinned(t) \in 1..epoch
        /\ Inside(t) /\ ~asym => buf[t] = <<>>

\* What is retired is older than what the pointer leads to.
OldInv ==
    /\ \A t \in Thread : \A o \in out[t] : o < cell
    /\ \A i \in list : i.thing < cell
    /\ \A t \in Thread : \A i \in hand[t] : i.thing < cell
    /\ \A o \in freed : o < cell

\* A thread that holds a retired thing is pinned below its tag, wherever the
\* thing is on its way to be freed.
TagInv ==
    \A t \in Thread :
        /\ \A u \in Thread : pc[u] = "push" =>
              \A o \in out[u] \cap held[t] : Pinned(t) < reg[u]
        /\ \A i \in list : i.thing \in held[t] => Pinned(t) < i.tag
        /\ \A u \in Thread : \A i \in hand[u] : i.thing \in held[t] => Pinned(t) < i.tag

\* A sweep about to free a thing that t holds has met t's pin or will: the
\* barrier has brought it to memory, and the walk is not past its slot.
Meets(u, t, i) == low[u] < i.tag \/ (at[u] <= own[t] /\ buf[t] = <<>>)
SweepInv ==
    \A u \in Thread :
        /\ pc[u] \notin {"look", "walk"} => at[u] = 1
        /\ at[u] >= 1
        /\ \A t \in Thread : \A i \in hand[u] : i.thing \in held[t] =>
              /\ pc[u] = "fence" /\ t \notin todo[u] => buf[t] = <<>>
              /\ pc[u] = "walk" => Meets(u, t, i)

HeldInv == \A t \in Thread : held[t] \cap freed = {}

PinnedInv == /\ Shape /\ OwnInv /\ PinInv /\ OldInv /\ TagInv /\ SweepInv /\ HeldInv

-----------------------------------------------------------------------------
\* Readers::new.
LEMMA PinnedInit == Init => PinnedInv
<1> SUFFICES ASSUME Init PROVE PinnedInv
    OBVIOUS
<1>1. Shape
    BY ReadersAssumption DEF Init, Shape, Place, Slot, Free, Top
<1>2. OwnInv /\ OldInv /\ HeldInv
    BY DEF Init, OwnInv, OldInv, HeldInv
<1>3. PinInv
    BY DEF Init, PinInv, Inside
<1>4. TagInv /\ SweepInv
    BY DEF Init, TagInv, SweepInv
<1> QED
    BY <1>1, <1>2, <1>3, <1>4 DEF PinnedInv

\* Every step of every thread keeps the variables' shape.
LEMMA ShapeStep ==
    ASSUME Shape, OwnInv, PinInv, SweepInv, NEW t \in Thread, Step(t)
    PROVE  Shape'
<1> USE ReadersAssumption DEF Shape, Place
<1>a. <<>> \in Seq(Nat \ {0})
    OBVIOUS
<1>1. CASE Drain(t)
    <2>1. buf[t] \in Seq(Nat \ {0}) /\ buf[t] # <<>>
        BY <1>1 DEF Drain
    <2>2. Head(buf[t]) \in Nat /\ Tail(buf[t]) \in Seq(Nat \ {0})
        BY <2>1
    <2> QED
        BY <1>1, <2>2 DEF Drain, reader, lists, sweep
<1>2. CASE Claim(t)
    <2>1. Top \in Nat
        BY DEF Top
    <2>2. slot' \in [Slot -> Nat] /\ own' \in [Thread -> Slot \cup {Free}]
        BY <1>2, <2>1 DEF Claim
    <2> QED
        BY <1>2, <2>2 DEF Claim, Go, reader, lists, sweep
<1>3. CASE Release(t)
    <2>1. Free \in Nat
        BY DEF Free
    <2>2. slot' \in [Slot -> Nat] /\ buf' \in [Thread -> Seq(Nat \ {0})]
        BY <1>3, <1>a, <2>1 DEF Release, Fenced
    <2>3. own' \in [Thread -> Slot \cup {Free}] /\ pc' \in [Thread -> Place]
        BY <1>3 DEF Release, Go
    <2> QED
        BY <1>3, <2>2, <2>3 DEF Release, reader, lists, sweep
<1>4. CASE PinLoad(t)
    BY <1>4 DEF PinLoad, Go, table, lists, sweep
<1>5. CASE PinStore(t)
    <2>1. reg[t] \in Nat \ {0}
        BY <1>5 DEF PinStore, PinInv
    <2>2. Append(buf[t], reg[t]) \in Seq(Nat \ {0})
        BY <2>1
    <2>3. slot' \in [Slot -> Nat] /\ buf' \in [Thread -> Seq(Nat \ {0})]
        BY <1>5, <1>a, <2>1, <2>2 DEF PinStore, Plain, Fenced
    <2>4. pc' \in [Thread -> Place]
        BY <1>5 DEF PinStore, Go
    <2> QED
        BY <1>5, <2>3, <2>4 DEF PinStore, reader, lists, sweep
<1>6. CASE PinCheck(t)
    BY <1>6 DEF PinCheck, Go, table, lists, sweep
<1>7. CASE Unpin(t)
    <2>1. Append(buf[t], Top) \in Seq(Nat \ {0})
        BY DEF Top
    <2> QED
        BY <1>7, <2>1 DEF Unpin, Plain, Go, lists, sweep
<1>8. CASE Load(t)
    BY <1>8 DEF Load, table, lists, sweep
<1>9. CASE Swap(t)
    BY <1>9 DEF Swap, Go, table, sweep
<1>10. CASE Sweep(t)
    BY <1>10 DEF Sweep, Go, table, reader, lists, sweep
<1>11. CASE BumpElsewhere(t)
    BY <1>11 DEF BumpElsewhere, Bump, reader, lists, sweep
<1>12. CASE BumpTag(t)
    BY <1>12 DEF BumpTag, Bump, Go, lists, sweep
<1>13. CASE PeekTag(t)
    BY <1>13 DEF PeekTag, Go, table, lists, sweep
<1>14. CASE Push(t)
    <2>1. {[thing |-> o, tag |-> reg[t]] : o \in out[t]} \subseteq Retirement
        BY DEF Retirement
    <2>2. pc' \in [Thread -> Place]
        BY <1>14 DEF Push, Go, Style
    <2>3. list' \subseteq Retirement
        BY <1>14, <2>1 DEF Push
    <2> QED
        BY <1>14, <2>2, <2>3 DEF Push, table, sweep
<1>15. CASE BumpAfter(t)
    BY <1>15 DEF BumpAfter, Bump, Go, reader, lists, sweep
<1>16. CASE Take(t)
    BY <1>16 DEF Take, Back, Go, table, reader
<1>17. CASE WalkPins(t)
    <2>1. slot[at[t]] \in Nat
        BY <1>17 DEF WalkPins, SweepInv, Slot
    <2> QED
        <3>1. low' \in [Thread -> Nat] /\ at' \in [Thread -> Nat]
            <4>1. low \in [Thread -> Nat] /\ at \in [Thread -> Nat]
                OBVIOUS
            <4>2. PICK v \in Nat : v = slot[at[t]]
                BY <2>1
            <4>3. low' = [low EXCEPT ![t] = IF v # Free /\ v < @ THEN v ELSE @]
                  /\ at' = [at EXCEPT ![t] = @ + 1]
                BY <1>17, <4>2, Zenon DEF WalkPins
            <4> QED
                BY ONLY <4>1, <4>3
        <3> QED
            BY <1>17, <3>1 DEF WalkPins, table, reader, lists
<1>18. CASE OldestFor(t)
    <2>1. Top \in Nat
        BY DEF Top
    <2>2. CASE BelowAll(t)
        BY <1>18, <2>2 DEF OldestFor, Go, table, reader, lists
    <2>3. CASE ~BelowAll(t)
        <3>1. /\ pc' = [pc EXCEPT ![t] = "fence"]
              /\ todo' = [todo EXCEPT ![t] = Thread]
              /\ low' = [low EXCEPT ![t] = Top] /\ at' = [at EXCEPT ![t] = 1]
            BY <1>18, <2>3, Zenon DEF OldestFor, Go
        <3>2. pc' \in [Thread -> Place] /\ todo' \in [Thread -> SUBSET Thread]
            BY <3>1
        <3>3. low' \in [Thread -> Nat] /\ at' \in [Thread -> Nat]
            BY <2>1, <3>1
        <3> QED
            BY <1>18, <3>2, <3>3 DEF OldestFor, table, reader, lists
    <2> QED
        BY <2>2, <2>3
<1>19. CASE SyncPins(t)
    <2>1. ASSUME NEW u \in Thread PROVE Flushed(u) \in [Slot -> Nat]
        <3>1. buf[u] # <<>> => buf[u][Len(buf[u])] \in Nat
            OBVIOUS
        <3> QED
            BY <3>1 DEF Flushed
    <2>2. slot' \in [Slot -> Nat] /\ buf' \in [Thread -> Seq(Nat \ {0})]
        <3>1. CASE UNCHANGED <<slot, buf>>
            BY <3>1
        <3>2. ASSUME NEW u \in todo[t], slot' = Flushed(u), buf' = [buf EXCEPT ![u] = <<>>]
              PROVE  slot' \in [Slot -> Nat] /\ buf' \in [Thread -> Seq(Nat \ {0})]
            <4>1. u \in Thread
                BY <3>2
            <4> QED
                BY <1>a, <2>1, <3>2, <4>1
        <3> QED
            BY <1>19, <3>1, <3>2 DEF SyncPins
    <2>3. pc' \in [Thread -> Place] /\ todo' \in [Thread -> SUBSET Thread]
        <3>1. pc' = pc \/ pc' = [pc EXCEPT ![t] = "walk"]
            BY <1>19 DEF SyncPins, Go
        <3>2. todo' = todo \/ \E u \in todo[t] : todo' = [todo EXCEPT ![t] = @ \ {u}]
            BY <1>19 DEF SyncPins
        <3>3. pc' \in [Thread -> Place]
            BY <3>1
        <3>4. todo' \in [Thread -> SUBSET Thread]
            <4>1. ASSUME NEW u \in todo[t], todo' = [todo EXCEPT ![t] = todo[t] \ {u}]
                  PROVE  todo' \in [Thread -> SUBSET Thread]
                <5>1. todo[t] \ {u} \in SUBSET Thread
                    OBVIOUS
                <5> HIDE DEF Place
                <5> QED
                    BY <4>1, <5>1
            <4> QED
                BY <3>2, <4>1
        <3> QED
            BY <3>3, <3>4
    <2> QED
        BY <1>19, <2>2, <2>3 DEF SyncPins, reader, lists
<1>20. CASE FreeOld(t)
    <2>1. Top \in Nat
        BY DEF Top
    <2>2. freed' \subseteq Nat /\ list' \subseteq Retirement
        <3>1. \A i \in hand[t] : i \in Retirement /\ i.thing \in Nat
            BY DEF Retirement
        <3>2. freed' \subseteq Nat
            BY <1>20, <3>1 DEF FreeOld
        <3>3. list' \subseteq Retirement
            BY <1>20, <3>1 DEF FreeOld
        <3> QED
            BY <3>2, <3>3
    <2>3. pc' \in [Thread -> Place] /\ hand' \in [Thread -> SUBSET Retirement]
        BY <1>20 DEF FreeOld, Back, Go
    <2>4. low' \in [Thread -> Nat] /\ at' \in [Thread -> Nat]
        BY <1>20, <2>1 DEF FreeOld
    <2> QED
        BY <1>20, <2>2, <2>3, <2>4 DEF FreeOld, table, reader
<1> QED
    BY <1>1, <1>2, <1>3, <1>4, <1>5, <1>6, <1>7, <1>8, <1>9, <1>10, <1>11, <1>12,
       <1>13, <1>14, <1>15, <1>16, <1>17, <1>18, <1>19, <1>20 DEF Step

-----------------------------------------------------------------------------
\* A step that leaves u's claim and pin alone, whatever it does to where the
\* pin's store is; none of u's stores is lost or made.
Still(u) ==
    /\ own'[u] = own[u]
    /\ Pinned(u)' = Pinned(u)
    /\ buf[u] = <<>> => buf'[u] = <<>>

\* A pin is still where neither its slot nor its thread's stores change.
LEMMA StillFrame ==
    ASSUME Shape, Shape', NEW u \in Thread, own[u] # Free, own'[u] = own[u],
           buf'[u] = buf[u], slot'[own[u]] = slot[own[u]]
    PROVE  Still(u)
<1>1. own[u] \in Slot
    BY DEF Shape
<1>2. CASE buf[u] = <<>>
    BY <1>2 DEF Still, Pinned, Flushed
<1>3. CASE buf[u] # <<>>
    <2>1. Pinned(u) = buf[u][Len(buf[u])]
        BY <1>1, <1>3 DEF Pinned, Flushed, Shape
    <2>2. Pinned(u)' = buf'[u][Len(buf'[u])]
        BY <1>1, <1>3 DEF Pinned, Flushed, Shape
    <2> QED
        BY <1>3, <2>1, <2>2 DEF Still
<1> QED
    BY <1>2, <1>3

\* The oldest of a thread's stores, as it reaches memory, leaves the newest.
LEMMA StillDrain ==
    ASSUME Shape, Shape', OwnInv, NEW t \in Thread, Drain(t)
    PROVE  Still(t)
<1>1. own[t] \in Slot /\ own'[t] = own[t]
    BY DEF Drain, OwnInv, Shape
<1>2. /\ buf[t] \in Seq(Nat \ {0}) /\ buf[t] # <<>>
      /\ buf'[t] = Tail(buf[t]) /\ slot'[own[t]] = Head(buf[t])
    BY <1>1 DEF Drain, Shape
<1>3. Pinned(t) = buf[t][Len(buf[t])]
    BY <1>1, <1>2 DEF Pinned, Flushed, Shape
<1>4. CASE Tail(buf[t]) = <<>>
    <2>1. Len(buf[t]) = 1 /\ Head(buf[t]) = buf[t][1]
        <3>1. Len(buf[t]) \in Nat /\ Len(Tail(buf[t])) = Len(buf[t]) - 1
            <4>1. Len(buf[t]) \in Nat
                BY <1>2
            <4>2. Len(Tail(buf[t])) = Len(buf[t]) - 1
                BY <1>2, HeadTailProperties, Zenon
            <4> QED
                BY <4>1, <4>2
        <3>2. Len(Tail(buf[t])) = 0
            BY <1>4, EmptySeq, Zenon
        <3>3. Head(buf[t]) = buf[t][1]
            BY <1>2
        <3> QED
            BY <3>1, <3>2, <3>3
    <2>2. Pinned(t)' = slot'[own[t]]
        BY <1>1, <1>2, <1>4 DEF Pinned, Flushed
    <2> QED
        BY <1>1, <1>2, <1>3, <2>1, <2>2 DEF Still
<1>5. CASE Tail(buf[t]) # <<>>
    <2>1. Tail(buf[t])[Len(Tail(buf[t]))] = buf[t][Len(buf[t])]
        <3> DEFINE n == Len(buf[t])
        <3>1. /\ Tail(buf[t]) \in Seq(Nat \ {0})
              /\ Len(Tail(buf[t])) = n - 1 /\ n \in Nat
              /\ \A k \in 1..Len(Tail(buf[t])) : Tail(buf[t])[k] = buf[t][k + 1]
            BY <1>2, HeadTailProperties
        <3>2. Len(Tail(buf[t])) \in Nat \ {0}
            <4>1. \A q \in Seq(Nat \ {0}) : q # <<>> => Len(q) \in Nat \ {0}
                BY EmptySeq, Zenon
            <4> QED
                BY <1>5, <3>1, <4>1
        <3>3. \A m \in Nat \ {0} : m \in 1..m
            OBVIOUS
        <3>4. Tail(buf[t])[Len(Tail(buf[t]))] = buf[t][Len(Tail(buf[t])) + 1]
            BY <3>1, <3>2, <3>3, Zenon
        <3>5. (n - 1) + 1 = n
            BY <3>1
        <3> QED
            BY <3>1, <3>4, <3>5, Zenon
    <2>2. Pinned(t)' = buf'[t][Len(buf'[t])]
        BY <1>1, <1>2, <1>5 DEF Pinned, Flushed, Shape
    <2> QED
        BY <1>1, <1>2, <1>3, <2>1, <2>2 DEF Still
<1> QED
    BY <1>4, <1>5

\* A barrier on u brings its pin to memory.
LEMMA StillFlush ==
    ASSUME Shape, Shape', NEW u \in Thread, own[u] # Free, own' = own,
           slot' = Flushed(u), buf' = [buf EXCEPT ![u] = <<>>]
    PROVE  Still(u) /\ buf'[u] = <<>>
<1>1. buf'[u] = <<>>
    BY DEF Shape
<1>2. Pinned(u)' = Flushed(u)[own[u]]
    BY <1>1 DEF Pinned, Flushed
<1> QED
    BY <1>1, <1>2 DEF Still, Pinned

\* The steps that touch the slots and the stores to them.
LEMMA TableFrame ==
    ASSUME NEW t \in Thread, Step(t),
           ~(Drain(t) \/ Claim(t) \/ Release(t) \/ PinStore(t) \/ Unpin(t) \/ SyncPins(t))
    PROVE  UNCHANGED <<slot, buf, own>>
BY Zenon DEF Step, PinLoad, PinCheck, Load, Swap, Sweep, BumpElsewhere, BumpTag, PeekTag, Push,
       BumpAfter, Take, WalkPins, OldestFor, FreeOld, table

\* A step moves no pin but its own thread's, which only a new pin, an unpin and
\* a release do: no thread claims a slot another owns, or stores to one.
LEMMA PinsStill ==
    ASSUME Shape, Shape', OwnInv, NEW t \in Thread, Step(t),
           NEW u \in Thread, own[u] # Free,
           u = t => ~(Release(t) \/ PinStore(t) \/ Unpin(t))
    PROVE  Still(u)
<1>a. own[u] \in Slot
    BY DEF Shape
<1>b. ASSUME NEW x \in Thread, x # u PROVE own[x] # own[u]
    BY <1>b DEF OwnInv
<1>1. CASE UNCHANGED <<slot, buf, own>>
    BY <1>1, StillFrame
<1>2. CASE Drain(t)
    <2>1. CASE u = t
        BY <1>2, <2>1, StillDrain
    <2>2. CASE u # t
        <3>1. own[t] # own[u]
            BY <1>b, <2>2
        <3>2. own'[u] = own[u] /\ buf'[u] = buf[u] /\ slot'[own[u]] = slot[own[u]]
            BY <1>2, <1>a, <2>2, <3>1 DEF Drain, Shape
        <3> QED
            BY <3>2, StillFrame
    <2> QED
        BY <2>1, <2>2
<1>3. CASE Claim(t)
    <2>1. own[t] = Free /\ u # t
        BY <1>3 DEF Claim, OwnInv
    <2>2. PICK s \in Slot : /\ slot[s] = Free /\ slot' = [slot EXCEPT ![s] = Top]
                            /\ own' = [own EXCEPT ![t] = s]
        BY <1>3 DEF Claim
    <2>3. s # own[u]
        BY <2>2 DEF OwnInv
    <2>4. own'[u] = own[u] /\ buf'[u] = buf[u] /\ slot'[own[u]] = slot[own[u]]
        BY <1>3, <1>a, <2>1, <2>2, <2>3 DEF Claim, Shape
    <2> QED
        BY <2>4, StillFrame
<1>4. CASE Release(t) \/ PinStore(t) \/ Unpin(t)
    <2>1. u # t /\ own[t] # own[u]
        BY <1>4, <1>b
    <2>2. own'[u] = own[u] /\ buf'[u] = buf[u] /\ slot'[own[u]] = slot[own[u]]
        <3>1. CASE Release(t)
            BY <3>1, <1>a, <2>1 DEF Release, Fenced, Shape
        <3>2. CASE PinStore(t)
            BY <3>2, <1>a, <2>1 DEF PinStore, Plain, Fenced, Shape
        <3>3. CASE Unpin(t)
            BY <3>3, <1>a, <2>1 DEF Unpin, Plain, Shape
        <3> QED
            BY <1>4, <3>1, <3>2, <3>3
    <2> QED
        BY <2>2, StillFrame
<1>5. CASE SyncPins(t)
    <2>1. own' = own
        BY <1>5 DEF SyncPins
    <2>2. ASSUME NEW x \in Thread, slot' = Flushed(x), buf' = [buf EXCEPT ![x] = <<>>]
          PROVE  Still(u)
        <3>1. CASE x = u
            BY <2>1, <2>2, <3>1, StillFlush
        <3>2. CASE x # u
            <4>1. own[x] # own[u]
                BY <1>b, <3>2
            <4>2. buf'[u] = buf[u] /\ slot'[own[u]] = slot[own[u]]
                BY <1>a, <2>2, <3>2, <4>1 DEF Flushed, Shape
            <4> QED
                BY <2>1, <4>2, StillFrame
        <3> QED
            BY <3>1, <3>2
    <2>3. \A x \in todo[t] : x \in Thread
        BY DEF Shape
    <2> QED
        BY <1>1, <1>5, <2>1, <2>2, <2>3 DEF SyncPins
<1> QED
    BY <1>1, <1>2, <1>3, <1>4, <1>5, TableFrame

\* Only a claim and a release move a thread in and out of the table.
LEMMA OutFrame ==
    ASSUME Shape, NEW t \in Thread, Step(t), ~Claim(t), ~Release(t), NEW u \in Thread
    PROVE  pc'[u] = "out" <=> pc[u] = "out"
<1> USE DEF Shape, Go
<1>1. CASE Drain(t) \/ Load(t) \/ BumpElsewhere(t) \/ WalkPins(t)
    BY <1>1 DEF Drain, Load, BumpElsewhere, WalkPins
<1>2. CASE PinLoad(t) \/ PinStore(t) \/ PinCheck(t) \/ Unpin(t)
    BY <1>2 DEF PinLoad, PinStore, PinCheck, Unpin
<1>3. CASE Swap(t) \/ Sweep(t) \/ BumpTag(t) \/ PeekTag(t) \/ BumpAfter(t)
    BY <1>3 DEF Swap, Sweep, BumpTag, PeekTag, BumpAfter
<1>4. CASE Push(t)
    BY <1>4 DEF Push, Style
<1>5. CASE Take(t) \/ FreeOld(t)
    BY <1>5 DEF Take, FreeOld, Back
<1>6. CASE OldestFor(t)
    BY <1>6 DEF OldestFor
<1>7. CASE SyncPins(t)
    BY <1>7 DEF SyncPins
<1> QED
    BY <1>1, <1>2, <1>3, <1>4, <1>5, <1>6, <1>7 DEF Step

\* Claims and releases keep a slot to one owner.
LEMMA OwnStep ==
    ASSUME Shape, Shape', OwnInv, PinInv, NEW t \in Thread, Step(t)
    PROVE  OwnInv'
<1>a. ASSUME ~Claim(t), ~Release(t), UNCHANGED own,
             \A u \in Thread : own[u] = Free => buf'[u] = <<>>,
             \A u \in Thread : own[u] # Free => slot'[own[u]] # Free
      PROVE  OwnInv'
    <2>1. \A u \in Thread : pc'[u] = "out" <=> pc[u] = "out"
        BY <1>a, OutFrame
    <2> QED
        BY <1>a, <2>1 DEF OwnInv
<1>1. CASE UNCHANGED <<slot, buf, own>>
    <2>1. ~Claim(t) /\ ~Release(t)
        <3>1. CASE Claim(t)
            <4>1. own[t] = Free
                BY <3>1 DEF Claim, OwnInv
            <4>2. \A s \in Slot : s # Free
                BY DEF Slot, Free
            <4> QED
                BY <1>1, <3>1, <4>1, <4>2 DEF Claim, Shape
        <3>2. CASE Release(t)
            BY <1>1, <3>2 DEF Release, OwnInv, Shape
        <3> QED
            BY <3>1, <3>2
    <2> QED
        BY <1>1, <1>a, <2>1 DEF OwnInv
<1>2. CASE Drain(t)
    <2>1. ~Claim(t) /\ ~Release(t)
        BY <1>2 DEF Drain, Claim, Release, Go, Shape
    <2>2. own[t] \in Slot /\ own[t] # Free
        BY <1>2 DEF Drain, OwnInv, Shape
    <2>3. Head(buf[t]) # Free
        BY <1>2 DEF Drain, Shape, Free
    <2> QED
        BY <1>2, <1>a, <2>1, <2>2, <2>3 DEF Drain, OwnInv, Shape
<1>3. CASE Claim(t)
    <2>1. own[t] = Free
        BY <1>3 DEF Claim, OwnInv
    <2>2. PICK s \in Slot : /\ slot[s] = Free /\ slot' = [slot EXCEPT ![s] = Top]
                            /\ own' = [own EXCEPT ![t] = s]
        BY <1>3 DEF Claim
    <2>3. s # Free /\ Top # Free
        BY ReadersAssumption DEF Slot, Free, Top
    <2>4. \A u \in Thread : own[u] # s
        BY <2>2, <2>3 DEF OwnInv
    <2>5. pc' = [pc EXCEPT ![t] = "idle"] /\ buf' = buf
        BY <1>3 DEF Claim, Go
    <2> SUFFICES ASSUME NEW u \in Thread
                 PROVE  /\ own'[u] = Free <=> pc'[u] = "out"
                        /\ own'[u] = Free => buf'[u] = <<>>
                        /\ own'[u] # Free => slot'[own'[u]] # Free
                        /\ \A x \in Thread : x # u /\ own'[x] = own'[u] => own'[u] = Free
        BY DEF OwnInv
    <2>6. own'[u] = Free <=> pc'[u] = "out"
        BY <2>2, <2>3, <2>5 DEF OwnInv, Shape
    <2>7. own'[u] = Free => buf'[u] = <<>>
        BY <2>2, <2>3, <2>5 DEF OwnInv, Shape
    <2>8. own'[u] # Free => slot'[own'[u]] # Free
        BY <2>2, <2>3 DEF OwnInv, Shape
    <2>9. \A x \in Thread : x # u /\ own'[x] = own'[u] => own'[u] = Free
        BY <2>1, <2>2, <2>4 DEF OwnInv, Shape
    <2> QED
        BY <2>6, <2>7, <2>8, <2>9
<1>4. CASE Release(t)
    <2>1. own[t] \in Slot /\ own[t] # Free
        BY <1>4 DEF Release, OwnInv, Shape
    <2>2. /\ own' = [own EXCEPT ![t] = Free] /\ pc' = [pc EXCEPT ![t] = "out"]
          /\ slot' = [slot EXCEPT ![own[t]] = Free] /\ buf' = [buf EXCEPT ![t] = <<>>]
        BY <1>4 DEF Release, Fenced, Go
    <2>3. \A u \in Thread : u # t => own[u] # own[t]
        BY <2>1 DEF OwnInv
    <2> SUFFICES ASSUME NEW u \in Thread
                 PROVE  /\ own'[u] = Free <=> pc'[u] = "out"
                        /\ own'[u] = Free => buf'[u] = <<>>
                        /\ own'[u] # Free => slot'[own'[u]] # Free
                        /\ \A x \in Thread : x # u /\ own'[x] = own'[u] => own'[u] = Free
        BY DEF OwnInv
    <2>4. own'[u] = Free <=> pc'[u] = "out"
        BY <2>2 DEF OwnInv, Shape
    <2>5. own'[u] = Free => buf'[u] = <<>>
        BY <2>2 DEF OwnInv, Shape
    <2>6. own'[u] # Free => slot'[own'[u]] # Free
        BY <2>2, <2>3 DEF OwnInv, Shape
    <2>7. \A x \in Thread : x # u /\ own'[x] = own'[u] => own'[u] = Free
        BY <2>2 DEF OwnInv, Shape
    <2> QED
        BY <2>4, <2>5, <2>6, <2>7
<1>5. CASE PinStore(t)
    <2>1. ~Claim(t) /\ ~Release(t)
        BY <1>5 DEF PinStore, Claim, Release
    <2>2. own[t] \in Slot /\ own[t] # Free
        BY <1>5 DEF PinStore, OwnInv, Shape
    <2>3. reg[t] # Free
        BY <1>5 DEF PinStore, PinInv, Free, Shape
    <2> QED
        BY <1>5, <1>a, <2>1, <2>2, <2>3 DEF PinStore, Plain, Fenced, OwnInv, Shape
<1>6. CASE Unpin(t)
    <2>1. ~Claim(t) /\ ~Release(t)
        BY <1>6 DEF Unpin, Claim, Release
    <2>2. own[t] # Free
        BY <1>6 DEF Unpin, OwnInv
    <2> QED
        BY <1>6, <1>a, <2>1, <2>2 DEF Unpin, Plain, OwnInv, Shape
<1>7. CASE SyncPins(t)
    <2>1. ~Claim(t) /\ ~Release(t) /\ own' = own
        BY <1>7 DEF SyncPins, Claim, Release
    <2>2. ASSUME NEW x \in Thread, slot' = Flushed(x), buf' = [buf EXCEPT ![x] = <<>>]
          PROVE  OwnInv'
        <3>1. \A u \in Thread : own[u] = Free => buf'[u] = <<>>
            BY <2>2 DEF OwnInv, Shape
        <3>2. buf[x] # <<>> => own[x] \in Slot /\ buf[x][Len(buf[x])] # Free
            <4>1. buf[x] # <<>> => buf[x][Len(buf[x])] \in Nat \ {0}
                <5>1. buf[x] \in Seq(Nat \ {0})
                    BY DEF Shape
                <5> QED
                    BY ONLY <5>1
            <4>2. buf[x] # <<>> => own[x] \in Slot
                BY DEF OwnInv, Shape
            <4> QED
                BY <4>1, <4>2 DEF Free
        <3>3. \A u \in Thread : own[u] # Free => slot'[own[u]] # Free
            BY <2>2, <3>2 DEF OwnInv, Shape, Flushed
        <3> QED
            BY <1>a, <2>1, <3>1, <3>3
    <2>3. \A x \in todo[t] : x \in Thread
        BY DEF Shape
    <2> QED
        BY <1>1, <1>7, <2>1, <2>2, <2>3 DEF SyncPins
<1> QED
    BY <1>1, <1>2, <1>3, <1>4, <1>5, <1>6, <1>7, TableFrame

-----------------------------------------------------------------------------
\* What a step never touches: another thread's place and registers, and how
\* the table is fenced; and epochs only grow.
LEMMA Elsewhere ==
    ASSUME Shape, NEW t \in Thread, Step(t)
    PROVE  /\ asym' = asym /\ epoch' \in {epoch, epoch + 1}
           /\ \A u \in Thread \ {t} :
                /\ pc'[u] = pc[u] /\ reg'[u] = reg[u] /\ held'[u] = held[u]
                /\ out'[u] = out[u] /\ hand'[u] = hand[u] /\ low'[u] = low[u]
                /\ at'[u] = at[u] /\ todo'[u] = todo[u]
<1> USE DEF Shape, Go, table, reader, lists, sweep
<1>1. CASE Drain(t) \/ Claim(t) \/ Release(t)
    BY <1>1 DEF Drain, Claim, Release
<1>2. CASE PinLoad(t) \/ PinStore(t)
    BY <1>2 DEF PinLoad, PinStore
<1>3. CASE PinCheck(t) \/ Unpin(t) \/ Load(t)
    BY <1>3 DEF PinCheck, Unpin, Load
<1>4. CASE Swap(t) \/ Sweep(t)
    BY <1>4 DEF Swap, Sweep
<1>5. CASE BumpElsewhere(t) \/ BumpTag(t) \/ BumpAfter(t)
    BY <1>5 DEF BumpElsewhere, BumpTag, BumpAfter, Bump
<1>6. CASE PeekTag(t) \/ Push(t)
    BY <1>6 DEF PeekTag, Push
<1>7. CASE Take(t) \/ WalkPins(t)
    BY <1>7 DEF Take, WalkPins
<1>8. CASE OldestFor(t)
    BY <1>8 DEF OldestFor
<1>9. CASE SyncPins(t)
    BY <1>9 DEF SyncPins
<1>10. CASE FreeOld(t)
    BY <1>10 DEF FreeOld
<1> QED
    BY <1>1, <1>2, <1>3, <1>4, <1>5, <1>6, <1>7, <1>8, <1>9, <1>10 DEF Step

\* What is retired was replaced before: a swap is of what the pointer holds.
LEMMA OldStep ==
    ASSUME Shape, OldInv, NEW t \in Thread, Step(t)
    PROVE  OldInv'
<1> USE DEF OldInv
<1>1. CASE Swap(t)
    BY <1>1 DEF Swap, Shape, sweep, Retirement
<1>2. CASE Push(t)
    BY <1>2 DEF Push, Shape, sweep
<1>3. CASE Take(t)
    BY <1>3 DEF Take, Shape
<1>4. CASE FreeOld(t)
    BY <1>4 DEF FreeOld, Shape
<1>5. CASE UNCHANGED <<cell, out, list, hand, freed>>
    BY <1>5
<1>6. ASSUME ~Swap(t), ~Push(t), ~Take(t), ~FreeOld(t)
      PROVE  UNCHANGED <<cell, out, list, hand, freed>>
    BY <1>6, Zenon DEF Step, Drain, Claim, Release, PinLoad, PinStore, PinCheck, Unpin, Load,
       Sweep, BumpElsewhere, BumpTag, PeekTag, BumpAfter, WalkPins, OldestFor, SyncPins,
       lists, sweep
<1> QED
    BY <1>1, <1>2, <1>3, <1>4, <1>5, <1>6

\* The heart of it: a thread that holds a replaced thing after a step held it
\* before, under the same pin.
LEMMA HoldsStill ==
    ASSUME Shape, Shape', OwnInv, PinInv, NEW t \in Thread, Step(t),
           NEW u \in Thread, NEW o \in held'[u], o < cell
    PROVE  o \in held[u] /\ own[u] \in Slot /\ Still(u)
<1>1. o \in held[u]
    <2>1. CASE u # t
        BY <2>1, Elsewhere
    <2>2. CASE Load(t)
        BY <2>2 DEF Load, Shape
    <2>3. CASE Swap(t)
        BY <2>3 DEF Swap, Shape
    <2>4. CASE Unpin(t)
        BY <2>1, <2>4 DEF Unpin, Shape
    <2>5. ASSUME ~Load(t), ~Swap(t), ~Unpin(t) PROVE held' = held
        BY <2>5, Zenon DEF Step, Drain, Claim, Release, PinLoad, PinStore, PinCheck, Sweep,
           BumpElsewhere, BumpTag, PeekTag, Push, BumpAfter, Take, WalkPins, OldestFor,
           SyncPins, FreeOld, reader
    <2> QED
        BY <2>1, <2>2, <2>3, <2>4, <2>5
<1>2. pc[u] \notin {"out", "idle", "load", "store", "check"}
    BY <1>1 DEF PinInv
<1>3. own[u] # Free /\ own[u] \in Slot
    BY <1>2 DEF OwnInv, Shape
<1>4. u = t => ~(Release(t) \/ PinStore(t) \/ Unpin(t))
    BY <1>2 DEF Release, PinStore, Unpin, Shape
<1> QED
    BY <1>1, <1>3, <1>4, PinsStill

\* A pin holds from the check that passes to the operation's end, at an epoch
\* no later than the one that stands.
LEMMA PinStep ==
    ASSUME Shape, Shape', OwnInv, OwnInv', PinInv, NEW t \in Thread, Step(t)
    PROVE  PinInv'
<1> DEFINE Good(u) ==
        /\ pc'[u] \in {"store", "check"} => reg'[u] \in 1..epoch'
        /\ pc'[u] = "check" => Pinned(u)' = reg'[u]
        /\ pc'[u] = "check" /\ ~asym' => buf'[u] = <<>>
        /\ pc'[u] \in {"out", "idle", "load", "store", "check"} => held'[u] = {}
        /\ Inside(u)' => Pinned(u)' \in 1..epoch'
        /\ Inside(u)' /\ ~asym' => buf'[u] = <<>>
<1>a. asym' = asym /\ epoch \in Nat /\ epoch' \in {epoch, epoch + 1}
    BY Elsewhere DEF Shape
<1>b. \A n : n \in 1..epoch => n \in 1..epoch'
    BY <1>a
<1>1. ASSUME NEW u \in Thread \ {t} PROVE Good(u)
    <2>1. /\ pc'[u] = pc[u] /\ reg'[u] = reg[u] /\ held'[u] = held[u]
          /\ Inside(u)' <=> Inside(u)
        BY Elsewhere DEF Inside
    <2>2. CASE own[u] = Free
        <3>1. pc[u] = "out" /\ held[u] = {}
            BY <2>2 DEF OwnInv, PinInv
        <3> QED
            BY <2>1, <3>1 DEF Inside
    <2>3. CASE own[u] # Free
        <3>1. Still(u)
            BY <2>3, PinsStill
        <3> QED
            BY <1>a, <1>b, <2>1, <3>1 DEF PinInv, Still
    <2> QED
        BY <2>2, <2>3
<1>2. ASSUME own[t] # Free, ~Release(t), ~PinStore(t), ~Unpin(t),
             pc'[t] \in {"store", "check"} => pc'[t] = pc[t] /\ reg'[t] = reg[t],
             pc'[t] \in {"out", "idle", "load", "store", "check"} => held'[t] = {},
             Inside(t)' => Inside(t)
      PROVE  Good(t)
    <2>1. Still(t)
        BY <1>2, PinsStill
    <2>2. /\ pc'[t] \in {"store", "check"} => reg'[t] \in 1..epoch'
          /\ pc'[t] = "check" => Pinned(t)' = reg'[t]
          /\ pc'[t] = "check" /\ ~asym' => buf'[t] = <<>>
        BY <1>2, <1>a, <1>b, <2>1 DEF PinInv, Still
    <2>3. /\ Inside(t)' => Pinned(t)' \in 1..epoch'
          /\ Inside(t)' /\ ~asym' => buf'[t] = <<>>
        BY <1>2, <1>a, <1>b, <2>1 DEF PinInv, Still
    <2> QED
        BY <1>2, <2>2, <2>3
<1>3. ASSUME pc'[t] \in {"out", "idle", "load"}, held'[t] = {}
      PROVE  Good(t)
    BY <1>3 DEF Inside
<1> SUFFICES Good(t)
    BY <1>1 DEF PinInv
<1> HIDE DEF Good
<1>4. CASE Drain(t)
    <2>1. own[t] # Free /\ ~Release(t) /\ ~PinStore(t) /\ ~Unpin(t)
        BY <1>4 DEF Drain, OwnInv, Release, PinStore, Unpin, Go, Shape
    <2>2. pc' = pc /\ reg' = reg /\ held' = held
        BY <1>4 DEF Drain, reader
    <2>3. Inside(t)' => Inside(t)
        BY <2>2 DEF Inside
    <2>4. pc'[t] \in {"out", "idle", "load", "store", "check"} => held'[t] = {}
        BY <2>2 DEF PinInv
    <2> QED
        BY <1>2, <2>1, <2>2, <2>3, <2>4
<1>5. CASE Claim(t) \/ Release(t) \/ Unpin(t)
    <2>1. CASE Claim(t)
        <3>1. pc'[t] = "idle" /\ held'[t] = {}
            BY <2>1 DEF Claim, Go, reader, PinInv, Shape
        <3> QED
            BY <1>3, <3>1
    <2>2. CASE Release(t)
        <3>1. pc'[t] = "out" /\ held'[t] = {}
            BY <2>2 DEF Release, Go, reader, PinInv, Shape
        <3> QED
            BY <1>3, <3>1
    <2>3. CASE Unpin(t)
        <3>1. pc'[t] = "idle" /\ held'[t] = {}
            BY <2>3 DEF Unpin, Go, Shape
        <3> QED
            BY <1>3, <3>1
    <2> QED
        BY <1>5, <2>1, <2>2, <2>3
<1>6. CASE PinLoad(t)
    <2>1. pc'[t] = "store" /\ reg'[t] = epoch /\ epoch' = epoch /\ held'[t] = {}
        BY <1>6 DEF PinLoad, Go, table, PinInv, Shape
    <2>2. epoch \in 1..epoch'
        BY <2>1 DEF Shape
    <2>3. ~Inside(t)'
        BY <2>1 DEF Inside
    <2> QED
        BY <2>1, <2>2, <2>3 DEF Good
<1>7. CASE PinStore(t)
    <2>1. /\ pc[t] = "store" /\ pc'[t] = "check" /\ reg'[t] = reg[t] /\ epoch' = epoch
          /\ held'[t] = {} /\ reg[t] \in 1..epoch /\ own'[t] = own[t]
        BY <1>7 DEF PinStore, Go, reader, PinInv, Shape
    <2>2. own[t] \in Slot
        BY <2>1 DEF OwnInv, Shape
    <2>3. ~Inside(t)'
        BY <2>1 DEF Inside
    <2>4. Pinned(t)' = reg[t] /\ (~asym => buf'[t] = <<>>)
        <3>1. CASE asym
            <4>1. buf'[t] = Append(buf[t], reg[t])
                BY <1>7, <3>1 DEF PinStore, Plain, Shape
            <4>2. buf[t] \in Seq(Nat \ {0})
                BY DEF Shape
            <4>3. buf'[t] # <<>> /\ buf'[t][Len(buf'[t])] = reg[t]
                BY <4>1, <4>2
            <4>4. Pinned(t)' = reg[t]
                BY <2>1, <2>2, <4>3 DEF Pinned, Flushed, Shape
            <4> QED
                BY <3>1, <4>4
        <3>2. CASE ~asym
            <4>1. buf'[t] = <<>> /\ slot'[own[t]] = reg[t]
                BY <1>7, <2>2, <3>2 DEF PinStore, Fenced, Shape
            <4> QED
                BY <2>1, <4>1 DEF Pinned, Flushed
        <3> QED
            BY <3>1, <3>2
    <2> QED
        BY <1>a, <2>1, <2>3, <2>4 DEF Good
<1>8. CASE PinCheck(t)
    <2>1. CASE epoch = reg[t]
        <3>1. /\ pc[t] = "check" /\ pc'[t] = "op" /\ epoch' = epoch
              /\ UNCHANGED <<slot, buf, own>>
            BY <1>8, <2>1 DEF PinCheck, Go, table, Shape
        <3>2. own[t] # Free
            BY <3>1 DEF OwnInv
        <3>3. Still(t)
            BY <3>1, <3>2, StillFrame
        <3>4. Pinned(t)' \in 1..epoch' /\ (~asym' => buf'[t] = <<>>)
            BY <1>a, <3>1, <3>3 DEF PinInv, Still
        <3> QED
            BY <3>1, <3>4 DEF Good
    <2>2. CASE epoch # reg[t]
        <3>1. pc'[t] = "load" /\ held'[t] = {}
            BY <1>8, <2>2 DEF PinCheck, Go, PinInv, Shape
        <3> QED
            BY <1>3, <3>1
    <2> QED
        BY <2>1, <2>2
<1>9. ASSUME pc[t] \notin {"out", "idle", "store", "check"} \/ Sweep(t),
             ~Unpin(t), ~PinLoad(t),
             pc'[t] \in {"op", "bump", "peek", "push", "after", "ready", "take", "look",
                        "fence", "walk"} \/ (pc'[t] = "idle" /\ held'[t] = {}),
             Inside(t)' => Inside(t)
      PROVE  Good(t)
    <2>1. own[t] # Free
        BY <1>9 DEF OwnInv, Sweep
    <2>2. ~Release(t) /\ ~PinStore(t)
        BY <1>9 DEF Release, PinStore, Sweep, Go, Shape
    <2>3. /\ pc'[t] \in {"store", "check"} => pc'[t] = pc[t] /\ reg'[t] = reg[t]
          /\ pc'[t] \in {"out", "idle", "load", "store", "check"} => held'[t] = {}
        BY <1>9
    <2> QED
        BY <1>2, <1>9, <2>1, <2>2, <2>3
<1>10. CASE Load(t) \/ Swap(t)
    BY <1>9, <1>10 DEF Load, Swap, Unpin, PinLoad, Inside, Go, Shape
<1>11. CASE Sweep(t) \/ BumpElsewhere(t)
    BY <1>9, <1>11 DEF Sweep, BumpElsewhere, Bump, reader, Unpin, PinLoad, Inside, Go, Shape
<1>12. CASE BumpTag(t) \/ PeekTag(t) \/ BumpAfter(t)
    <2>1. CASE BumpTag(t)
        BY <1>9, <2>1 DEF BumpTag, reader, Unpin, PinLoad, Inside, Go, Shape
    <2>2. CASE PeekTag(t)
        BY <1>9, <2>2 DEF PeekTag, reader, Unpin, PinLoad, Inside, Go, Shape
    <2>3. CASE BumpAfter(t)
        BY <1>9, <2>3 DEF BumpAfter, reader, Unpin, PinLoad, Inside, Go, Shape
    <2> QED
        BY <1>12, <2>1, <2>2, <2>3
<1>13. CASE Push(t)
    BY <1>9, <1>13 DEF Push, Style, Unpin, PinLoad, Inside, Go, Shape
<1>14. CASE Take(t) \/ FreeOld(t)
    <2>1. CASE Take(t)
        BY <1>9, <2>1 DEF Take, Back, reader, Unpin, PinLoad, Inside, Go, Shape
    <2>2. CASE FreeOld(t)
        BY <1>9, <2>2 DEF FreeOld, Back, reader, Unpin, PinLoad, Inside, Go, Shape
    <2> QED
        BY <1>14, <2>1, <2>2
<1>15. CASE WalkPins(t) \/ OldestFor(t)
    <2>1. CASE WalkPins(t)
        BY <1>9, <2>1 DEF WalkPins, reader, Unpin, PinLoad, Inside, Go, Shape
    <2>2. CASE OldestFor(t)
        BY <1>9, <2>2 DEF OldestFor, reader, Unpin, PinLoad, Inside, Go, Shape
    <2> QED
        BY <1>15, <2>1, <2>2
<1>16. CASE SyncPins(t)
    BY <1>9, <1>16 DEF SyncPins, reader, Unpin, PinLoad, Inside, Go, Shape
<1> QED
    BY <1>4, <1>5, <1>6, <1>7, <1>8, <1>10, <1>11, <1>12, <1>13, <1>14, <1>15, <1>16 DEF Step

-----------------------------------------------------------------------------
\* How a thing gets to a list and to a sweep's hands: with the tag its
\* retirement gave it, the epoch after one that stood when it was replaced.
LEMMA TagFrame ==
    ASSUME Shape, NEW t \in Thread, Step(t)
    PROVE  /\ pc'[t] = "push" =>
                /\ out'[t] = out[t]
                /\ (pc[t] = "push" /\ reg'[t] = reg[t]) \/ reg'[t] = epoch + 1
           /\ \A i \in list' : \/ i \in list \/ i \in hand[t]
                               \/ pc[t] = "push" /\ i.thing \in out[t] /\ i.tag = reg[t]
           /\ \A i \in hand'[t] : i \in hand[t] \/ i \in list
<1> USE DEF Shape, Go
<1>1. CASE Drain(t) \/ BumpElsewhere(t) \/ WalkPins(t)
    BY <1>1 DEF Drain, BumpElsewhere, WalkPins, reader, lists, sweep
<1>2. CASE Claim(t) \/ Release(t) \/ PinLoad(t) \/ PinStore(t)
    BY <1>2 DEF Claim, Release, PinLoad, PinStore, lists, sweep
<1>3. CASE PinCheck(t) \/ Unpin(t) \/ Load(t)
    BY <1>3 DEF PinCheck, Unpin, Load, lists, sweep
<1>4. CASE Swap(t) \/ Sweep(t)
    BY <1>4 DEF Swap, Sweep, lists, sweep
<1>5. CASE BumpTag(t) \/ PeekTag(t) \/ BumpAfter(t)
    BY <1>5 DEF BumpTag, PeekTag, BumpAfter, lists, sweep
<1>6. CASE Push(t)
    <2>1. pc'[t] # "push" /\ pc[t] = "push" /\ hand' = hand
        BY <1>6 DEF Push, Style, sweep
    <2>2. \A i \in list' : i \in list \/ (i.thing \in out[t] /\ i.tag = reg[t])
        BY <1>6 DEF Push
    <2> QED
        BY <2>1, <2>2
<1>7. CASE Take(t)
    BY <1>7 DEF Take, Back
<1>8. CASE FreeOld(t)
    BY <1>8 DEF FreeOld, Back
<1>9. CASE OldestFor(t)
    BY <1>9 DEF OldestFor, lists
<1>10. CASE SyncPins(t)
    BY <1>10 DEF SyncPins, lists
<1> QED
    BY <1>1, <1>2, <1>3, <1>4, <1>5, <1>6, <1>7, <1>8, <1>9, <1>10 DEF Step

\* The pin of a thread that holds a thing stays below its tag.
LEMMA TagStep ==
    ASSUME Shape, Shape', OwnInv, PinInv, OldInv, TagInv, NEW t \in Thread, Step(t)
    PROVE  TagInv'
<1> SUFFICES ASSUME NEW u \in Thread
             PROVE  /\ \A w \in Thread : pc'[w] = "push" =>
                          \A o \in out'[w] \cap held'[u] : Pinned(u)' < reg'[w]
                    /\ \A i \in list' : i.thing \in held'[u] => Pinned(u)' < i.tag
                    /\ \A w \in Thread : \A i \in hand'[w] :
                          i.thing \in held'[u] => Pinned(u)' < i.tag
    BY DEF TagInv
<1>a. ASSUME NEW o \in held'[u], o < cell
      PROVE  o \in held[u] /\ Pinned(u)' = Pinned(u) /\ Pinned(u) \in 1..epoch
    <2>1. o \in held[u] /\ Still(u)
        BY <1>a, HoldsStill
    <2>2. Inside(u)
        BY <2>1 DEF Inside
    <2> QED
        BY <2>1, <2>2 DEF Still, PinInv
<1>1. ASSUME NEW w \in Thread, pc'[w] = "push", NEW o \in out'[w] \cap held'[u]
      PROVE  Pinned(u)' < reg'[w]
    <2>1. /\ out'[w] = out[w]
          /\ (pc[w] = "push" /\ reg'[w] = reg[w]) \/ reg'[w] = epoch + 1
        <3>1. CASE w = t
            BY <1>1, <3>1, TagFrame
        <3>2. CASE w # t
            BY <1>1, <3>2, Elsewhere
        <3> QED
            BY <3>1, <3>2
    <2>2. o < cell
        BY <1>1, <2>1 DEF OldInv
    <2>3. o \in held[u] /\ Pinned(u)' = Pinned(u) /\ Pinned(u) \in 1..epoch
        BY <1>1, <1>a, <2>2
    <2>4. CASE pc[w] = "push" /\ reg'[w] = reg[w]
        BY <1>1, <2>1, <2>3, <2>4 DEF TagInv
    <2>5. CASE reg'[w] = epoch + 1
        BY <2>3, <2>5 DEF Shape
    <2> QED
        BY <2>1, <2>4, <2>5
<1>2. ASSUME NEW i \in list \cup UNION {hand[w] : w \in Thread}, i.thing \in held'[u]
      PROVE  Pinned(u)' < i.tag
    <2>1. i.thing < cell
        BY <1>2 DEF OldInv
    <2>2. i.thing \in held[u] /\ Pinned(u)' = Pinned(u)
        BY <1>2, <1>a, <2>1
    <2> QED
        BY <1>2, <2>2 DEF TagInv
<1>3. ASSUME NEW i \in list', i.thing \in held'[u]
      PROVE  Pinned(u)' < i.tag
    <2>1. CASE i \in list \/ i \in hand[t]
        BY <1>2, <1>3, <2>1
    <2>2. CASE pc[t] = "push" /\ i.thing \in out[t] /\ i.tag = reg[t]
        <3>1. i.thing < cell
            BY <2>2 DEF OldInv
        <3>2. i.thing \in held[u] /\ Pinned(u)' = Pinned(u)
            BY <1>3, <1>a, <3>1
        <3> QED
            BY <2>2, <3>2 DEF TagInv
    <2> QED
        BY <1>3, <2>1, <2>2, TagFrame
<1>4. ASSUME NEW w \in Thread, NEW i \in hand'[w], i.thing \in held'[u]
      PROVE  Pinned(u)' < i.tag
    <2>1. i \in hand[w] \/ i \in list
        <3>1. CASE w = t
            BY <1>4, <3>1, TagFrame
        <3>2. CASE w # t
            BY <1>4, <3>2, Elsewhere
        <3> QED
            BY <3>1, <3>2
    <2> QED
        BY <1>2, <1>4, <2>1
<1> QED
    BY <1>1, <1>3, <1>4

-----------------------------------------------------------------------------
\* A walk of the slots begins at the first.
LEMMA WalkFrame ==
    ASSUME Shape, SweepInv, NEW t \in Thread, Step(t)
    PROVE  at'[t] >= 1 /\ (pc'[t] \notin {"look", "walk"} => at'[t] = 1)
<1> USE DEF Shape, Go, SweepInv
<1>1. CASE Drain(t) \/ Claim(t) \/ Release(t) \/ PinLoad(t) \/ PinStore(t) \/ PinCheck(t)
    BY <1>1 DEF Drain, Claim, Release, PinLoad, PinStore, PinCheck, sweep
<1>2. CASE Unpin(t) \/ Load(t) \/ Swap(t) \/ Sweep(t) \/ BumpElsewhere(t)
    BY <1>2 DEF Unpin, Load, Swap, Sweep, BumpElsewhere, sweep
<1>3. CASE BumpTag(t) \/ PeekTag(t) \/ Push(t) \/ BumpAfter(t) \/ Take(t)
    BY <1>3 DEF BumpTag, PeekTag, Push, BumpAfter, Take, sweep
<1>4. CASE WalkPins(t)
    BY <1>4 DEF WalkPins
<1>5. CASE OldestFor(t)
    BY <1>5 DEF OldestFor
<1>6. CASE SyncPins(t)
    BY <1>6 DEF SyncPins
<1>7. CASE FreeOld(t)
    BY <1>7 DEF FreeOld
<1> QED
    BY <1>1, <1>2, <1>3, <1>4, <1>5, <1>6, <1>7 DEF Step

\* The steps that move a sweep past where it could miss a pin.
LEMMA SweepFrame ==
    ASSUME Shape, NEW t \in Thread, Step(t),
           ~(Take(t) \/ WalkPins(t) \/ OldestFor(t) \/ SyncPins(t)),
           pc'[t] \in {"fence", "walk"}
    PROVE  /\ pc'[t] = pc[t] /\ hand'[t] = hand[t] /\ low'[t] = low[t]
           /\ at'[t] = at[t] /\ todo'[t] = todo[t]
<1> USE DEF Shape, Go
<1>1. CASE Drain(t)
    BY <1>1 DEF Drain, sweep
<1>2. CASE Claim(t) \/ Release(t) \/ PinLoad(t) \/ PinStore(t) \/ PinCheck(t) \/ Unpin(t)
    BY <1>2 DEF Claim, Release, PinLoad, PinStore, PinCheck, Unpin
<1>3. CASE Load(t) \/ BumpElsewhere(t) \/ Swap(t) \/ Sweep(t)
    BY <1>3 DEF Load, BumpElsewhere, Swap, Sweep
<1>4. CASE BumpTag(t) \/ PeekTag(t) \/ BumpAfter(t)
    BY <1>4 DEF BumpTag, PeekTag, BumpAfter
<1>5. CASE Push(t)
    BY <1>5 DEF Push, Style
<1>6. CASE FreeOld(t)
    BY <1>6 DEF FreeOld, Back
<1> QED
    BY <1>1, <1>2, <1>3, <1>4, <1>5, <1>6 DEF Step

\* A sweep that will free a thing meets the pin of every thread that holds it:
\* fenced by the pin itself or by the barrier before the walk that counts.
LEMMA SweepStep ==
    ASSUME PinnedInv, Shape', NEW t \in Thread, Step(t)
    PROVE  SweepInv'
<1> USE DEF PinnedInv
<1>1. ASSUME NEW w \in Thread
      PROVE  at'[w] >= 1 /\ (pc'[w] \notin {"look", "walk"} => at'[w] = 1)
    <2>1. CASE w = t
        BY <2>1, WalkFrame
    <2>2. CASE w # t
        BY <2>2, Elsewhere DEF SweepInv
    <2> QED
        BY <2>1, <2>2
<1>2. ASSUME NEW w \in Thread, NEW u \in Thread, NEW i \in hand'[w], i.thing \in held'[u]
      PROVE  /\ pc'[w] = "fence" /\ u \notin todo'[w] => buf'[u] = <<>>
             /\ pc'[w] = "walk" => Meets(w, u, i)'
    <2>a. i \in hand[w] \/ i \in list
        <3>1. CASE w = t
            BY <1>2, <3>1, TagFrame
        <3>2. CASE w # t
            BY <1>2, <3>2, Elsewhere
        <3> QED
            BY <3>1, <3>2
    <2>b. i.thing < cell /\ i.thing \in held[u]
        BY <1>2, <2>a, HoldsStill DEF OldInv
    <2>c. own[u] \in Slot /\ Still(u) /\ own[u] >= 1 /\ own[u] <= NSlots
        <3>1. own[u] \in Slot /\ Still(u)
            BY <1>2, <2>b, HoldsStill
        <3> QED
            BY <3>1, ReadersAssumption DEF Slot
    <2>d. Inside(u)
        BY <2>b DEF Inside
    <2>1. ASSUME i \in hand[w], pc'[w] = pc[w], low'[w] = low[w], at'[w] = at[w],
                 todo'[w] = todo[w]
          PROVE  /\ pc'[w] = "fence" /\ u \notin todo'[w] => buf'[u] = <<>>
                 /\ pc'[w] = "walk" => Meets(w, u, i)'
        BY <2>1, <2>b, <2>c DEF SweepInv, Meets, Still
    <2>2. CASE w # t
        BY <1>2, <2>1, <2>2, Elsewhere
    <2>3. CASE w = t /\ ~(Take(t) \/ WalkPins(t) \/ OldestFor(t) \/ SyncPins(t))
        BY <1>2, <2>1, <2>3, SweepFrame
    <2>4. CASE w = t /\ Take(t)
        <3>1. pc'[t] = "walk" => ~asym
            BY <2>4 DEF Take, Back, Go, Shape
        <3>2. pc'[t] # "fence" /\ at'[t] = 1
            BY <2>4 DEF Take, Back, Go, Shape, SweepInv
        <3>3. pc'[t] = "walk" => buf'[u] = <<>>
            BY <3>1, <2>c, <2>d DEF PinInv, Still
        <3> QED
            BY <2>4, <2>c, <3>2, <3>3 DEF Meets, Still
    <2>5. CASE w = t /\ WalkPins(t)
        <3>1. /\ pc'[t] = pc[t] /\ pc[t] # "fence" /\ i \in hand[t] /\ at'[t] = at[t] + 1
              /\ own'[u] = own[u] /\ buf'[u] = buf[u] /\ at[t] \in Slot
            BY <1>2, <2>5 DEF WalkPins, Shape, table, SweepInv, Slot
        <3>2. /\ low[t] \in Nat /\ slot[at[t]] \in Nat /\ low'[t] \in Nat
              /\ low'[t] <= low[t]
              /\ slot[at[t]] # Free => low'[t] <= slot[at[t]]
            BY <2>5, <3>1 DEF WalkPins, Shape
        <3>3. i.tag \in Nat
            BY <3>1 DEF Shape, Retirement
        <3> SUFFICES ASSUME pc[t] = "walk" PROVE Meets(t, u, i)'
            BY <2>5, <3>1
        <3>4. Meets(t, u, i)
            BY <2>b, <3>1 DEF SweepInv
        <3>5. CASE low[t] < i.tag
            BY <3>2, <3>3, <3>5 DEF Meets
        <3>6. CASE at[t] < own[u] /\ buf[u] = <<>>
            BY <2>c, <3>1, <3>6 DEF Meets, Slot
        <3>7. CASE at[t] = own[u] /\ buf[u] = <<>>
            <4>1. Pinned(u) = slot[at[t]]
                BY <3>7 DEF Pinned, Flushed
            <4>2. slot[at[t]] < i.tag /\ slot[at[t]] # Free
                BY <2>b, <2>d, <3>1, <3>2, <4>1 DEF TagInv, PinInv, Free
            <4> QED
                BY <3>2, <3>3, <4>2 DEF Meets
        <3> QED
            BY <2>c, <3>1, <3>4, <3>5, <3>6, <3>7 DEF Meets, Slot
    <2>6. CASE w = t /\ OldestFor(t)
        <3>1. CASE BelowAll(t)
            <4>1. pc'[t] = "walk" /\ i \in hand[t] /\ low'[t] = low[t]
                BY <1>2, <2>6, <3>1 DEF OldestFor, Go, Shape
            <4> QED
                BY <2>6, <3>1, <4>1 DEF BelowAll, Meets
        <3>2. CASE ~BelowAll(t)
            <4>1. pc' = [pc EXCEPT ![t] = "fence"] /\ todo' = [todo EXCEPT ![t] = Thread]
                BY <2>6, <3>2, Zenon DEF OldestFor, Go
            <4>2. pc'[t] = "fence" /\ todo'[t] = Thread
                BY <4>1 DEF Shape
            <4> QED
                BY <2>6, <4>2
        <3> QED
            BY <3>1, <3>2
    <2>7. CASE w = t /\ SyncPins(t)
        <3>1. pc[t] = "fence" /\ i \in hand[t] /\ at'[t] = 1
            BY <1>2, <2>7 DEF SyncPins, SweepInv
        <3>2. ASSUME NEW x \in todo[t], slot' = Flushed(x), buf' = [buf EXCEPT ![x] = <<>>],
                     todo' = [todo EXCEPT ![t] = todo[t] \ {x}], pc' = pc
              PROVE  pc'[t] = "fence" /\ (u \notin todo'[t] => buf'[u] = <<>>)
            <4>1. CASE u = x
                BY <3>1, <3>2, <4>1 DEF Shape
            <4>2. CASE u # x
                <5>1. pc'[t] = "fence" /\ (u \notin todo'[t] => u \notin todo[t])
                    BY <3>1, <3>2, <4>2 DEF Shape
                <5>2. u \notin todo[t] => buf[u] = <<>>
                    BY <2>b, <3>1 DEF SweepInv
                <5> QED
                    BY <2>c, <5>1, <5>2 DEF Still
            <4> QED
                BY <4>1, <4>2
        <3>3. ASSUME todo[t] = {}, pc' = [pc EXCEPT ![t] = "walk"], buf' = buf
              PROVE  pc'[t] = "walk" /\ Meets(t, u, i)'
            <4>1. buf[u] = <<>>
                BY <2>b, <3>1, <3>3 DEF SweepInv
            <4> QED
                BY <2>c, <3>1, <3>3, <4>1 DEF Meets, Still, Shape
        <3> QED
            BY <2>7, <3>2, <3>3 DEF SyncPins, Go
    <2> QED
        BY <2>2, <2>3, <2>4, <2>5, <2>6, <2>7
<1> QED
    BY <1>1, <1>2 DEF SweepInv

\* So what a sweep frees, no thread holds.
LEMMA HeldStep ==
    ASSUME PinnedInv, Shape', NEW t \in Thread, Step(t)
    PROVE  HeldInv'
<1> USE DEF PinnedInv
<1> SUFFICES ASSUME NEW u \in Thread, NEW o \in held'[u], o \in freed' PROVE FALSE
    BY DEF HeldInv
<1>1. freed' = freed \/ FreeOld(t)
    BY Zenon DEF Step, Drain, Claim, Release, PinLoad, PinStore, PinCheck, Unpin, Load, Swap,
       Sweep, BumpElsewhere, BumpTag, PeekTag, Push, BumpAfter, Take, WalkPins, OldestFor,
       SyncPins, lists
<1>2. CASE o \in freed
    <2>1. o \in held[u]
        BY <1>2, HoldsStill DEF OldInv
    <2> QED
        BY <1>2, <2>1 DEF HeldInv
<1>3. CASE FreeOld(t) /\ o \notin freed
    <2>1. PICK i \in hand[t] : i.tag <= low[t] /\ o = i.thing
        BY <1>3 DEF FreeOld
    <2>2. i.thing \in held[u] /\ own[u] \in Slot
        BY <2>1, HoldsStill DEF OldInv
    <2>3. Meets(t, u, i)
        BY <1>3, <2>2 DEF FreeOld, SweepInv
    <2>4. i.tag \in Nat /\ low[t] \in Nat /\ at[t] \in Nat /\ at[t] > NSlots
        BY <1>3, <2>1 DEF FreeOld, Walked, Shape, Retirement
    <2> QED
        BY <2>1, <2>2, <2>3, <2>4, ReadersAssumption DEF Meets, Slot
<1> QED
    BY <1>1, <1>2, <1>3

-----------------------------------------------------------------------------
\* The invariant is inductive.
LEMMA PinnedNext == PinnedInv /\ [Next]_vars => PinnedInv'
<1> SUFFICES ASSUME PinnedInv, [Next]_vars PROVE PinnedInv'
    OBVIOUS
<1>1. CASE Next
    <2>1. PICK t \in Thread : Step(t)
        BY <1>1 DEF Next
    <2> USE DEF PinnedInv
    <2>2. Shape'
        BY <2>1, ShapeStep
    <2>3. OwnInv'
        BY <2>1, <2>2, OwnStep
    <2>4. PinInv'
        BY <2>1, <2>2, <2>3, PinStep
    <2>5. OldInv'
        BY <2>1, OldStep
    <2>6. TagInv'
        BY <2>1, <2>2, TagStep
    <2> HIDE DEF PinnedInv
    <2>7. SweepInv' /\ HeldInv'
        BY <2>1, <2>2, SweepStep, HeldStep
    <2> QED
        BY <2>2, <2>3, <2>4, <2>5, <2>6, <2>7 DEF PinnedInv
<1>2. CASE UNCHANGED vars
    <2> USE <1>2 DEF vars, table, reader, lists, sweep
    <2>1. Shape' /\ OwnInv' /\ OldInv' /\ HeldInv'
        BY DEF PinnedInv, Shape, OwnInv, OldInv, HeldInv
    <2>2. PinInv'
        BY DEF PinnedInv, PinInv, Inside, Pinned, Flushed
    <2>3. TagInv' /\ SweepInv'
        BY DEF PinnedInv, TagInv, SweepInv, Meets, Pinned, Flushed
    <2> QED
        BY <2>1, <2>2, <2>3 DEF PinnedInv
<1> QED
    BY <1>1, <1>2

\* Whatever the number of threads, slots, epochs, things and buffered stores, and
\* whether or not the sweep fences for the pins, RetireList::sweep frees nothing a
\* pinned thread has loaded, nor what the pointer leads to.
THEOREM NothingFreedUnderAReader == Spec => []NoUseAfterFree
<1>1. PinnedInv => NoUseAfterFree
    <2> SUFFICES ASSUME PinnedInv PROVE NoUseAfterFree
        OBVIOUS
    <2>1. \A t \in Thread : held[t] \cap freed = {}
        BY DEF PinnedInv, HeldInv
    <2>2. cell \notin freed
        BY DEF PinnedInv, OldInv, Shape
    <2> QED
        BY <2>1, <2>2 DEF NoUseAfterFree
<1> QED
    BY <1>1, PinnedInit, PinnedNext, PTL DEF Spec

\* And what the sweep relies on: a thread inside an operation has a slot of its
\* own, pinned no later than the epoch that stands and below the tag of every
\* retired thing it still holds.
THEOREM PinsAlwaysCover == Spec => []PinsCover
<1>1. PinnedInv => PinsCover
    <2> SUFFICES ASSUME PinnedInv, NEW t \in Thread, held[t] # {}
                 PROVE  /\ Pinned(t) \in 1..epoch
                        /\ \A u \in Thread \ {t} : own[u] # own[t]
                        /\ \A i \in list \cup UNION {hand[u] : u \in Thread} :
                              i.thing \in held[t] => Pinned(t) < i.tag
        BY DEF PinsCover
    <2>1. Pinned(t) \in 1..epoch
        BY DEF PinnedInv, PinInv, Inside
    <2>2. own[t] # Free
        BY DEF PinnedInv, PinInv, OwnInv
    <2>3. \A u \in Thread \ {t} : own[u] # own[t]
        BY <2>2 DEF PinnedInv, OwnInv
    <2>4. \A i \in list \cup UNION {hand[u] : u \in Thread} :
              i.thing \in held[t] => Pinned(t) < i.tag
        BY DEF PinnedInv, TagInv
    <2> QED
        BY <2>1, <2>3, <2>4
<1> QED
    BY <1>1, PinnedInit, PinnedNext, PTL DEF Spec

-----------------------------------------------------------------------------
(* What is replaced is freed once: the parts of a thing's way from the        *)
(* pointer to the allocator are apart, and none is left between them.         *)

\* Only a publish on its way holds what it swapped out, and only a sweep what
\* it took.
BusyInv ==
    \A t \in Thread :
        /\ out[t] # {} => pc[t] \in {"bump", "peek", "push"}
        /\ hand[t] # {} => pc[t] \in {"look", "fence", "walk"}

\* A thing is swapped out by one thread, on the list with one tag, in the hands
\* of one sweep with one tag.
AloneInv ==
    /\ \A t, u \in Thread : t # u => out[t] \cap out[u] = {}
    /\ \A i, j \in list : i.thing = j.thing => i = j
    /\ \A t, u \in Thread : \A i \in hand[t], j \in hand[u] :
          i.thing = j.thing => t = u /\ i = j

\* No thing is in two of these, nor in one of them and freed.
ApartInv ==
    /\ \A t \in Thread : \A o \in out[t] : /\ o \notin freed
                                           /\ \A i \in list : i.thing # o
                                           /\ \A u \in Thread : \A i \in hand[u] : i.thing # o
    /\ \A i \in list : /\ i.thing \notin freed
                       /\ \A u \in Thread : \A j \in hand[u] : i.thing # j.thing
    /\ \A t \in Thread : \A i \in hand[t] : i.thing \notin freed

\* And every thing replaced is in one.
Somewhere(o) ==
    \/ \E t \in Thread : o \in out[t]
    \/ \E i \in list : i.thing = o
    \/ \E t \in Thread : \E i \in hand[t] : i.thing = o
    \/ o \in freed
KeptInv == \A o \in Nat : o < cell => Somewhere(o)

WayInv == BusyInv /\ AloneInv /\ ApartInv /\ KeptInv

\* The steps that move a thing, and those that leave every thing where it is.
LEMMA WayFrame ==
    ASSUME NEW t \in Thread, Step(t)
    PROVE  Swap(t) \/ Push(t) \/ Take(t) \/ FreeOld(t) \/ UNCHANGED <<lists, hand>>
BY Zenon DEF Step, Drain, Claim, Release, PinLoad, PinStore, PinCheck, Unpin, Load, Sweep,
   BumpElsewhere, BumpTag, PeekTag, BumpAfter, WalkPins, OldestFor, SyncPins, lists, sweep

LEMMA BusyStep ==
    ASSUME Shape, BusyInv, NEW t \in Thread, Step(t)
    PROVE  BusyInv'
<1> SUFFICES ASSUME NEW u \in Thread
             PROVE  /\ out'[u] # {} => pc'[u] \in {"bump", "peek", "push"}
                    /\ hand'[u] # {} => pc'[u] \in {"look", "fence", "walk"}
    BY DEF BusyInv
<1>0. /\ out[u] # {} => pc[u] \in {"bump", "peek", "push"}
      /\ hand[u] # {} => pc[u] \in {"look", "fence", "walk"}
    BY DEF BusyInv
<1>1. CASE u # t
    BY <1>0, <1>1, Elsewhere
<1>2. CASE u = t
    <2> USE <1>0, <1>2 DEF Shape, Go, table, reader, lists, sweep
    <2>1. CASE Drain(t) \/ Claim(t) \/ Release(t)
        BY <2>1 DEF Drain, Claim, Release
    <2>2. CASE PinLoad(t) \/ PinStore(t) \/ PinCheck(t)
        BY <2>2 DEF PinLoad, PinStore, PinCheck
    <2>3. CASE Unpin(t) \/ Load(t)
        BY <2>3 DEF Unpin, Load
    <2>4. CASE Swap(t)
        BY <2>4 DEF Swap
    <2>5. CASE Sweep(t) \/ BumpElsewhere(t) \/ BumpTag(t) \/ BumpAfter(t) \/ PeekTag(t)
        BY <2>5 DEF Sweep, BumpElsewhere, BumpTag, BumpAfter, PeekTag
    <2>6. CASE Push(t)
        BY <2>6 DEF Push
    <2>7. CASE Take(t)
        BY <2>7 DEF Take, Back
    <2>8. CASE WalkPins(t) \/ OldestFor(t) \/ SyncPins(t)
        BY <2>8 DEF WalkPins, OldestFor, SyncPins
    <2>9. CASE FreeOld(t)
        BY <2>9 DEF FreeOld
    <2> QED
        BY <2>1, <2>2, <2>3, <2>4, <2>5, <2>6, <2>7, <2>8, <2>9 DEF Step
<1> QED
    BY <1>1, <1>2

\* A publish takes what the pointer led to, which was nowhere on the way.
LEMMA SwapWay ==
    ASSUME Shape, OldInv, WayInv, NEW t \in Thread, Swap(t)
    PROVE  AloneInv' /\ ApartInv' /\ KeptInv'
<1>1. /\ out[t] = {} /\ cell' = cell + 1 /\ out' = [out EXCEPT ![t] = {cell}]
      /\ UNCHANGED <<list, freed, hand>>
    BY DEF Swap, WayInv, BusyInv, sweep
<1>2. /\ cell \in Nat /\ \A u \in Thread : out'[u] = IF u = t THEN {cell} ELSE out[u]
    BY <1>1 DEF Shape
<1>3. /\ cell \notin freed /\ \A u \in Thread : cell \notin out[u]
      /\ \A i \in list : i.thing # cell
      /\ \A u \in Thread : \A i \in hand[u] : i.thing # cell
    BY <1>2 DEF OldInv
<1>4. AloneInv'
    BY <1>1, <1>2, <1>3 DEF WayInv, AloneInv
<1>5. ApartInv'
    BY <1>1, <1>2, <1>3 DEF WayInv, ApartInv
<1>6. KeptInv'
    <2> SUFFICES ASSUME NEW o \in Nat, o < cell' PROVE Somewhere(o)'
        BY DEF KeptInv
    <2>1. CASE o = cell
        BY <1>1, <1>2, <2>1 DEF Somewhere
    <2>2. CASE o # cell
        <3>1. Somewhere(o)
            BY <1>1, <1>2, <2>2 DEF WayInv, KeptInv
        <3> QED
            BY <1>1, <1>2, <3>1 DEF Somewhere
    <2> QED
        BY <2>1, <2>2
<1> QED
    BY <1>4, <1>5, <1>6

LEMMA PushWay ==
    ASSUME Shape, OldInv, WayInv, NEW t \in Thread, Push(t)
    PROVE  AloneInv' /\ ApartInv' /\ KeptInv'
<1>1. /\ list' = list \cup {[thing |-> o, tag |-> reg[t]] : o \in out[t]}
      /\ out' = [out EXCEPT ![t] = {}] /\ UNCHANGED <<cell, freed, hand>>
    BY DEF Push, sweep
<1>2. \A u \in Thread : out'[u] = IF u = t THEN {} ELSE out[u]
    BY <1>1 DEF Shape
<1>3. \A i \in list' : i \in list \/ (i.thing \in out[t] /\ i = [thing |-> i.thing, tag |-> reg[t]])
    BY <1>1
<1>4. \A o \in out[t] : \E i \in list' : i.thing = o
    <2> SUFFICES ASSUME NEW o \in out[t] PROVE \E i \in list' : i.thing = o
        OBVIOUS
    <2>1. [thing |-> o, tag |-> reg[t]] \in list'
        BY <1>1
    <2> QED
        BY <2>1
<1>5. AloneInv'
    BY <1>1, <1>2, <1>3 DEF WayInv, AloneInv, ApartInv
<1>6. ApartInv'
    BY <1>1, <1>2, <1>3 DEF WayInv, AloneInv, ApartInv
<1>7. KeptInv'
    <2> SUFFICES ASSUME NEW o \in Nat, o < cell' PROVE Somewhere(o)'
        BY DEF KeptInv
    <2>1. Somewhere(o)
        BY <1>1 DEF WayInv, KeptInv
    <2>2. list \subseteq list'
        BY <1>1
    <2> QED
        BY <1>1, <1>2, <1>4, <2>1, <2>2 DEF Somewhere
<1> QED
    BY <1>5, <1>6, <1>7

LEMMA TakeWay ==
    ASSUME Shape, WayInv, NEW t \in Thread, Take(t)
    PROVE  AloneInv' /\ ApartInv' /\ KeptInv'
<1>1. /\ hand' = [hand EXCEPT ![t] = list] /\ list' = {} /\ hand[t] = {}
      /\ UNCHANGED <<cell, out, freed>>
    BY DEF Take, WayInv, BusyInv
<1>2. \A u \in Thread : hand'[u] = IF u = t THEN list ELSE hand[u]
    BY <1>1 DEF Shape
<1>3. AloneInv'
    BY <1>1, <1>2 DEF WayInv, AloneInv, ApartInv
<1>4. ApartInv'
    BY <1>1, <1>2 DEF WayInv, AloneInv, ApartInv
<1>5. KeptInv'
    BY <1>1, <1>2 DEF WayInv, KeptInv, Somewhere
<1> QED
    BY <1>3, <1>4, <1>5

LEMMA FreeWay ==
    ASSUME Shape, WayInv, NEW t \in Thread, FreeOld(t)
    PROVE  AloneInv' /\ ApartInv' /\ KeptInv'
<1> DEFINE old == {i \in hand[t] : i.tag <= low[t]}
<1>1. /\ freed' = freed \cup {i.thing : i \in old} /\ list' = list \cup (hand[t] \ old)
      /\ hand' = [hand EXCEPT ![t] = {}] /\ UNCHANGED <<cell, out>>
    BY DEF FreeOld
<1>2. \A u \in Thread : hand'[u] = IF u = t THEN {} ELSE hand[u]
    BY <1>1 DEF Shape
<1>3. old \subseteq hand[t]
    OBVIOUS
<1> HIDE DEF old
<1>4. AloneInv'
    BY <1>1, <1>2, <1>3 DEF WayInv, AloneInv, ApartInv
<1>5. ApartInv'
    BY <1>1, <1>2, <1>3 DEF WayInv, AloneInv, ApartInv
<1>6. KeptInv'
    BY <1>1, <1>2, <1>3 DEF WayInv, KeptInv, Somewhere
<1> QED
    BY <1>4, <1>5, <1>6

LEMMA WayStep ==
    ASSUME Shape, OldInv, WayInv, NEW t \in Thread, Step(t)
    PROVE  WayInv'
<1>1. BusyInv'
    BY BusyStep DEF WayInv
<1>2. CASE UNCHANGED <<lists, hand>>
    BY <1>1, <1>2 DEF lists, WayInv, AloneInv, ApartInv, KeptInv, Somewhere
<1> QED
    BY <1>1, <1>2, WayFrame, SwapWay, PushWay, TakeWay, FreeWay DEF WayInv

LEMMA WayNext == PinnedInv /\ WayInv /\ [Next]_vars => WayInv'
<1> SUFFICES ASSUME PinnedInv, WayInv, [Next]_vars PROVE WayInv'
    OBVIOUS
<1>1. CASE Next
    BY <1>1, WayStep DEF Next, PinnedInv
<1>2. CASE UNCHANGED vars
    BY <1>2 DEF vars, lists, sweep, WayInv, BusyInv, AloneInv, ApartInv, KeptInv, Somewhere
<1> QED
    BY <1>1, <1>2

\* A count of nothing, or of one.
LEMMA CountOf ==
    ASSUME NEW S, \A x, y \in S : x = y
    PROVE  Cardinality(S) = IF S = {} THEN 0 ELSE 1
<1>1. CASE S = {}
    BY <1>1, FS_EmptySet
<1>2. CASE S # {}
    <2>1. PICK x \in S : TRUE
        BY <1>2
    <2>2. S = {x}
        BY <2>1
    <2> QED
        BY <1>2, <2>2, FS_Singleton
<1> QED
    BY <1>1, <1>2

\* Whatever the threads, two sweeps that split a list, and pushes meanwhile,
\* neither free a thing twice nor lose one: everything replaced is in one place
\* on its way from the pointer to the allocator, and nothing else is.
THEOREM EverythingRetiredOnce == Spec => []RetiredOnce
<1>1. Init => WayInv
    BY DEF Init, WayInv, BusyInv, AloneInv, ApartInv, KeptInv
<1>2. ASSUME PinnedInv, WayInv PROVE RetiredOnce
    <2> SUFFICES ASSUME NEW o \in Thing PROVE Places(o) = IF o < cell THEN 1 ELSE 0
        BY DEF RetiredOnce
    <2> DEFINE O == {t \in Thread : o \in out[t]}
               L == {i \in list : i.thing = o}
               H == {t \in Thread : \E i \in hand[t] : i.thing = o}
               F == IF o \in freed THEN 1 ELSE 0
    <2>1. o \in Nat /\ cell \in Nat
        BY <1>2, ReadersAssumption DEF Thing, PinnedInv, Shape
    <2>2. Cardinality(O) = IF O = {} THEN 0 ELSE 1
        <3>1. \A x, y \in O : x = y
            BY <1>2 DEF WayInv, AloneInv
        <3> QED
            BY <3>1, CountOf
    <2>3. Cardinality(L) = IF L = {} THEN 0 ELSE 1
        <3>1. \A x, y \in L : x = y
            BY <1>2 DEF WayInv, AloneInv
        <3> QED
            BY <3>1, CountOf
    <2>4. Cardinality(H) = IF H = {} THEN 0 ELSE 1
        <3>1. \A x, y \in H : x = y
            BY <1>2 DEF WayInv, AloneInv
        <3> QED
            BY <3>1, CountOf
    <2>5. /\ O # {} => L = {} /\ H = {} /\ F = 0
          /\ L # {} => H = {} /\ F = 0
          /\ H # {} => F = 0
        BY <1>2 DEF WayInv, ApartInv
    <2>6. o < cell <=> O # {} \/ L # {} \/ H # {} \/ F = 1
        <3>1. CASE o < cell
            BY <1>2, <2>1, <3>1 DEF WayInv, KeptInv, Somewhere
        <3>2. CASE ~(o < cell)
            BY <1>2, <2>1, <3>2 DEF PinnedInv, OldInv
        <3> QED
            BY <3>1, <3>2
    <2>7. Places(o) = Cardinality(O) + Cardinality(L) + Cardinality(H) + F
        BY DEF Places
    <2>8. F \in {0, 1}
        OBVIOUS
    <2> HIDE DEF O, L, H, F
    <2> QED
        BY ONLY <2>2, <2>3, <2>4, <2>5, <2>6, <2>7, <2>8
<1> QED
    BY <1>1, <1>2, PinnedInit, PinnedNext, WayNext, PTL DEF Spec

-----------------------------------------------------------------------------
(* The words stay within their bounds: a step that owes a bump of the epoch   *)
(* has room for it, whoever else owes one.                                    *)

Owing == {t \in Thread : Owes(t)}

\* The epochs there is room for; and what a publish has made of its tag.
RoomInv ==
    /\ epoch + Cardinality(Owing) <= MaxEpoch
    /\ \A t \in Thread : /\ pc[t] = "bump" => style = "state"
                         /\ pc[t] = "push" => reg[t] >= 1

LEMMA OwingFinite == IsFiniteSet(Owing) /\ Cardinality(Owing) \in Nat
<1>1. Owing \in SUBSET Thread
    BY DEF Owing
<1>2. IsFiniteSet(Owing)
    BY <1>1, ReadersAssumption, FS_Subset, Zenon
<1> QED
    BY <1>2, FS_CardinalityType

\* The threads that owe a bump, by what a step does to the count.
LEMMA RoomKeeps ==
    ASSUME TypeOK, RoomInv, NEW t \in Thread, NEW W \in SUBSET Thread,
           \/ epoch' = epoch /\ W \subseteq Owing
           \/ Room /\ epoch' = epoch /\ W \subseteq Owing \cup {t}
           \/ Room /\ epoch' = epoch + 1 /\ W \subseteq Owing
           \/ epoch' = epoch + 1 /\ t \in Owing /\ W \subseteq Owing \ {t}
    PROVE  epoch' + Cardinality(W) <= MaxEpoch
<1>1. IsFiniteSet(Owing) /\ Cardinality(Owing) \in Nat
    BY OwingFinite
<1>2. IsFiniteSet(W) /\ Cardinality(W) \in Nat
    <2>1. IsFiniteSet(W)
        BY ReadersAssumption, FS_Subset, Zenon
    <2> QED
        BY <2>1, FS_CardinalityType
<1>3. W \subseteq Owing => Cardinality(W) <= Cardinality(Owing)
    <2> SUFFICES ASSUME W \in SUBSET Owing PROVE Cardinality(W) <= Cardinality(Owing)
        OBVIOUS
    <2> QED
        BY <1>1, FS_Subset, Zenon
<1>4. W \subseteq Owing \cup {t} => Cardinality(W) <= Cardinality(Owing) + 1
    <2> SUFFICES ASSUME W \in SUBSET (Owing \cup {t}) PROVE Cardinality(W) <= Cardinality(Owing) + 1
        OBVIOUS
    <2>1. /\ IsFiniteSet(Owing \cup {t})
          /\ Cardinality(Owing \cup {t}) = IF t \in Owing THEN Cardinality(Owing)
                                           ELSE Cardinality(Owing) + 1
        BY <1>1, FS_AddElement, Zenon
    <2>2. Cardinality(W) <= Cardinality(Owing \cup {t})
        BY <2>1, FS_Subset, Zenon
    <2> QED
        BY ONLY <2>1, <2>2, <1>1, <1>2
<1>5. t \in Owing /\ W \subseteq Owing \ {t} => Cardinality(W) <= Cardinality(Owing) - 1
    <2> SUFFICES ASSUME t \in Owing, W \in SUBSET (Owing \ {t})
                 PROVE  Cardinality(W) <= Cardinality(Owing) - 1
        OBVIOUS
    <2>1. IsFiniteSet(Owing \ {t}) /\ Cardinality(Owing \ {t}) = Cardinality(Owing) - 1
        BY <1>1, FS_RemoveElement
    <2>2. Cardinality(W) <= Cardinality(Owing \ {t})
        BY <2>1, FS_Subset, Zenon
    <2> QED
        BY <2>1, <2>2, Zenon
<1>6. epoch \in Nat /\ MaxEpoch \in Nat /\ epoch + Cardinality(Owing) <= MaxEpoch
    BY ReadersAssumption DEF TypeOK, Epoch, RoomInv
<1>7. Room => epoch + Cardinality(Owing) < MaxEpoch
    BY DEF Room, Owing
<1> QED
    BY <1>1, <1>2, <1>3, <1>4, <1>5, <1>6, <1>7

\* Where a step takes its thread, and whether it owes a bump there.
LEMMA RoomStep ==
    ASSUME TypeOK, RoomInv, NEW t \in Thread, Step(t)
    PROVE  epoch' + Cardinality(Owing') <= MaxEpoch
<1> DEFINE Owed(p) == p \in {"bump", "after", "ready"} \/ (style = "snap" /\ p \in {"peek", "push"})
<1>1. style' = style
    BY DEF Step, Drain, Claim, Release, PinLoad, PinStore, PinCheck, Unpin, Load, Swap, Sweep,
           BumpElsewhere, BumpTag, PeekTag, Push, BumpAfter, Take, WalkPins, OldestFor, SyncPins,
           FreeOld, table
<1>2. \A u \in Thread : u # t => pc'[u] = pc[u]
    BY DEF Step, Drain, Claim, Release, PinLoad, PinStore, PinCheck, Unpin, Load, Swap, Sweep,
           BumpElsewhere, BumpTag, PeekTag, Push, BumpAfter, Take, WalkPins, OldestFor, SyncPins,
           FreeOld, Go, TypeOK
<1>3. \A u \in Thread : /\ u \in Owing <=> Owed(pc[u])
                        /\ u \in Owing' <=> Owed(pc'[u])
    BY <1>1 DEF Owing, Owes
<1>4. Owing' \in SUBSET Thread
    BY DEF Owing
<1>5. \/ epoch' = epoch /\ (Owed(pc'[t]) => Owed(pc[t]))
      \/ Room /\ epoch' = epoch
      \/ Room /\ epoch' = epoch + 1 /\ pc' = pc
      \/ epoch' = epoch + 1 /\ Owed(pc[t]) /\ ~Owed(pc'[t])
    <2> USE DEF TypeOK
    <2>1. CASE Drain(t) \/ Load(t) \/ WalkPins(t)
        <3>1. epoch' = epoch /\ pc' = pc
            BY <2>1 DEF Drain, Load, WalkPins, table
        <3> QED
            BY <3>1
    <2>2. CASE Claim(t) \/ Release(t) \/ PinLoad(t) \/ PinStore(t) \/ PinCheck(t) \/ Unpin(t)
        <3>1. epoch' = epoch /\ pc'[t] \in {"idle", "out", "store", "check", "op", "load"}
            BY <2>2 DEF Claim, Release, PinLoad, PinStore, PinCheck, Unpin, Go, table
        <3> QED
            BY <3>1
    <2>3. CASE Swap(t)
        <3>1. epoch' = epoch /\ (Room \/ (style = "form" /\ pc'[t] = "peek"))
            BY <2>3 DEF Swap, Go, table
        <3> QED
            BY <3>1
    <2>4. CASE Sweep(t)
        <3>1. epoch' = epoch /\ (Room \/ pc'[t] = "take")
            BY <2>4 DEF Sweep, Go, table
        <3> QED
            BY <3>1
    <2>5. CASE BumpElsewhere(t)
        BY <2>5 DEF BumpElsewhere, Bump
    <2>6. CASE BumpTag(t)
        <3>1. epoch' = epoch + 1 /\ pc[t] = "bump" /\ pc'[t] = "push" /\ style = "state"
            BY <2>6 DEF BumpTag, Bump, Go, RoomInv
        <3> QED
            BY <3>1
    <2>7. CASE PeekTag(t)
        <3>1. epoch' = epoch /\ pc[t] = "peek" /\ pc'[t] = "push"
            BY <2>7 DEF PeekTag, Go, table
        <3> QED
            BY <3>1
    <2>8. CASE Push(t)
        <3>1. /\ epoch' = epoch /\ pc[t] = "push" /\ style \in Style
              /\ style = "state" => pc'[t] = "take"
              /\ style = "snap" => pc'[t] = "after"
              /\ style = "form" => pc'[t] = "op"
            BY <2>8 DEF Push, Go, table
        <3> QED
            BY <3>1 DEF Style
    <2>9. CASE BumpAfter(t)
        <3>1. epoch' = epoch + 1 /\ pc[t] \in {"after", "ready"} /\ pc'[t] = "take"
            BY <2>9 DEF BumpAfter, Bump, Go
        <3> QED
            BY <3>1
    <2>10. CASE Take(t) \/ OldestFor(t) \/ SyncPins(t) \/ FreeOld(t)
        <3>1. epoch' = epoch /\ (pc'[t] = pc[t] \/ pc'[t] \in {"op", "idle", "look", "walk", "fence"})
            BY <2>10 DEF Take, OldestFor, SyncPins, FreeOld, Back, Go, table
        <3> QED
            BY <3>1
    <2> QED
        BY <2>1, <2>2, <2>3, <2>4, <2>5, <2>6, <2>7, <2>8, <2>9, <2>10 DEF Step
<1> HIDE DEF Owed
<1>6. CASE epoch' = epoch /\ (Owed(pc'[t]) => Owed(pc[t]))
    <2>1. Owing' \subseteq Owing
        BY <1>2, <1>3, <1>4, <1>6
    <2> QED
        BY <1>4, <1>6, <2>1, RoomKeeps
<1>7. CASE Room /\ epoch' = epoch
    <2>1. Owing' \subseteq Owing \cup {t}
        BY <1>2, <1>3, <1>4
    <2> QED
        BY <1>4, <1>7, <2>1, RoomKeeps
<1>8. CASE Room /\ epoch' = epoch + 1 /\ pc' = pc
    <2>1. Owing' \subseteq Owing
        BY <1>3, <1>4, <1>8
    <2> QED
        BY <1>4, <1>8, <2>1, RoomKeeps
<1>9. CASE epoch' = epoch + 1 /\ Owed(pc[t]) /\ ~Owed(pc'[t])
    <2>1. t \in Owing /\ Owing' \subseteq Owing \ {t}
        BY <1>2, <1>3, <1>4, <1>9
    <2> QED
        BY <1>4, <1>9, <2>1, RoomKeeps
<1> QED
    BY <1>5, <1>6, <1>7, <1>8, <1>9

\* The tags and the styles of the publishes under way.
LEMMA PublishStep ==
    ASSUME TypeOK, RoomInv, NEW t \in Thread, Step(t)
    PROVE  \A u \in Thread : /\ pc'[u] = "bump" => style' = "state"
                             /\ pc'[u] = "push" => reg'[u] >= 1
<1>1. style' = style
    BY DEF Step, Drain, Claim, Release, PinLoad, PinStore, PinCheck, Unpin, Load, Swap, Sweep,
           BumpElsewhere, BumpTag, PeekTag, Push, BumpAfter, Take, WalkPins, OldestFor, SyncPins,
           FreeOld, table
<1>2. \A u \in Thread : u # t => pc'[u] = pc[u] /\ reg'[u] = reg[u]
    BY DEF Step, Drain, Claim, Release, PinLoad, PinStore, PinCheck, Unpin, Load, Swap, Sweep,
           BumpElsewhere, BumpTag, PeekTag, Push, BumpAfter, Take, WalkPins, OldestFor, SyncPins,
           FreeOld, Go, reader, TypeOK
<1>3. epoch \in Nat
    BY ReadersAssumption DEF TypeOK, Epoch
<1>4. \/ pc'[t] = pc[t] /\ reg'[t] = reg[t]
      \/ pc'[t] \notin {"bump", "push"}
      \/ pc'[t] = "bump" /\ style = "state"
      \/ pc'[t] = "push" /\ reg'[t] = epoch + 1
    BY DEF Step, Drain, Claim, Release, PinLoad, PinStore, PinCheck, Unpin, Load, Swap, Sweep,
           BumpElsewhere, BumpTag, PeekTag, Push, BumpAfter, Take, WalkPins, OldestFor, SyncPins,
           FreeOld, Back, Go, reader, Style, TypeOK
<1>5. \A u \in Thread : /\ pc[u] = "bump" => style = "state"
                        /\ pc[u] = "push" => reg[u] >= 1
    BY DEF RoomInv
<1> QED
    BY <1>1, <1>2, <1>3, <1>4, <1>5

\* Every step keeps every word in its bounds.
LEMMA TypeStep ==
    ASSUME TypeOK, RoomInv, PinnedInv, NEW t \in Thread, Step(t)
    PROVE  TypeOK'
<1> DEFINE Where == {"out", "idle", "load", "store", "check", "op", "bump", "peek", "push",
                     "after", "ready", "take", "look", "fence", "walk"}
           Store == Epoch \cup {Top}
<1>a. /\ MaxEpoch \in Nat /\ MaxEpoch >= 1 /\ MaxThing \in Nat /\ NSlots \in Nat /\ NSlots >= 1
      /\ epoch \in Nat /\ epoch >= 1 /\ epoch <= MaxEpoch /\ cell \in Nat /\ cell <= MaxThing
    BY ReadersAssumption DEF TypeOK, Epoch, Thing
<1>b. /\ <<>> \in Seq(Store) /\ Free \in 0..Top /\ Top \in 0..Top /\ Top \in 1..Top /\ Top \in Nat
      /\ 1 \in 1..(NSlots + 1) /\ 0 \in 0..(MaxEpoch + 1) /\ \A v \in Store : v \in 0..Top
    BY <1>a DEF Free, Top, Epoch
<1>c. epoch' \in Epoch
    <2>1. epoch' + Cardinality(Owing') <= MaxEpoch
        BY RoomStep
    <2>2. epoch' = epoch \/ epoch' = epoch + 1
        BY DEF Step, Drain, Claim, Release, PinLoad, PinStore, PinCheck, Unpin, Load, Swap, Sweep,
               BumpElsewhere, BumpTag, PeekTag, Push, BumpAfter, Take, WalkPins, OldestFor,
               SyncPins, FreeOld, Bump, table
    <2>3. Cardinality(Owing') \in Nat
        <3>1. Owing' \in SUBSET Thread
            BY DEF Owing
        <3>2. IsFiniteSet(Owing')
            BY <3>1, ReadersAssumption, FS_Subset, Zenon
        <3> QED
            BY <3>2, FS_CardinalityType
    <2> QED
        BY <1>a, <2>1, <2>2, <2>3 DEF Epoch
<1>d. /\ asym \in BOOLEAN /\ style \in Style
      /\ slot \in [Slot -> 0..Top] /\ buf \in [Thread -> Seq(Store)]
      /\ own \in [Thread -> Slot \cup {Free}] /\ pc \in [Thread -> Where]
      /\ reg \in [Thread -> 0..(MaxEpoch + 1)] /\ held \in [Thread -> SUBSET Thing]
      /\ out \in [Thread -> SUBSET Thing] /\ list \subseteq Item
      /\ hand \in [Thread -> SUBSET Item] /\ low \in [Thread -> 1..Top]
      /\ at \in [Thread -> 1..(NSlots + 1)] /\ todo \in [Thread -> SUBSET Thread]
      /\ freed \subseteq Thing /\ cell \in Thing
    BY DEF TypeOK
<1>e. \A u \in Thread : buf[u] \in Seq(Store)
    BY <1>d
<1> HIDE DEF Store
\* Each part of the state, by the steps that change it.
<1>1. asym' = asym /\ style' = style
    BY DEF Step, Drain, Claim, Release, PinLoad, PinStore, PinCheck, Unpin, Load, Swap, Sweep,
           BumpElsewhere, BumpTag, PeekTag, Push, BumpAfter, Take, WalkPins, OldestFor, SyncPins,
           FreeOld, table
<1>2. slot' \in [Slot -> 0..Top] /\ buf' \in [Thread -> Seq(Store)]
    <2>1. CASE UNCHANGED <<slot, buf>>
        BY <1>d, <2>1
    <2>2. CASE Drain(t)
        <3>1. buf[t] # <<>> /\ slot' = [slot EXCEPT ![own[t]] = Head(buf[t])]
              /\ buf' = [buf EXCEPT ![t] = Tail(buf[t])]
            BY <2>2 DEF Drain
        <3>2. Head(buf[t]) \in Store /\ Tail(buf[t]) \in Seq(Store)
            BY <1>e, <3>1
        <3>3. Head(buf[t]) \in 0..Top
            BY <1>b, <3>2
        <3> QED
            BY <1>d, <3>1, <3>2, <3>3
    <2>3. CASE Claim(t)
        <3>1. PICK s \in Slot : slot' = [slot EXCEPT ![s] = Top]
            BY <2>3 DEF Claim
        <3>2. buf' = buf
            BY <2>3 DEF Claim
        <3> QED
            BY <1>b, <1>d, <3>1, <3>2
    <2>4. ASSUME NEW v \in 0..Top, Fenced(t, v)
          PROVE  slot' \in [Slot -> 0..Top] /\ buf' \in [Thread -> Seq(Store)]
        BY <1>b, <1>d, <2>4 DEF Fenced
    <2>5. ASSUME NEW v \in Store, Plain(t, v)
          PROVE  slot' \in [Slot -> 0..Top] /\ buf' \in [Thread -> Seq(Store)]
        <3>1. Append(buf[t], v) \in Seq(Store)
            BY <1>e
        <3> QED
            BY <1>d, <2>5, <3>1 DEF Plain
    <2>6. CASE Release(t)
        BY <1>b, <2>4, <2>6 DEF Release
    <2>7. CASE PinStore(t)
        <3>1. reg[t] \in 1..epoch
            BY <2>7 DEF PinStore, PinnedInv, PinInv
        <3>2. reg[t] \in Store
            BY <1>a, <3>1 DEF Store, Epoch
        <3> QED
            BY <1>b, <2>4, <2>5, <2>7, <3>2 DEF PinStore
    <2>8. CASE Unpin(t)
        <3>1. Top \in Store
            BY DEF Store
        <3> QED
            BY <2>5, <2>8, <3>1 DEF Unpin
    <2>9. CASE SyncPins(t)
        <3>1. ASSUME NEW u \in todo[t], slot' = Flushed(u), buf' = [buf EXCEPT ![u] = <<>>]
              PROVE  slot' \in [Slot -> 0..Top] /\ buf' \in [Thread -> Seq(Store)]
            <4>1. u \in Thread
                BY <1>d
            <4>2. buf[u] # <<>> => buf[u][Len(buf[u])] \in Store
                BY <1>e, <4>1
            <4>3. buf[u] # <<>> => buf[u][Len(buf[u])] \in 0..Top
                BY <1>b, <4>2
            <4> QED
                BY <1>b, <1>d, <3>1, <4>1, <4>3 DEF Flushed
        <3> QED
            BY <2>1, <2>9, <3>1 DEF SyncPins
    <2> QED
        BY <2>1, <2>2, <2>3, <2>6, <2>7, <2>8, <2>9
        DEF Step, PinLoad, PinCheck, Load, Swap, Sweep, BumpElsewhere, BumpTag, PeekTag, Push,
            BumpAfter, Take, WalkPins, OldestFor, FreeOld, table
<1>3. own' \in [Thread -> Slot \cup {Free}]
    <2>1. own' = own \/ \E s \in Slot \cup {Free} : own' = [own EXCEPT ![t] = s]
        BY DEF Step, Drain, Claim, Release, PinLoad, PinStore, PinCheck, Unpin, Load, Swap, Sweep,
               BumpElsewhere, BumpTag, PeekTag, Push, BumpAfter, Take, WalkPins, OldestFor,
               SyncPins, FreeOld, table
    <2> QED
        BY <1>d, <2>1
<1>4. pc' \in [Thread -> Where]
    <2>1. pc' = pc \/ \E p \in Where : pc' = [pc EXCEPT ![t] = p]
        BY <1>d DEF Step, Drain, Claim, Release, PinLoad, PinStore, PinCheck, Unpin, Load, Swap,
               Sweep, BumpElsewhere, BumpTag, PeekTag, Push, BumpAfter, Take, WalkPins, OldestFor,
               SyncPins, FreeOld, Back, Go, Style
    <2> HIDE DEF Where
    <2> QED
        BY <1>d, <2>1
<1>5. reg' \in [Thread -> 0..(MaxEpoch + 1)]
    <2>1. \/ reg' = reg
          \/ \E r \in {0, epoch, epoch + 1} : reg' = [reg EXCEPT ![t] = r]
        BY DEF Step, Drain, Claim, Release, PinLoad, PinStore, PinCheck, Unpin, Load, Swap, Sweep,
               BumpElsewhere, BumpTag, PeekTag, Push, BumpAfter, Take, WalkPins, OldestFor,
               SyncPins, FreeOld, reader
    <2>2. \A r \in {0, epoch, epoch + 1} : r \in 0..(MaxEpoch + 1)
        BY <1>a
    <2> QED
        BY <1>d, <2>1, <2>2
<1>6. held' \in [Thread -> SUBSET Thing] /\ cell' \in Thing /\ out' \in [Thread -> SUBSET Thing]
    <2>1. CASE UNCHANGED <<held, cell, out>>
        BY <1>d, <2>1
    <2>2. CASE Load(t)
        <3>1. held' = [held EXCEPT ![t] = held[t] \cup {cell}] /\ cell' = cell /\ out' = out
            BY <2>2 DEF Load, lists
        <3>2. held[t] \cup {cell} \in SUBSET Thing
            BY <1>d
        <3> QED
            BY <1>d, <3>1, <3>2
    <2>3. CASE Unpin(t)
        BY <1>d, <2>3 DEF Unpin, lists
    <2>4. CASE Swap(t)
        <3>1. cell' = cell + 1 /\ cell < MaxThing /\ out' = [out EXCEPT ![t] = {cell}]
              /\ held' = [held EXCEPT ![t] = held[t] \cup {cell + 1}]
            BY <2>4 DEF Swap
        <3>2. cell + 1 \in Thing
            BY <1>a, <3>1 DEF Thing
        <3>3. held[t] \cup {cell + 1} \in SUBSET Thing /\ {cell} \in SUBSET Thing
            BY <1>d, <3>2
        <3> QED
            BY <1>d, <3>1, <3>2, <3>3
    <2>5. CASE Push(t)
        BY <1>d, <2>5 DEF Push
    <2> QED
        BY <2>1, <2>2, <2>3, <2>4, <2>5
        DEF Step, Drain, Claim, Release, PinLoad, PinStore, PinCheck, Sweep, BumpElsewhere,
            BumpTag, PeekTag, BumpAfter, Take, WalkPins, OldestFor, SyncPins, FreeOld, reader, lists
<1>7. list' \subseteq Item /\ hand' \in [Thread -> SUBSET Item] /\ freed' \subseteq Thing
    <2>1. CASE UNCHANGED <<list, hand, freed>>
        BY <1>d, <2>1
    <2>2. CASE Push(t)
        <3>1. reg[t] \in 1..(MaxEpoch + 1)
            <4>1. reg[t] \in 0..(MaxEpoch + 1) /\ reg[t] >= 1
                BY <1>d, <2>2 DEF Push, RoomInv
            <4> QED
                BY <1>a, <4>1
        <3>2. \A o \in out[t] : [thing |-> o, tag |-> reg[t]] \in Item
            BY <1>d, <3>1 DEF Item
        <3>3. list' \subseteq Item
            BY <1>d, <2>2, <3>2 DEF Push
        <3> QED
            BY <1>d, <2>2, <3>3 DEF Push, sweep
    <2>3. CASE Take(t)
        BY <1>d, <2>3 DEF Take
    <2>4. CASE FreeOld(t)
        <3>1. \A i \in hand[t] : i \in Item /\ i.thing \in Thing
            BY <1>d DEF Item
        <3>2. freed' \subseteq Thing
            BY <1>d, <2>4, <3>1 DEF FreeOld
        <3>3. list' \subseteq Item
            BY <1>d, <2>4, <3>1 DEF FreeOld
        <3>4. hand' \in [Thread -> SUBSET Item]
            BY <1>d, <2>4 DEF FreeOld
        <3> QED
            BY <3>2, <3>3, <3>4
    <2> QED
        BY <2>1, <2>2, <2>3, <2>4
        DEF Step, Drain, Claim, Release, PinLoad, PinStore, PinCheck, Unpin, Load, Swap, Sweep,
            BumpElsewhere, BumpTag, PeekTag, BumpAfter, WalkPins, OldestFor, SyncPins, lists, sweep
<1>8. low' \in [Thread -> 1..Top] /\ at' \in [Thread -> 1..(NSlots + 1)]
    <2>1. CASE UNCHANGED <<low, at>>
        BY <1>d, <2>1
    <2>2. CASE low' = [low EXCEPT ![t] = Top] /\ at' = [at EXCEPT ![t] = 1]
        BY <1>b, <1>d, <2>2
    <2>3. CASE WalkPins(t)
        <3>1. at[t] \in 1..(NSlots + 1) /\ at[t] <= NSlots
            BY <1>d, <2>3 DEF WalkPins
        <3>2. at[t] \in Slot /\ at[t] + 1 \in 1..(NSlots + 1)
            BY <1>a, <3>1 DEF Slot
        <3>3. PICK v \in 0..Top : v = slot[at[t]]
            BY <1>d, <3>2
        <3>4. at' = [at EXCEPT ![t] = at[t] + 1]
              /\ low' = [low EXCEPT ![t] = IF v # Free /\ v < low[t] THEN v ELSE low[t]]
            BY <2>3, <3>3 DEF WalkPins
        <3>5. (IF v # Free /\ v < low[t] THEN v ELSE low[t]) \in 1..Top
            BY <1>b, <1>d DEF Free
        <3> QED
            BY <1>d, <3>2, <3>4, <3>5
    <2>4. CASE OldestFor(t)
        BY <2>1, <2>2, <2>4 DEF OldestFor
    <2>5. CASE FreeOld(t)
        BY <2>2, <2>5 DEF FreeOld
    <2> QED
        BY <2>1, <2>3, <2>4, <2>5
        DEF Step, Drain, Claim, Release, PinLoad, PinStore, PinCheck, Unpin, Load, Swap, Sweep,
            BumpElsewhere, BumpTag, PeekTag, Push, BumpAfter, Take, SyncPins, sweep
<1>9. todo' \in [Thread -> SUBSET Thread]
    <2>1. todo' = todo \/ \E S \in SUBSET Thread : todo' = [todo EXCEPT ![t] = S]
        <3>1. CASE OldestFor(t)
            BY <3>1 DEF OldestFor
        <3>2. CASE SyncPins(t)
            <4>1. todo' = todo \/ \E u \in todo[t] : todo' = [todo EXCEPT ![t] = todo[t] \ {u}]
                BY <3>2 DEF SyncPins
            <4>2. \A u \in todo[t] : todo[t] \ {u} \in SUBSET Thread
                BY <1>d
            <4> QED
                BY <4>1, <4>2
        <3> QED
            BY <3>1, <3>2
            DEF Step, Drain, Claim, Release, PinLoad, PinStore, PinCheck, Unpin, Load, Swap, Sweep,
                BumpElsewhere, BumpTag, PeekTag, Push, BumpAfter, Take, WalkPins, FreeOld, sweep
    <2> QED
        BY <1>d, <2>1
<1> QED
    BY <1>1, <1>2, <1>3, <1>4, <1>5, <1>6, <1>7, <1>8, <1>9, <1>c, <1>d DEF TypeOK, Store

\* Every word stays in the range the code gives it, and the epoch within its
\* bound: a step that owes Readers::bump finds room for it, whatever the other
\* threads owe.
THEOREM WordsStayInRange == Spec => []TypeOK
<1>1. Init => TypeOK /\ RoomInv
    <2> SUFFICES ASSUME Init PROVE TypeOK /\ RoomInv
        OBVIOUS
    <2>1. TypeOK
        BY ReadersAssumption DEF Init, TypeOK, Epoch, Thing, Slot, Free, Top
    <2>2. Owing = {}
        BY DEF Init, Owing, Owes
    <2> QED
        BY <2>1, <2>2, FS_EmptySet, ReadersAssumption DEF Init, RoomInv
<1>2. ASSUME TypeOK, RoomInv, PinnedInv, [Next]_vars PROVE (TypeOK /\ RoomInv)'
    <2>1. ASSUME NEW t \in Thread, Step(t) PROVE (TypeOK /\ RoomInv)'
        <3>1. TypeOK'
            BY <1>2, <2>1, TypeStep
        <3>2. epoch' + Cardinality(Owing') <= MaxEpoch
            BY <1>2, <2>1, RoomStep
        <3>3. \A u \in Thread : /\ pc'[u] = "bump" => style' = "state"
                                /\ pc'[u] = "push" => reg'[u] >= 1
            BY <1>2, <2>1, PublishStep
        <3> QED
            BY <3>1, <3>2, <3>3 DEF RoomInv
    <2>2. CASE UNCHANGED vars
        <3>1. UNCHANGED <<asym, style, epoch, slot, buf, own, pc, reg, held, cell, out, list,
                          freed, hand, low, at, todo>>
            BY <2>2 DEF vars, table, reader, lists, sweep
        <3>2. TypeOK'
            BY <1>2, <3>1 DEF TypeOK
        <3>3. Owing' = Owing
            BY <3>1 DEF Owing, Owes
        <3> QED
            BY <1>2, <3>1, <3>2, <3>3 DEF RoomInv
    <2> QED
        BY <1>2, <2>1, <2>2 DEF Next
<1> QED
    BY <1>1, <1>2, PinnedInit, PinnedNext, PTL DEF Spec
=============================================================================
