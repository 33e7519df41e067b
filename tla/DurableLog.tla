----------------------------- MODULE DurableLog -----------------------------
(***************************************************************************)
(* What the log promises its caller, with no file in it: batches are kept   *)
(* in the order they were committed; a sync that returns promises every      *)
(* batch committed before it; and what a failure leaves is a prefix of what  *)
(* was committed, with nothing that was promised missing.                    *)
(***************************************************************************)
EXTENDS Naturals, Sequences

CONSTANT Batch

VARIABLES
    log,       \* the batches committed, oldest first
    promised,  \* how many of them a sync has promised
    up         \* whether the store is open

vars == <<log, promised, up>>

Init == log = <<>> /\ promised = 0 /\ up = TRUE

Commit(b) ==
    /\ up /\ log' = Append(log, b)
    /\ UNCHANGED <<promised, up>>

Sync ==
    /\ up /\ promised' = Len(log)
    /\ UNCHANGED <<log, up>>

Fail ==
    /\ up /\ up' = FALSE
    /\ UNCHANGED <<log, promised>>

Recover ==
    /\ ~up /\ up' = TRUE
    /\ \E n \in promised..Len(log) : log' = SubSeq(log, 1, n)
    /\ UNCHANGED promised

Next == (\E b \in Batch : Commit(b)) \/ Sync \/ Fail \/ Recover

Spec == Init /\ [][Next]_vars
=============================================================================
