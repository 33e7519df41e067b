---------------------------- MODULE MCLandingAll ----------------------------
(* Landing under every option that changes what a landing writes: one         *)
(* instance per store, picked by Init and kept.                               *)
EXTENDS Landing

VARIABLE store

S == INSTANCE Landing WITH
        Always <- FALSE, Defers <- FALSE, MaxBatch <- 2,
        Faults <- {"power", "tear", "write", "land"}
P == INSTANCE Landing WITH
        Always <- FALSE, Defers <- FALSE, Pending <- TRUE, MaxBatch <- 2,
        Faults <- {"power", "tear", "write"}

all == <<vars, store>>
In(s, A) == store = s /\ A /\ UNCHANGED store
AllInit == store \in {"slots", "defer", "pending"} /\ Init
AllNext == \/ In("slots", S!Next) \/ In("defer", Next)
           \/ In("pending", P!Next)
AllMaint == \/ In("slots", S!Maint) \/ In("defer", Maint)
            \/ In("pending", P!Maint)
AllMergeDone == \/ In("slots", S!MergeDone) \/ In("defer", MergeDone)
                \/ In("pending", P!MergeDone)
AllThread(s) == \/ In("slots", S!Thread(s)) \/ In("defer", Thread(s))
                \/ In("pending", P!Thread(s))
AllSpec == /\ AllInit /\ [][AllNext]_all
           /\ WF_all(AllMaint) /\ WF_all(AllMergeDone)
           /\ \A s \in Seg : WF_all(AllThread(s))
=============================================================================
