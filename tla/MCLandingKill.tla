--------------------------- MODULE MCLandingKill ----------------------------
(* Landing through process kills and every failure: a store whose drains      *)
(* leave the slot's sync for later, and one whose drains wait for it, picked  *)
(* by Init and kept.                                                          *)
EXTENDS Landing

VARIABLE store

W == INSTANCE Landing WITH Defers <- FALSE

all == <<vars, store>>
In(s, A) == store = s /\ A /\ UNCHANGED store
AllInit == store \in {"defers", "waits"} /\ Init
AllNext == In("defers", Next) \/ In("waits", W!Next)
AllMaint == In("defers", Maint) \/ In("waits", W!Maint)
AllMergeDone == In("defers", MergeDone) \/ In("waits", W!MergeDone)
AllThread(s) == In("defers", Thread(s)) \/ In("waits", W!Thread(s))
AllSpec == /\ AllInit /\ [][AllNext]_all
           /\ WF_all(AllMaint) /\ WF_all(AllMergeDone)
           /\ \A s \in Seg : WF_all(AllThread(s))
=============================================================================
