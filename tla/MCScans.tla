------------------------------ MODULE MCScans -------------------------------
(* Scans checked by TLC, seven instances in one run.  A handle, beside        *)
(* landings ("land"), passes cut short that drop forms and move the snapshot  *)
(* ("short"), the writer's own scans and the claims of other handles          *)
(* ("claim"), and forms given up ("giveup"); and the writer and its upkeep    *)
(* alone, with all of that but landings and give-ups ("upkeep"), beside       *)
(* landings that rewrite ("carry"), and giving up beside them ("bare").       *)
EXTENDS Scans

VARIABLE part

One == {"append"}
L == INSTANCE Scans WITH
        Kinds <- One, Isolations <- {"snapshot"}, Allowed <- {}
S == INSTANCE Scans WITH
        Kinds <- {"put", "delete"}, Isolations <- {"latest"}, MaxGen <- 1,
        Allowed <- {"behind", "short", "drop"}
C == INSTANCE Scans WITH
        Kinds <- One, Isolations <- {"latest"}, MaxGen <- 1, MaxCommit <- 1,
        Allowed <- {"writer", "claim"}
G == INSTANCE Scans WITH
        Kinds <- One, Isolations <- {"latest"}, MaxGen <- 1, Allowed <- {"giveup"}
U == INSTANCE Scans WITH
        Handles <- {}, MaxGen <- 1, Allowed <- Happenings \ {"rewrite", "giveup"}
K == INSTANCE Scans WITH
        Handles <- {}, Kinds <- One, Allowed <- {"writer", "rewrite"}
B == INSTANCE Scans WITH
        Handles <- {}, Kinds <- One, Allowed <- {"rewrite", "giveup"}

AllInit == \/ part = "land" /\ L!Init
           \/ part = "short" /\ S!Init
           \/ part = "claim" /\ C!Init
           \/ part = "giveup" /\ G!Init
           \/ part = "upkeep" /\ U!Init
           \/ part = "carry" /\ K!Init
           \/ part = "bare" /\ B!Init
AllNext == /\ \/ part = "land" /\ L!Next
              \/ part = "short" /\ S!Next
              \/ part = "claim" /\ C!Next
              \/ part = "giveup" /\ G!Next
              \/ part = "upkeep" /\ U!Next
              \/ part = "carry" /\ K!Next
              \/ part = "bare" /\ B!Next
           /\ UNCHANGED part
AllSpec == AllInit /\ [][AllNext]_<<vars, part>>

=============================================================================
