------------------------------ MODULE MCWalAll ------------------------------
(* The log in two stores, picked by Init and kept: one that loses power with  *)
(* files rotated by size, and one whose process is killed with seals that     *)
(* rotate the log (the constants of MCWalAll.cfg).                            *)
EXTENDS Wal

VARIABLE which

P == INSTANCE Wal WITH
        SealRotatesWal <- FALSE, FrozenCap <- 1, Failures <- {"power"},
        MaxBatch <- 3, MaxFile <- 2

all == <<vars, which>>
AllInit == \/ which = "kill" /\ Init
           \/ which = "power" /\ P!Init
In(s, A) == which = s /\ A /\ UNCHANGED which
AllNext == In("kill", Next) \/ In("power", P!Next)
AllOpens == In("kill", Opens) \/ In("power", P!Opens)
AllSpec == AllInit /\ [][AllNext]_all /\ WF_all(AllOpens)

\* The type invariant, each store over its own files and batches.
TypesOK == (which = "kill" => TypeOK) /\ (which = "power" => P!TypeOK)

\* The policy's bound on what a power loss takes (LossCounted).  In the killed
\* store an open takes what the page cache held for synced, so its count starts
\* below what the device lacks.
PowerLossCounted == which = "power" => LossCounted

\* A process that dies loses nothing it committed, synced or not (NothingLost):
\* the page cache outlives it.
KillLosesNothing == which = "kill" => NothingLost
=============================================================================
