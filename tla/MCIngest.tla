------------------------------ MODULE MCIngest ------------------------------
(* Ingest checked by TLC from an empty store, and from one reopened over two  *)
(* partitions: keys 1 and MaxKey sealed, merged and cut at MaxKey.            *)
EXTENDS Ingest

VARIABLE from

Parted ==
    LET w(n, k) == [n |-> n, k |-> k, del |-> FALSE]
        h == <<w(1, 1), w(2, MaxKey)>>
        par(lo, hi) == Bottom({RunPiece({}, 2, 1, h)}, [lo |-> lo, hi |-> hi], 2)
    IN /\ phase = "up" /\ hist = h /\ com = 2 /\ prom = 2
       /\ mem = [ord |-> FALSE, log |-> <<>>] /\ maxKey = MaxKey /\ run = 0
       /\ frozen = <<>> /\ segs = {par(0, MaxKey), par(MaxKey, Top)}
       /\ covered = 2 /\ wal = <<>> /\ walDur = 0 /\ unsynced = 0
       /\ tmps = {} /\ merges = {} /\ tier = {} /\ nextSeg = 1 /\ fails = 0

\* Bounds: the empty store takes two writes fewer and no crash, or three fewer.
E == INSTANCE Ingest WITH MaxWrite <- MaxWrite - 2, MaxFail <- 0
C == INSTANCE Ingest WITH MaxWrite <- MaxWrite - 3

AllInit == \/ from \in {"empty", "crash"} /\ Init
           \/ from = "parted" /\ Parted
AllNext == /\ \/ from = "empty" /\ E!Next
              \/ from = "crash" /\ C!Next
              \/ from = "parted" /\ Next
           /\ UNCHANGED from
AllSpec == AllInit /\ [][AllNext]_<<vars, from>>
=============================================================================
