----------------------------- MODULE MCReaders -----------------------------
(* The reader table on a small instance, its threads interchangeable.       *)
EXTENDS Readers, TLC

Threads == Permutations(Thread)
=============================================================================
