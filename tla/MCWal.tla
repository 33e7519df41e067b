------------------------------- MODULE MCWal -------------------------------
(* The log on small instances: see the MCWal*.cfg files.                     *)
EXTENDS Wal
=============================================================================
