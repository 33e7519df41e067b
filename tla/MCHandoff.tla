----------------------------- MODULE MCHandoff -----------------------------
(* The hand-over of tables on small instances.                              *)
EXTENDS Handoff
=============================================================================
