--------------------------- MODULE MCOwnerReplyGrace ---------------------------
(* OwnerReplyGrace for TLC.  Liveness is checked, so no symmetry is used.     *)
EXTENDS OwnerReplyGrace
================================================================================
