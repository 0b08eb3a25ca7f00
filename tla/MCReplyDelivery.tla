--------------------------- MODULE MCReplyDelivery ---------------------------
(* ReplyDelivery for TLC.  Liveness is checked, so no symmetry is used.     *)
EXTENDS ReplyDelivery
==============================================================================
