--------------------------- MODULE MCResponseReview ---------------------------
(* Three transactions at once over one review with two texts.                *)
EXTENDS ResponseReview, TLC

Symmetry == Permutations(Callers)
===============================================================================
