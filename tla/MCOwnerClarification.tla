---- MODULE MCOwnerClarification ----
(* Small conversations for TLC. *)
EXTENDS OwnerClarification, TLC
Symmetry == Permutations(Messages)
====
