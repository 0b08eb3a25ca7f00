-------------------------- MODULE MCExecutionSafety --------------------------
(* Two workers compete for the one effect of a run with two intents. *)
EXTENDS ExecutionSafety, TLC

Symmetric == Permutations(Intents) \cup Permutations(Callers)
=============================================================================
