---- MODULE MCMailIntake ----
(* Small mailboxes for TLC. *)
EXTENDS MailIntake, TLC
Symmetry == Permutations(Tenants) \cup Permutations(Schedulers) \cup Permutations(Messages)
====
