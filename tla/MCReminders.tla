----------------------------- MODULE MCReminders -----------------------------
(* Instances of Reminders for TLC. *)
EXTENDS Reminders, TLC

\* Ids that are all keyed and deliverable, and creations, are interchangeable.
Symmetry == Permutations(Ids) \union Permutations(Creators)
=============================================================================
