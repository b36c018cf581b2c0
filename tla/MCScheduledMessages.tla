------------------------ MODULE MCScheduledMessages ------------------------
(* Small instances of ScheduledMessages. *)
EXTENDS ScheduledMessages, TLC

\* A zone without transitions.
NoShift == [ t \in 0..Horizon |-> 0 ]

\* Clocks jump forward at instant 5: the wall-clock time of instant 1 does not
\* exist on the next day.
SpringForward == [ t \in 0..Horizon |-> IF t < 5 THEN 0 ELSE 1 ]

Symmetry == Permutations(Schedulers) \union Permutations(Editors)
=============================================================================
