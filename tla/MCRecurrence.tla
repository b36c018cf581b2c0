---------------------------- MODULE MCRecurrence ----------------------------
(* The calendar search of Recurrence, asked at every instant of a clock that
   runs through two transitions of a time zone, against what an occurrence of
   a recurrence is.                                                        *)
EXTENDS Recurrence

CONSTANTS
    FirstStarts,    \* the instants a schedule may start at
    LastAfter       \* the last instant the search is asked at

\* Clocks jump forward at 42 and back at 65, there across midnight.
Zone == [ t \in 0..Horizon |-> IF t \in 42..64 THEN 2 ELSE 0 ]

\* The clock ends three weeks behind the last question, so that no answer is missed.
SearchAssumption ==
    /\ FirstStarts \subseteq 0..LastAfter /\ LastAfter \in Nat
    /\ LastAfter + 22 * DayLength + 2 <= Horizon

VARIABLES rule, start, after

vars == <<rule, start, after>>

Init == rule \in {"DAILY", "WEEKLY"} /\ start \in FirstStarts /\ after = 0

\* The clock runs; asking again right after an occurrence is one of its instants.
Next == after < LastAfter /\ after' = after + 1 /\ UNCHANGED <<rule, start>>

Spec == Init /\ [][Next]_vars

-----------------------------------------------------------------------------

Found == NextOccurrence[rule][start][after]

Candidates == Occurrences(rule, start)
Unique(t) == IsUnique(start, t)

\* The occurrence found lies in the future, on a named date, at start's wall-clock
\* time, and no such instant lies between it and the present: shortcuts over past
\* periods never skip one, and a local time that exists twice is never chosen.  The
\* one instant the search may pass over is the second showing of a local time on
\* the date before, when clocks have been set back across midnight.
FoundIsTheNextOne ==
    Found \in Instants =>
        /\ Found > after /\ Found \in Candidates /\ Unique(Found)
        /\ \A t \in Candidates : t > after =>
              t >= Found \/ (CivilDate(Local(t)) < CivilDate(Local(after)) /\ ~Unique(t))

\* The search gives up only at a date whose local time, not yet passed, is missing or
\* exists twice, and only if no good occurrence comes before that date.
GivesUpOnlyWhenBlocked ==
    Found = Invalid =>
        \E date \in 0..CivilDate(Local(Horizon)) :
            /\ IsBlocked(rule, start, after, date)
            /\ \A t \in Candidates : t > after => CivilDate(Local(t)) >= date

\* Both: the search finds an occurrence exactly where there is one to be found.
SearchIsRight == FoundIsTheNextOne /\ GivesUpOnlyWhenBlocked
=============================================================================
