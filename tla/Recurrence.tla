----------------------------- MODULE Recurrence -----------------------------
(***************************************************************************)
(* The calendar arithmetic of src/internal/domain/scheduledmessage/        *)
(* recurrence.go: from a recurrence rule, the instant a schedule starts at *)
(* and an instant "after", the first future calendar occurrence.           *)
(*                                                                         *)
(* Instants are the ticks 0..Horizon of UTC.  A time zone is a function    *)
(* from instants to offsets; where it jumps forward a wall-clock time does *)
(* not exist, where it jumps back one exists twice.                        *)
(***************************************************************************)
EXTENDS Integers, FiniteSets

CONSTANTS
    DayLength,   \* ticks in a civil day
    Horizon,     \* the last instant of the model
    Offset,      \* Offset[t]: local time minus UTC at instant t
    Nil,         \* Go's nil: no instant, no lease, no content
    Invalid      \* an error: the local time is ambiguous or does not exist

Instants == 0..Horizon

ASSUME CalendarAssumption ==
    /\ DayLength \in Nat \ {0}
    /\ Horizon \in Nat
    /\ Offset \in [Instants -> Int]
    /\ \A t, u \in Instants : Offset[t] - Offset[u] <= DayLength
    /\ Nil \notin Int /\ Invalid \notin Int /\ Nil # Invalid

Rules == {"ONCE", "DAILY", "WEEKLY"}

RecurrencePeriod(rule) == IF rule = "DAILY" THEN 1 ELSE 7

Local(t) == t + Offset[t]
CivilDate(local) == local \div DayLength
WallClock(local) == local % DayLength

\* The instants at which clocks in the zone show this date and this time.
WallTimeMatches(date, wall) ==
    { t \in Instants : Local(t) = date * DayLength + wall }

\* What one calendar date contributes: its occurrence if that is unique and
\* future, Nil if it has passed, Invalid if it cannot be told.
OccurrenceOnDate(date, wall, after) ==
    LET matches == WallTimeMatches(date, wall)
        future  == { t \in matches : t > after }
        passed  ==
            IF matches = {}
            THEN date = CivilDate(Local(after)) /\ WallClock(Local(after)) >= wall
            ELSE future = {} /\ Cardinality(matches) <= 2
    IN  IF passed THEN Nil
        ELSE IF Cardinality(matches) = 1 THEN CHOOSE t \in matches : TRUE
        ELSE Invalid

\* Seeded fault: searching from the day after "after", as if today had passed.
FirstStepSkipsToday(rule, start, after) ==
    LET days == CivilDate(Local(after)) - CivilDate(Local(start))
    IN  IF days > 0 THEN days \div RecurrencePeriod(rule) + 1 ELSE 0

\* The number of whole periods to skip before the search starts.
FirstStep(rule, start, after) ==
    LET days   == CivilDate(Local(after)) - CivilDate(Local(start))
        period == RecurrencePeriod(rule)
    IN  IF days > 0 THEN (days + period - 1) \div period ELSE 0

\* The first step from FirstStep on whose date decides the search.  The third date
\* lies two days after the day of "after" and no zone is set back by more than a day,
\* so the code's unbounded loop ends within three tries (proved as SearchEnds).
FirstFutureOccurrence(rule, start, after) ==
    LET On(step) == OccurrenceOnDate(CivilDate(Local(start)) + step * RecurrencePeriod(rule),
                                     WallClock(Local(start)), after)
        first    == FirstStep(rule, start, after)
    IN  IF On(first) # Nil THEN On(first)
        ELSE IF On(first + 1) # Nil THEN On(first + 1)
        ELSE On(first + 2)

NextOccurrence ==
    [ rule \in Rules |-> [ start \in Instants |-> [ after \in Instants |->
        IF rule = "ONCE" THEN Nil ELSE FirstFutureOccurrence(rule, start, after) ] ] ]

-----------------------------------------------------------------------------
(* What an occurrence is, apart from how it is searched for *)

\* The dates a recurrence names: start's and every whole period after it.
IsNamed(rule, start, date) ==
    LET days == date - CivilDate(Local(start))
    IN  days >= 0 /\ days % RecurrencePeriod(rule) = 0

\* The instants that show start's time on a date.
Showing(start, date) == WallTimeMatches(date, WallClock(Local(start)))

Occurrences(rule, start) ==
    { t \in Instants : LET date == CivilDate(Local(t))
                       IN  IsNamed(rule, start, date) /\ t \in Showing(start, date) }

IsUnique(start, t) == Showing(start, CivilDate(Local(t))) = {t}

\* A named date, not passed yet, on which start's time is missing or exists twice.
IsBlocked(rule, start, after, date) ==
    LET today == CivilDate(Local(after))
    IN  /\ IsNamed(rule, start, date) /\ Cardinality(Showing(start, date)) # 1
        /\ \/ date > today
           \/ /\ date = today
              /\ \/ WallClock(Local(start)) > WallClock(Local(after))
                 \/ \E t \in Showing(start, date) : t > after
                 \/ Cardinality(Showing(start, date)) > 2
=============================================================================
