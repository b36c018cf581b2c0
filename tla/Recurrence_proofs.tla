--------------------------- MODULE Recurrence_proofs ---------------------------
(* What the search for the next occurrence returns, for every time zone.        *)
EXTENDS Recurrence, FiniteSetTheorems, TLAPS

\* Division with remainder: what the calendar's day and wall clock are made of.
LEMMA DivMod ==
    ASSUME NEW x \in Int, NEW n \in Nat \ {0}
    PROVE  /\ x \div n \in Int /\ x % n \in 0..(n - 1)
           /\ x = n * (x \div n) + (x % n)
  OBVIOUS

\* The civil date and the wall clock of an instant are naturals, the clock below a day.
LEMMA LocalType ==
    ASSUME NEW t \in Instants
    PROVE  /\ t \in Int /\ Offset[t] \in Int /\ Local(t) = t + Offset[t] /\ Local(t) \in Int
           /\ CivilDate(Local(t)) \in Int /\ WallClock(Local(t)) \in 0..(DayLength - 1)
<1>1. t \in Int /\ Offset[t] \in Int
  BY CalendarAssumption DEF Instants
<1>2. Local(t) = t + Offset[t] /\ Local(t) \in Int
  BY <1>1 DEF Local
<1>3. DayLength \in Nat \ {0}
  BY CalendarAssumption
<1> QED BY <1>1, <1>2, <1>3, DivMod DEF CivilDate, WallClock

\* A single date yields an instant that shows the wall-clock time and lies ahead,
\* nothing, or an error.
LEMMA OccurrenceOnDateType ==
    ASSUME NEW date, NEW wall, NEW after
    PROVE  LET found == OccurrenceOnDate(date, wall, after)
           IN  \/ found \in {Nil, Invalid}
               \/ found \in WallTimeMatches(date, wall) /\ found > after
<1> DEFINE matches == WallTimeMatches(date, wall)
           future  == { t \in matches : t > after }
<1>1. CASE Cardinality(matches) = 1
  <2>0. IsFiniteSet(Instants)
    BY FS_Interval, CalendarAssumption DEF Instants
  <2>1. IsFiniteSet(matches)
    <3>1. matches \in SUBSET Instants
      BY DEF WallTimeMatches
    <3> QED BY <2>0, <3>1, FS_Subset
  <2>2. PICK t : matches = {t}
    BY <1>1, <2>1, FS_Singleton
  <2>3. (CHOOSE u \in matches : TRUE) = t
    BY <2>2
  <2>4. future # {} => t > after
    BY <2>2
  <2> QED BY <1>1, <2>2, <2>3, <2>4 DEF OccurrenceOnDate
<1>2. CASE Cardinality(matches) # 1
  BY <1>2 DEF OccurrenceOnDate
<1> QED BY <1>1, <1>2

\* Whatever the search returns, it is of the right kind and lies ahead.
LEMMA FoundLiesAhead ==
    ASSUME NEW rule \in Rules, NEW start \in Instants, NEW after \in Instants
    PROVE  LET found == NextOccurrence[rule][start][after]
           IN  \/ found \in {Nil, Invalid}
               \/ found \in Instants /\ found > after
<1>1. CASE rule = "ONCE"
  BY <1>1 DEF NextOccurrence
<1>2. CASE rule # "ONCE"
  <2>1. NextOccurrence[rule][start][after] = FirstFutureOccurrence(rule, start, after)
    BY <1>2 DEF NextOccurrence
  <2>2. \A date, wall : WallTimeMatches(date, wall) \subseteq Instants
    BY DEF WallTimeMatches
  <2>3. \A date, wall :
           LET found == OccurrenceOnDate(date, wall, after)
           IN  found \in {Nil, Invalid} \/ (found \in Instants /\ found > after)
    BY <2>2, OccurrenceOnDateType
  <2> QED BY <2>1, <2>3 DEF FirstFutureOccurrence
<1> QED BY <1>1, <1>2

\* The first date searched is never before the day of "after", and less than a period
\* behind it, unless it is start's.
LEMMA FirstDate ==
    ASSUME NEW rule \in Rules, NEW start \in Instants, NEW after \in Instants
    PROVE  /\ FirstStep(rule, start, after) \in Nat
           /\ CivilDate(Local(start)) + FirstStep(rule, start, after) * RecurrencePeriod(rule)
                >= CivilDate(Local(after))
           /\ \/ FirstStep(rule, start, after) = 0
              \/ CivilDate(Local(start)) + FirstStep(rule, start, after) * RecurrencePeriod(rule)
                   < CivilDate(Local(after)) + RecurrencePeriod(rule)
<1> DEFINE from   == CivilDate(Local(start))
           to     == CivilDate(Local(after))
           days   == to - from
           period == RecurrencePeriod(rule)
<1>1. from \in Int /\ to \in Int
  BY LocalType
<1>2. CASE period = 1
  BY <1>1, <1>2 DEF FirstStep
<1>3. CASE period = 7
  BY <1>1, <1>3 DEF FirstStep
<1>4. period \in {1, 7}
  BY DEF RecurrencePeriod
<1> QED BY <1>2, <1>3, <1>4

\* Two days after the day of "after", a date is decided: it cannot lie in the past.
LEMMA LaterDateDecides ==
    ASSUME NEW date \in Int, NEW wall \in 0..(DayLength - 1), NEW after \in Instants,
           date >= CivilDate(Local(after)) + 2
    PROVE  OccurrenceOnDate(date, wall, after) # Nil
<1> DEFINE matches == WallTimeMatches(date, wall)
           today   == CivilDate(Local(after))
<1>0. DayLength \in Nat \ {0} /\ Local(after) \in Int
  BY CalendarAssumption, LocalType
<1>1. today \in Int /\ Local(after) < today * DayLength + DayLength
  <2>1. /\ Local(after) = DayLength * today + (Local(after) % DayLength)
        /\ Local(after) % DayLength \in 0..(DayLength - 1)
    BY <1>0, DivMod DEF CivilDate
  <2>2. today \in Int
    BY LocalType
  <2>3. DayLength * today = today * DayLength /\ today * DayLength \in Int
    BY <1>0, <2>2
  <2> QED BY <1>0, <2>1, <2>2, <2>3
<1>2. ASSUME NEW t \in matches PROVE t > after
  <2>1. t \in Instants /\ Local(t) = date * DayLength + wall
    BY DEF WallTimeMatches
  <2>2. date * DayLength >= today * DayLength + DayLength + DayLength
    <3>1. date * DayLength = (today + 2) * DayLength + (date - today - 2) * DayLength
      BY <1>0, <1>1
    <3>2. (date - today - 2) * DayLength >= 0
      BY <1>0, <1>1
    <3>3. (today + 2) * DayLength = today * DayLength + DayLength + DayLength
      BY <1>0, <1>1
    <3> QED BY <1>0, <1>1, <3>1, <3>2, <3>3
  <2>3. Local(t) - Local(after) > DayLength
    BY <1>0, <1>1, <2>1, <2>2
  <2>4. Offset[t] - Offset[after] <= DayLength /\ Offset[t] \in Int /\ Offset[after] \in Int
    BY <2>1, CalendarAssumption
  <2>5. Local(t) = t + Offset[t] /\ Local(after) = after + Offset[after]
    BY <2>1, LocalType
  <2>6. t \in Int /\ after \in Int /\ DayLength \in Int
    BY <1>0, <2>1, LocalType
  <2> QED BY <2>3, <2>4, <2>5, <2>6
<1>3. date # today
  BY <1>1
<1>4. CASE matches = {}
  BY <1>3, <1>4, FS_EmptySet, CalendarAssumption DEF OccurrenceOnDate
<1>5. CASE matches # {}
  <2>1. { t \in matches : t > after } # {}
    BY <1>2, <1>5
  <2>2. \A t \in matches : t # Nil
    BY CalendarAssumption DEF WallTimeMatches, Instants
  <2>3. (CHOOSE t \in matches : TRUE) \in matches
    BY <1>5
  <2> QED BY <1>5, <2>1, <2>2, <2>3, CalendarAssumption DEF OccurrenceOnDate
<1> QED BY <1>4, <1>5

\* The search of a recurring schedule ends within three dates, in any zone whose
\* clocks never differ by more than a day: firstFutureOccurrence's loop terminates.
THEOREM SearchEnds ==
    ASSUME NEW rule \in {"DAILY", "WEEKLY"}, NEW start \in Instants, NEW after \in Instants
    PROVE  NextOccurrence[rule][start][after] # Nil
<1> DEFINE from   == CivilDate(Local(start))
           wall   == WallClock(Local(start))
           today  == CivilDate(Local(after))
           period == RecurrencePeriod(rule)
           first  == FirstStep(rule, start, after)
<1>1. from \in Int /\ today \in Int /\ wall \in 0..(DayLength - 1)
  BY LocalType
<1>2. first \in Nat /\ from + first * period >= today
  BY FirstDate DEF Rules
<1>3. period \in {1, 7}
  BY DEF RecurrencePeriod
<1>4. from + (first + 2) * period \in Int /\ from + (first + 2) * period >= today + 2
  BY <1>1, <1>2, <1>3
<1>5. OccurrenceOnDate(from + (first + 2) * period, wall, after) # Nil
  BY <1>1, <1>4, LaterDateDecides
<1>6. NextOccurrence[rule][start][after] = FirstFutureOccurrence(rule, start, after)
  BY DEF NextOccurrence, Rules
<1> QED BY <1>5, <1>6 DEF FirstFutureOccurrence

\* The date and the wall clock an instant was matched by are those it shows.
LEMMA MatchShows ==
    ASSUME NEW date \in Int, NEW wall \in 0..(DayLength - 1), NEW t \in WallTimeMatches(date, wall)
    PROVE  CivilDate(Local(t)) = date /\ WallClock(Local(t)) = wall /\ t \in Instants
<1> DEFINE shown == CivilDate(Local(t))
           clock == WallClock(Local(t))
<1>1. t \in Instants /\ Local(t) = date * DayLength + wall
  BY DEF WallTimeMatches
<1>2. shown \in Int /\ clock \in 0..(DayLength - 1) /\ DayLength \in Nat \ {0}
  BY <1>1, LocalType, CalendarAssumption
<1>3. Local(t) = DayLength * shown + clock
  BY <1>1, <1>2, LocalType, DivMod DEF CivilDate, WallClock
<1> HIDE DEF shown, clock
<1>4. DayLength * (shown - date) = wall - clock
  BY <1>1, <1>2, <1>3
<1>5. CASE shown >= date + 1
  <2>1. DayLength * (shown - date) >= DayLength
    BY <1>2, <1>5
  <2> QED BY <1>2, <1>4, <2>1
<1>6. CASE shown <= date - 1
  <2>1. DayLength * (date - shown) >= DayLength
    BY <1>2, <1>6
  <2>2. DayLength * (shown - date) = 0 - DayLength * (date - shown)
    BY <1>2
  <2>3. DayLength * (date - shown) \in Int
    BY <1>2
  <2> QED BY <1>2, <1>4, <2>1, <2>2, <2>3
<1>7. CASE shown = date
  <2>1. wall = clock
    BY <1>2, <1>4, <1>7
  <2> QED BY <1>1, <1>7, <2>1 DEF shown, clock
<1> QED BY <1>2, <1>5, <1>6, <1>7

\* What a date contributes: nothing if no match of it lies ahead, its one match if that
\* lies ahead, and an error otherwise.
LEMMA OnDate ==
    ASSUME NEW date, NEW wall, NEW after
    PROVE  LET found   == OccurrenceOnDate(date, wall, after)
               matches == WallTimeMatches(date, wall)
           IN  \/ found = Nil /\ \A t \in matches : ~ (t > after)
               \/ found \in matches /\ matches = {found} /\ found > after
               \/ /\ found = Invalid /\ Cardinality(matches) # 1
                  /\ \/ \E t \in matches : t > after
                     \/ Cardinality(matches) > 2
                     \/ matches = {} /\ ~ ( /\ date = CivilDate(Local(after))
                                            /\ WallClock(Local(after)) >= wall )
<1> DEFINE matches == WallTimeMatches(date, wall)
           future  == { t \in matches : t > after }
<1>1. IsFiniteSet(matches) /\ Cardinality(matches) \in Nat
  <2>1. IsFiniteSet(Instants)
    BY FS_Interval, CalendarAssumption DEF Instants
  <2>2. matches \in SUBSET Instants
    BY DEF WallTimeMatches
  <2> QED BY <2>1, <2>2, FS_Subset, FS_CardinalityType
<1>2. CASE Cardinality(matches) = 1
  <2>1. PICK t : matches = {t}
    BY <1>1, <1>2, FS_Singleton
  <2>2. (CHOOSE u \in matches : TRUE) = t
    BY <2>1
  <2>3. CASE t > after
    <3>1. future # {} /\ matches # {}
      BY <2>1, <2>3
    <3>2. OccurrenceOnDate(date, wall, after) = t
      BY <1>2, <2>2, <3>1 DEF OccurrenceOnDate
    <3> QED BY <2>1, <2>3, <3>2
  <2>4. CASE ~ (t > after)
    <3>1. future = {} /\ matches # {}
      BY <2>1, <2>4
    <3>2. OccurrenceOnDate(date, wall, after) = Nil
      BY <1>2, <3>1 DEF OccurrenceOnDate
    <3> QED BY <2>1, <2>4, <3>2
  <2> QED BY <2>3, <2>4
<1>3. CASE matches = {}
  BY <1>3, FS_EmptySet DEF OccurrenceOnDate
<1>4. CASE matches # {} /\ Cardinality(matches) # 1
  <2>1. CASE future = {} /\ Cardinality(matches) <= 2
    BY <1>4, <2>1 DEF OccurrenceOnDate
  <2>2. CASE ~ (future = {} /\ Cardinality(matches) <= 2)
    <3>1. OccurrenceOnDate(date, wall, after) = Invalid
      BY <1>4, <2>2 DEF OccurrenceOnDate
    <3>2. (\E t \in matches : t > after) \/ Cardinality(matches) > 2
      BY <1>1, <2>2
    <3> QED BY <1>4, <3>1, <3>2
  <2> QED BY <2>1, <2>2
<1> QED BY <1>2, <1>3, <1>4

\* No zone is set back by more than a day, so a later date is never shown first.
LEMMA LaterDateLater ==
    ASSUME NEW t \in Instants, NEW u \in Instants, NEW d \in Int, NEW e \in Int, NEW wall \in Int,
           Local(t) = d * DayLength + wall, Local(u) = e * DayLength + wall, e > d
    PROVE  u >= t
<1>1. DayLength \in Nat \ {0} /\ Offset[u] - Offset[t] <= DayLength
  BY CalendarAssumption
<1>2. /\ t \in Int /\ u \in Int /\ Offset[t] \in Int /\ Offset[u] \in Int
      /\ Local(t) = t + Offset[t] /\ Local(u) = u + Offset[u]
  BY LocalType
<1>3. e * DayLength >= d * DayLength + DayLength
  <2>1. e * DayLength = d * DayLength + (e - d) * DayLength
    BY <1>1
  <2>2. (e - d) * DayLength >= DayLength
    BY <1>1
  <2> QED BY <1>1, <2>1, <2>2
<1>4. d * DayLength \in Int /\ e * DayLength \in Int
  BY <1>1
<1> QED BY <1>1, <1>2, <1>3, <1>4

\* The named dates from "after"'s on are the dates of the steps from FirstStep on.
LEMMA NamedDates ==
    ASSUME NEW rule \in Rules, NEW start \in Instants, NEW after \in Instants
    PROVE  /\ \A step \in Nat :
                 IsNamed(rule, start, CivilDate(Local(start)) + step * RecurrencePeriod(rule))
           /\ \A date \in Int :
                 IsNamed(rule, start, date) /\ date >= CivilDate(Local(after)) =>
                    \E step \in Nat :
                       /\ step >= FirstStep(rule, start, after)
                       /\ date = CivilDate(Local(start)) + step * RecurrencePeriod(rule)
<1> DEFINE from   == CivilDate(Local(start))
           to     == CivilDate(Local(after))
           period == RecurrencePeriod(rule)
           days   == to - from
<1>1. from \in Int /\ to \in Int
  BY LocalType
<1>2. period \in {1, 7}
  BY DEF RecurrencePeriod
<1>3. ASSUME NEW step \in Nat PROVE IsNamed(rule, start, from + step * period)
  BY <1>1, <1>2 DEF IsNamed
<1>4. ASSUME NEW date \in Int, IsNamed(rule, start, date), date >= to
      PROVE  \E step \in Nat : step >= FirstStep(rule, start, after) /\ date = from + step * period
  <2> DEFINE past == date - from
  <2>1. past >= 0 /\ past % period = 0 /\ past \in Int /\ past >= days /\ days \in Int
    BY <1>1, <1>4 DEF IsNamed
  <2>2. FirstStep(rule, start, after) = IF days > 0 THEN (days + period - 1) \div period ELSE 0
    BY DEF FirstStep
  <2>3. CASE period = 1
    <3>1. past \in Nat /\ past >= FirstStep(rule, start, after) /\ date = from + past * period
      BY <1>1, <2>1, <2>2, <2>3
    <3> QED BY <3>1
  <2>4. CASE period = 7
    <3>1. /\ past \div 7 \in Nat /\ past \div 7 >= FirstStep(rule, start, after)
          /\ date = from + (past \div 7) * 7
      BY <1>1, <2>1, <2>2, <2>4
    <3> QED BY <2>4, <3>1
  <2> QED BY <1>2, <2>3, <2>4
<1> QED BY <1>3, <1>4

\* What the search may answer.
IsNext(rule, start, after, found) ==
    /\ found \in Occurrences(rule, start) /\ IsUnique(start, found) /\ found > after
    /\ \A t \in Occurrences(rule, start) :
          t > after /\ CivilDate(Local(t)) >= CivilDate(Local(after)) => t >= found

\* The search gives up less than three periods behind today, or start's date.
IsGivenUp(rule, start, after, date) ==
    /\ IsBlocked(rule, start, after, date)
    /\ \/ date < CivilDate(Local(after)) + 3 * RecurrencePeriod(rule)
       \/ date < CivilDate(Local(start)) + 3 * RecurrencePeriod(rule)
    /\ \A t \in Occurrences(rule, start) :
          t > after /\ CivilDate(Local(t)) >= CivilDate(Local(after)) => CivilDate(Local(t)) >= date

\* A step that is decided, after steps that were passed, decides the search.
LEMMA StepDecides ==
    ASSUME NEW rule \in {"DAILY", "WEEKLY"}, NEW start \in Instants, NEW after \in Instants,
           NEW step \in Nat, step >= FirstStep(rule, start, after),
           step <= FirstStep(rule, start, after) + 2,
           NEW found,
           found = OccurrenceOnDate(CivilDate(Local(start)) + step * RecurrencePeriod(rule),
                                    WallClock(Local(start)), after),
           found # Nil,
           \A k \in Nat : FirstStep(rule, start, after) <= k /\ k < step =>
              OccurrenceOnDate(CivilDate(Local(start)) + k * RecurrencePeriod(rule),
                               WallClock(Local(start)), after) = Nil
    PROVE  \/ IsNext(rule, start, after, found)
           \/ found = Invalid /\ \E date \in Int : IsGivenUp(rule, start, after, date)
<1> DEFINE from   == CivilDate(Local(start))
           wall   == WallClock(Local(start))
           today  == CivilDate(Local(after))
           period == RecurrencePeriod(rule)
           first  == FirstStep(rule, start, after)
           Day(k) == from + k * period
           date   == Day(step)
<1>1. /\ from \in Int /\ today \in Int /\ wall \in 0..(DayLength - 1) /\ wall \in Int
      /\ WallClock(Local(after)) \in Int /\ DayLength \in Nat \ {0}
  BY LocalType, CalendarAssumption
<1>2. period \in {1, 7} /\ rule \in Rules
  BY DEF RecurrencePeriod, Rules
<1>3. \A k \in Nat : Day(k) \in Int
  BY <1>1, <1>2
<1>4. first \in Nat /\ date >= today /\ date \in Int
  <2>1. first \in Nat /\ Day(first) >= today
    BY <1>2, FirstDate
  <2>2. Day(step) >= Day(first)
    BY <1>1, <1>2, <2>1
  <2> QED BY <1>1, <1>3, <2>1, <2>2
<1>4a. date < today + 3 * period \/ date < from + 3 * period
  <2>1. first = 0 \/ Day(first) < today + period
    BY <1>2, FirstDate
  <2>2. Day(step) <= Day(first) + 2 * period
    BY <1>1, <1>2, <1>4
  <2> QED BY <1>1, <1>2, <1>3, <1>4, <2>1, <2>2
<1>5. IsNamed(rule, start, date)
  BY <1>2, NamedDates
\* An occurrence ahead is on the date of this step or of a later one.
<1>6. ASSUME NEW t \in Occurrences(rule, start), t > after, CivilDate(Local(t)) >= today
      PROVE  /\ t \in Instants /\ Local(t) = CivilDate(Local(t)) * DayLength + wall
             /\ CivilDate(Local(t)) \in Int /\ CivilDate(Local(t)) >= date
  <2>1. /\ t \in Instants /\ IsNamed(rule, start, CivilDate(Local(t)))
        /\ t \in WallTimeMatches(CivilDate(Local(t)), wall)
    BY DEF Occurrences, Showing
  <2>2. CivilDate(Local(t)) \in Int /\ Local(t) = CivilDate(Local(t)) * DayLength + wall
    BY <2>1, LocalType DEF WallTimeMatches
  <2>3. PICK k \in Nat : k >= first /\ CivilDate(Local(t)) = Day(k)
    BY <1>2, <1>6, <2>1, <2>2, NamedDates
  <2>4. CASE k < step
    <3>1. OccurrenceOnDate(Day(k), wall, after) = Nil
      BY <2>3, <2>4
    <3>2. \A u \in WallTimeMatches(Day(k), wall) : u \in Instants /\ u # Invalid /\ u # Nil
      BY CalendarAssumption DEF WallTimeMatches, Instants
    <3>3. ~ (t > after)
      BY <2>1, <2>3, <3>1, <3>2, OnDate, CalendarAssumption
    <3> QED BY <1>6, <3>3
  <2>5. CASE k >= step
    BY <1>1, <1>2, <2>1, <2>2, <2>3, <2>5
  <2> QED BY <2>3, <2>4, <2>5
<1> HIDE DEF from, wall, today, period, first, Day, date
<1>7. CASE found \in WallTimeMatches(date, wall)
  <2>1. WallTimeMatches(date, wall) = {found} /\ found > after
    <3>1. found # Invalid
      BY <1>7, CalendarAssumption DEF WallTimeMatches, Instants
    <3> QED BY <3>1, OnDate DEF date, Day, wall, from, period
  <2>2. found \in Instants /\ CivilDate(Local(found)) = date /\ Local(found) = date * DayLength + wall
    BY <1>1, <1>4, <1>7, MatchShows DEF WallTimeMatches
  <2>3. found \in Occurrences(rule, start) /\ IsUnique(start, found)
    BY <1>5, <1>7, <2>1, <2>2 DEF Occurrences, IsUnique, Showing, wall
  <2>4. ASSUME NEW t \in Occurrences(rule, start), t > after, CivilDate(Local(t)) >= today
        PROVE  t >= found
    <3>1. /\ t \in Instants /\ Local(t) = CivilDate(Local(t)) * DayLength + wall
          /\ CivilDate(Local(t)) \in Int /\ CivilDate(Local(t)) >= date
      BY <1>6, <2>4
    <3>2. CASE CivilDate(Local(t)) = date
      <4>1. t \in WallTimeMatches(date, wall)
        BY <3>1, <3>2 DEF WallTimeMatches
      <4> QED BY <2>1, <2>2, <4>1, LocalType
    <3>3. CASE CivilDate(Local(t)) > date
      BY <1>1, <1>4, <2>2, <3>1, <3>3, LaterDateLater
    <3> QED BY <1>4, <3>1, <3>2, <3>3
  <2> QED BY <2>1, <2>3, <2>4 DEF IsNext, today
<1>8. CASE found \notin WallTimeMatches(date, wall)
  <2>1. /\ found = Invalid /\ Cardinality(WallTimeMatches(date, wall)) # 1
        /\ \/ \E t \in WallTimeMatches(date, wall) : t > after
           \/ Cardinality(WallTimeMatches(date, wall)) > 2
           \/ ~ (date = today /\ WallClock(Local(after)) >= wall)
    BY <1>8, OnDate DEF date, Day, wall, from, period, today
  <2>2. IsBlocked(rule, start, after, date)
    BY <1>1, <1>4, <1>5, <2>1 DEF IsBlocked, Showing, wall, today
  <2>3. IsGivenUp(rule, start, after, date)
    BY <1>6, <1>4a, <2>2 DEF IsGivenUp, today, from, period
  <2> QED BY <1>4, <2>1, <2>3
<1> QED BY <1>7, <1>8

\* The search is right in any zone whose clocks never differ by more than a day: it
\* returns the first instant ahead, on a date not before today's, that shows start's
\* time on a named date and is the only one to show it; or it gives up at a date whose
\* time is missing or exists twice, with no occurrence ahead of it that it passed over,
\* and does so within three periods.
THEOREM SearchFindsTheNextOne ==
    ASSUME NEW rule \in {"DAILY", "WEEKLY"}, NEW start \in Instants, NEW after \in Instants
    PROVE  LET found == NextOccurrence[rule][start][after]
           IN  \/ IsNext(rule, start, after, found)
               \/ found = Invalid /\ \E date \in Int : IsGivenUp(rule, start, after, date)
<1> DEFINE On(k) == OccurrenceOnDate(CivilDate(Local(start)) + k * RecurrencePeriod(rule),
                                     WallClock(Local(start)), after)
           first == FirstStep(rule, start, after)
           found == NextOccurrence[rule][start][after]
<1>1. first \in Nat
  BY FirstDate DEF Rules
<1>2. found = IF On(first) # Nil THEN On(first)
              ELSE IF On(first + 1) # Nil THEN On(first + 1) ELSE On(first + 2)
  BY DEF NextOccurrence, FirstFutureOccurrence, Rules
<1>3. PICK step \in Nat : /\ step \in first..(first + 2) /\ found = On(step)
                          /\ \A k \in Nat : first <= k /\ k < step => On(k) = Nil
  <2> HIDE DEF On, first, found
  <2>1. CASE On(first) # Nil
    BY <1>1, <1>2, <2>1
  <2>2. CASE On(first) = Nil /\ On(first + 1) # Nil
    <3>1. \A k \in Nat : first <= k /\ k < first + 1 => k = first
      BY <1>1
    <3> QED BY <1>1, <1>2, <2>2, <3>1
  <2>3. CASE On(first) = Nil /\ On(first + 1) = Nil
    <3>1. \A k \in Nat : first <= k /\ k < first + 2 => k = first \/ k = first + 1
      BY <1>1
    <3> QED BY <1>1, <1>2, <2>3, <3>1
  <2> QED BY <2>1, <2>2, <2>3
<1>4. found # Nil
  BY SearchEnds
<1> QED BY <1>3, <1>4, StepDecides
================================================================================
