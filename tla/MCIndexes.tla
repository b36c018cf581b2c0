------------------------------ MODULE MCIndexes ------------------------------
(* The two indexes in Redis, for TLC: it picks one and explores all that the
   schedulers and requests do to it.                                        *)
EXTENDS DueIndex, TLC

CONSTANTS Processes, Ids, Times, MaxEdits, MaxFaultsOfReminders    \* of ReminderIndex

VARIABLES
    part,
    now, rowOfReminder, scores, dirty, distrusted, allowed, scheduler, urgent, claimed,
    idsIndexed, idsListed, disturbed, writes, edits, faultsOfReminders

Ri == INSTANCE ReminderIndex WITH
        row <- rowOfReminder, index <- scores, degraded <- distrusted, fallback <- allowed,
        loop <- scheduler, batch <- claimed, indexed <- idsIndexed, listed <- idsListed,
        faults <- faultsOfReminders, MaxFaults <- MaxFaultsOfReminders

ASSUME ReminderBounds == Ri!IndexAssumption

ofRi == <<now, rowOfReminder, scores, dirty, distrusted, allowed, scheduler, urgent, claimed,
          idsIndexed, idsListed, disturbed, writes, edits, faultsOfReminders>>

\* An index that was not picked: nothing fairness speaks of is enabled.
Off ==
    /\ row = [ r \in Rows |-> "absent" ] /\ leased = {} /\ active = FALSE
    /\ index = {} /\ moved = FALSE /\ inFlight = 0 /\ degraded = FALSE
    /\ at = [ m \in Mutators |-> "idle" ] /\ todo = [ m \in Mutators |-> <<>> ]
    /\ failed = [ m \in Mutators |-> FALSE ]
    /\ loop = "off" /\ batch = Nil /\ indexed = {} /\ listed = {}
    /\ fallback = TRUE /\ faults = 0

OffRi ==
    /\ now = Cardinality(Times) /\ rowOfReminder = [ id \in Ids |-> [ status |-> "absent" ] ]
    /\ scores = {} /\ dirty = FALSE /\ distrusted = FALSE
    /\ allowed = [ p \in Processes |-> TRUE ] /\ scheduler = [ p \in Processes |-> "off" ]
    /\ urgent = FALSE /\ claimed = Nil /\ idsIndexed = {} /\ idsListed = {} /\ disturbed = FALSE
    /\ writes = [ q \in Requests |-> Nil ] /\ edits = 0 /\ faultsOfReminders = 0

PartsInit ==
    \/ part = "messages" /\ Init /\ OffRi
    \/ part = "reminders" /\ Off /\ Ri!Init

PartsNext ==
    \/ part = "messages" /\ Next /\ UNCHANGED <<part, ofRi>>
    \/ part = "reminders" /\ Ri!Next /\ UNCHANGED <<part, vars>>

PartsSpec ==
    PartsInit /\ [][PartsNext]_<<part, vars, ofRi>> /\ Fairness /\ Ri!Fairness

-----------------------------------------------------------------------------

TypesOK ==
    /\ part = "messages" => TypeOK
    /\ part = "reminders" => Ri!TypeOK

QuietReconciliationIsExact == Ri!QuietReconciliationIsExact
OverdueIsDealtWith == Ri!OverdueIsDealtWith
=============================================================================
