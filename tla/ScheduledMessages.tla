-------------------------- MODULE ScheduledMessages --------------------------
(***************************************************************************)
(* One scheduled message and its delivery rows, as                         *)
(*   src/internal/services/scheduledmessage/{service,scheduler}.go         *)
(*   src/internal/repositories/scheduledmessage/*.go                       *)
(* create, edit, cancel, claim, generate, dispatch, retry and finish it.   *)
(*                                                                         *)
(* Both tables are keyed by schedule, so one schedule is the whole story:  *)
(* no transaction of this code touches the rows of two.  A delivery row is *)
(* named by its scheduled_at, which the table keeps unique per schedule.   *)
(*                                                                         *)
(* A step is one database transaction, one plain read, or one end of an    *)
(* external call.  Between two steps of a worker or an editor everything   *)
(* else may happen.  The row locks a dispatch holds across its call to the *)
(* WhatsApp bridge are the states "sending" and "accepted" of a worker.    *)
(***************************************************************************)
EXTENDS Recurrence

CONSTANTS
    Schedulers,         \* server processes; each works on one claim of the schedule at a time
    Editors,            \* concurrent update requests
    StartTimes,         \* start_at values a user asks for
    InitialRules,       \* recurrences the schedule may be created with
    EditRules,          \* recurrences an update may ask for
    InitialModes,       \* content modes it may be created with, of "FIXED" and "AI"
    EditModes,          \* content modes an update may ask for
    HasGenerator,       \* is an AI generator configured
    MaxGenerations,     \* GenerationMaxRetries + 1
    MaxDeliveries,      \* DeliveryMaxRetries + 1
    Lease, GeneratorTimeout, BridgeTimeout, GenerationBackoff, DeliveryBackoff,
    Prompt,             \* do the scheduler's own steps keep up with the clock
    TickLag,            \* how far the tick RunOnce is called with may lag the clock
    DecidedBy,          \* occurrences up to here have time to be decided before MaxTime
    MaxTime, MaxFaults, MaxEdits     \* bounds of the model

\* validateLeaseAndBatch: a lease outlives both calls a worker makes under it.
ValidLease == Lease > GeneratorTimeout + BridgeTimeout

ASSUME ConfigAssumption ==
    /\ MaxGenerations \in Nat \ {0} /\ MaxDeliveries \in Nat \ {0}
    /\ GeneratorTimeout \in Nat \ {0} /\ BridgeTimeout \in Nat \ {0}
    /\ Lease \in Nat /\ ValidLease
    /\ GenerationBackoff \in Nat /\ DeliveryBackoff \in Nat
    /\ Prompt \in BOOLEAN /\ TickLag \in Nat /\ MaxFaults \in Nat /\ MaxEdits \in Nat
    /\ MaxTime \in Instants /\ DecidedBy \in Nat /\ StartTimes \subseteq Instants
    /\ InitialRules \subseteq Rules /\ EditRules \subseteq Rules
    /\ InitialModes \union EditModes \subseteq {"FIXED", "AI"} /\ HasGenerator \in BOOLEAN
    /\ Nil \notin Schedulers

VARIABLES
    now,            \* the clock every process and the database read
    spaceActive,    \* the space is ACTIVE and not deleted
    targetValid,    \* creator may create, recipient or group can be reached
    schedule,       \* the row of scheduled_messages
    deliveries,     \* the rows of scheduled_message_deliveries, by scheduled_at
    accepted,       \* how many texts the bridge has accepted per occurrence
    pc,             \* where each scheduler's worker stands
    job,            \* what that worker holds in memory
    edit,           \* what each editor has computed and not yet written
    faults, edits   \* events used up so far, of MaxFaults and MaxEdits

vars == <<now, spaceActive, targetValid, schedule, deliveries, accepted,
          pc, job, edit, faults, edits>>

ScheduleStatuses == {"ACTIVE", "SENT", "FAILED", "CANCELLED", "UNSUBSCRIBED"}
DeliveryStatuses == {"PENDING", "SENT", "SKIPPED", "FAILED", "CANCELLED"}
Texts == {"content", "generated"}

Schedule ==
    [ status : ScheduleStatuses, recurrence : Rules, startAt : Instants,
      nextAt : Instants \union {Nil}, mode : {"FIXED", "AI"} ]

Delivery ==
    [ status : DeliveryStatuses \union {"ABSENT"}, snapshot : Texts \union {Nil},
      generations : 0..MaxGenerations, attempts : 0..MaxDeliveries,
      nextAttempt : Nat \union {Nil},
      token : Schedulers \union {Nil}, until : Nat \union {Nil} ]

NoDelivery ==
    [ status |-> "ABSENT", snapshot |-> Nil, generations |-> 0, attempts |-> 0,
      nextAttempt |-> Nil, token |-> Nil, until |-> Nil ]

\* A fixed text is copied into its row; an AI text is generated when it is due.
Snapshot(mode) == IF mode = "FIXED" THEN "content" ELSE Nil

NewDelivery(at, mode) ==
    [ NoDelivery EXCEPT !.status = "PENDING", !.snapshot = Snapshot(mode), !.nextAttempt = at ]

ReleaseLease(d) == [ d EXCEPT !.token = Nil, !.until = Nil ]

Pending(t) == deliveries[t].status = "PENDING"

-----------------------------------------------------------------------------
(* Locks.  A worker inside DispatchAndFinalize holds FOR UPDATE locks on the
   schedule and the delivery, and FOR SHARE locks on the space and on every
   row the target depends on, until its transaction ends.                  *)

Locking == {"sending", "accepted"}

\* Seeded fault: dispatch reads the schedule without locking it.
UnlockedAlways == TRUE

Unlocked == \A w \in Schedulers : pc[w] \notin Locking

\* lockScheduleByID, lockSchedule
ScheduleOpen == schedule.status = "ACTIVE" /\ spaceActive

\* The claim is still the worker's at time t: findClaimed, lockDeliveryByID.
OwnsClaim(w, t) ==
    LET d == deliveries[job[w].id]
    IN  d.status = "PENDING" /\ d.token = w /\ d.until > t

\* lockDelivery also compares the lease end the worker read.
OwnsLease(w) ==
    OwnsClaim(w, now) /\ deliveries[job[w].id].until = job[w].delivery.until

\* Seeded fault: a lease that merely has not expired is taken for long enough.
LeaseCoversNow(w, duration) == job[w].delivery.until > now

LeaseCovers(w, duration) == job[w].delivery.until > now + duration

\* A worker returns; whatever lease its row has stays.
Return(w) == pc' = [pc EXCEPT ![w] = "idle"] /\ job' = [job EXCEPT ![w] = Nil]

Goto(w, place) == pc' = [pc EXCEPT ![w] = place]

Environment == <<now, spaceActive, targetValid>>
Tables == <<schedule, deliveries>>

-----------------------------------------------------------------------------
(* Claiming *)

\* Seeded fault: a claim that was never released is never taken over.
DueUnclaimed(t, tick) ==
    /\ Pending(t)
    /\ deliveries[t].nextAttempt <= tick
    /\ deliveries[t].token = Nil

Due(t, tick) ==
    /\ Pending(t)
    /\ deliveries[t].nextAttempt <= tick
    /\ deliveries[t].token # Nil => deliveries[t].until <= tick

\* ClaimDue, called with the tick that woke RunOnce: a tick that waited in the
\* ticker's channel while the last batch ran is in the past.
ClaimDue(w) ==
    /\ pc[w] = "idle" /\ Unlocked /\ ScheduleOpen
    /\ \E tick \in Instants, t \in Instants :
          /\ tick <= now /\ now <= tick + TickLag
          /\ Due(t, tick)
          /\ LET claimed == [ deliveries[t] EXCEPT !.token = w, !.until = tick + Lease ]
             IN  /\ deliveries' = [deliveries EXCEPT ![t] = claimed]
                 /\ job' = [job EXCEPT ![w] =
                       [ id |-> t, delivery |-> claimed, schedule |-> Nil, at |-> 0 ]]
    /\ Goto(w, "claimed")
    /\ UNCHANGED <<Environment, schedule, accepted, edit, faults, edits>>

\* LoadClaimed: four plain reads, no lock.
Loaded(w) == [ job[w] EXCEPT !.delivery = deliveries[job[w].id], !.schedule = schedule ]

\* contentForDelivery: an existing snapshot is reused; AI content is generated
\* once, and a missing generator ends the occurrence.
AfterLoad(w) ==
    IF deliveries[job[w].id].snapshot # Nil \/ schedule.mode = "FIXED" THEN "reserving"
    ELSE IF HasGenerator THEN "preparing" ELSE "generationFailed"

LoadClaimed(w) ==
    /\ pc[w] = "claimed"
    /\ IF OwnsClaim(w, now) /\ schedule.status = "ACTIVE"
       THEN /\ job' = [job EXCEPT ![w] = Loaded(w)]
            /\ Goto(w, IF spaceActive /\ targetValid THEN AfterLoad(w) ELSE "targetInvalid")
       ELSE Return(w)
    /\ UNCHANGED <<Environment, Tables, accepted, edit, faults, edits>>

-----------------------------------------------------------------------------
(* Generating the text of an AI message *)

\* Seeded fault: the budget check of a reservation is off by one.
ExhaustedTooLate(spent, budget) == spent > budget

\* reserveAttempt
Exhausted(spent, budget) == spent >= budget

\* Seeded fault: the last attempt of the budget is given away.
MayRetryTooFew(spent, budget) == spent + 1 < budget

\* retryOrFinish
MayRetry(spent, budget) == spent < budget

\* ReserveGenerationAttempt, then leaseCovers: an attempt is spent even when
\* what is left of the lease is too short to call the generator.
PrepareGeneration(w) ==
    /\ pc[w] = "preparing" /\ Unlocked
    /\ LET t == job[w].id
           spent == job[w].delivery.generations + 1
       IN  IF ~(ScheduleOpen /\ OwnsLease(w))
           THEN Return(w) /\ UNCHANGED deliveries
           ELSE IF Exhausted(deliveries[t].generations, MaxGenerations)
           THEN Goto(w, "generationFailed") /\ UNCHANGED <<deliveries, job>>
           ELSE /\ deliveries' = [deliveries EXCEPT ![t].generations = @ + 1]
                /\ IF LeaseCovers(w, GeneratorTimeout)
                   THEN /\ Goto(w, "generating")
                        /\ job' = [job EXCEPT ![w].delivery.generations = spent, ![w].at = now]
                   ELSE Return(w)
    /\ UNCHANGED <<Environment, schedule, accepted, edit, faults, edits>>

GeneratorAnswers(w) ==
    /\ pc[w] = "generating"
    /\ Goto(w, "generated")
    /\ job' = [job EXCEPT ![w].at = 0]
    /\ UNCHANGED <<Environment, Tables, accepted, edit, faults, edits>>

GeneratorFails(w) ==
    /\ pc[w] = "generating"
    /\ Goto(w, IF MayRetry(job[w].delivery.generations, MaxGenerations)
               THEN "generationRetry" ELSE "generationFailed")
    /\ job' = [job EXCEPT ![w].at = 0]
    /\ UNCHANGED <<Environment, Tables, accepted, edit, faults, edits>>

\* persistGeneratedContent reads the claim again before it writes.
ReloadClaimed(w) ==
    /\ pc[w] = "generated"
    /\ IF OwnsClaim(w, now) /\ schedule.status = "ACTIVE"
       THEN /\ job' = [job EXCEPT ![w] = Loaded(w)]
            /\ Goto(w, IF spaceActive /\ targetValid THEN "persisting" ELSE "targetInvalid")
       ELSE Return(w)
    /\ UNCHANGED <<Environment, Tables, accepted, edit, faults, edits>>

PersistGeneratedContent(w) ==
    /\ pc[w] = "persisting" /\ Unlocked
    /\ IF ScheduleOpen /\ OwnsLease(w)
       THEN /\ deliveries' = [deliveries EXCEPT ![job[w].id].snapshot = "generated"]
            /\ job' = [job EXCEPT ![w].delivery.snapshot = "generated"]
            /\ Goto(w, "reserving")
       ELSE Return(w) /\ UNCHANGED deliveries
    /\ UNCHANGED <<Environment, schedule, accepted, edit, faults, edits>>

-----------------------------------------------------------------------------
(* Dispatching *)

\* Seeded fault: the attempt is counted in memory only.
CountedInMemory(d) == d

\* ReserveDeliveryAttempt's UPDATE
Counted(d) == [ d EXCEPT !.attempts = @ + 1 ]

\* process refuses a text that is longer than the configuration now allows.
RefuseText(w) ==
    /\ pc[w] = "reserving"
    /\ Goto(w, "targetInvalid")
    /\ UNCHANGED <<Environment, Tables, job, accepted, edit, faults, edits>>

ReserveDeliveryAttempt(w) ==
    /\ pc[w] = "reserving" /\ Unlocked
    /\ LET t == job[w].id
           spent == job[w].delivery.attempts + 1
       IN  IF ~(ScheduleOpen /\ OwnsLease(w))
           THEN Return(w) /\ UNCHANGED deliveries
           ELSE IF Exhausted(deliveries[t].attempts, MaxDeliveries)
           THEN Goto(w, "deliveryFailed") /\ UNCHANGED <<deliveries, job>>
           ELSE /\ deliveries' = [deliveries EXCEPT ![t] = Counted(@)]
                /\ job' = [job EXCEPT ![w].delivery.attempts = spent]
                /\ Goto(w, "dispatching")
    /\ UNCHANGED <<Environment, schedule, accepted, edit, faults, edits>>

\* DispatchAndFinalize up to the call of the bridge: take the locks, check the
\* claim, the space, the target and what is left of the lease.
BeginDispatch(w) ==
    /\ pc[w] = "dispatching" /\ Unlocked
    /\ IF ~OwnsClaim(w, now) \/ (spaceActive /\ schedule.status # "ACTIVE")
       THEN Return(w)
       ELSE IF ~(spaceActive /\ targetValid)
       THEN Goto(w, "targetInvalid") /\ UNCHANGED job
       ELSE IF ~LeaseCovers(w, BridgeTimeout)
       THEN Return(w)
       ELSE /\ Goto(w, "sending")
            /\ job' = [job EXCEPT ![w].at = now]
    /\ UNCHANGED <<Environment, Tables, accepted, edit, faults, edits>>

\* A statement of that transaction fails before the bridge is called; dispatch takes
\* it for a failed send.
DispatchFails(w) ==
    /\ pc[w] = "dispatching"
    /\ faults < MaxFaults /\ faults' = faults + 1
    /\ Goto(w, IF MayRetry(job[w].delivery.attempts, MaxDeliveries)
               THEN "deliveryRetry" ELSE "deliveryFailed")
    /\ job' = [job EXCEPT ![w].at = 0]
    /\ UNCHANGED <<Environment, Tables, accepted, edit, edits>>

\* The bridge takes the message and says so before BridgeTimeout.
BridgeAccepts(w) ==
    /\ pc[w] = "sending"
    /\ accepted' = [accepted EXCEPT ![job[w].id] = @ + 1]
    /\ job' = [job EXCEPT ![w].at = now]
    /\ Goto(w, "accepted")
    /\ UNCHANGED <<Environment, Tables, edit, faults, edits>>

\* Send returns an error and the transaction rolls back.  The answer of a
\* bridge that took the message may also be lost.
SendFails(w) ==
    /\ pc[w] = "sending"
    /\ \/ UNCHANGED <<accepted, faults>>
       \/ /\ faults < MaxFaults /\ faults' = faults + 1
          /\ accepted' = [accepted EXCEPT ![job[w].id] = @ + 1]
    /\ Goto(w, IF MayRetry(job[w].delivery.attempts, MaxDeliveries)
               THEN "deliveryRetry" ELSE "deliveryFailed")
    /\ job' = [job EXCEPT ![w].at = 0]
    /\ UNCHANGED <<Environment, Tables, edit, edits>>

-----------------------------------------------------------------------------
(* Finishing an occurrence *)

\* nextOccurrence: Nil for a one-shot schedule, Invalid on a DST error.
NextAfter(s, t) == NextOccurrence[s.recurrence][s.startAt][t]

\* insertNextOccurrence is a plain INSERT: it fails if the schedule already has
\* a row at that instant, whatever the status of the row.
CanInsert(next) ==
    next # Nil => next # Invalid /\ deliveries[next].status = "ABSENT"

\* The occurrence at t ends with the given statuses and its lease goes; next,
\* unless Nil, becomes the pending occurrence.
FinalizeOccurrence(t, deliveryStatus, scheduleStatus, next, mode) ==
    /\ deliveries' =
          [ u \in Instants |->
              IF u = t THEN [ ReleaseLease(deliveries[t]) EXCEPT
                                !.status = deliveryStatus, !.nextAttempt = Nil ]
              ELSE IF u = next THEN NewDelivery(next, mode)
              ELSE deliveries[u] ]
    /\ schedule' = [schedule EXCEPT !.status = scheduleStatus, !.nextAt = next]

\* finalizeDispatchTx and the commit.  The next occurrence is counted from the
\* moment of acceptance.
FinalizeDispatch(w) ==
    LET t    == job[w].id
        next == NextAfter(schedule, job[w].at)
    IN  /\ pc[w] = "accepted"
        /\ CanInsert(next)
        /\ OwnsClaim(w, job[w].at) /\ schedule.status = "ACTIVE"
        /\ FinalizeOccurrence(t, "SENT", IF next = Nil THEN "SENT" ELSE "ACTIVE",
                              next, schedule.mode)
        /\ Return(w)
        /\ UNCHANGED <<Environment, accepted, edit, faults, edits>>

\* ErrDispatchOutcomeUncertain: the text is out, the transaction is rolled
\* back, and the row waits for its lease to run out.
DispatchUncertain(w) ==
    /\ pc[w] = "accepted"
    /\ ~( /\ CanInsert(NextAfter(schedule, job[w].at))
          /\ OwnsClaim(w, job[w].at) /\ schedule.status = "ACTIVE" )
    /\ Return(w)
    /\ UNCHANGED <<Environment, Tables, accepted, edit, faults, edits>>

\* RecordRetry writes back the worker's copies of the row's content and counters
\* and of the schedule's status and next instant.
RecordRetry(w) ==
    /\ pc[w] \in {"generationRetry", "deliveryRetry"} /\ Unlocked
    /\ LET backoff == IF pc[w] = "generationRetry" THEN GenerationBackoff ELSE DeliveryBackoff
       IN  IF ScheduleOpen /\ OwnsLease(w)
           THEN /\ deliveries' = [deliveries EXCEPT ![job[w].id] =
                      [ ReleaseLease(job[w].delivery) EXCEPT !.nextAttempt = now + backoff ]]
                /\ schedule' = [schedule EXCEPT !.status = job[w].schedule.status,
                                                !.nextAt = job[w].schedule.nextAt]
           ELSE UNCHANGED Tables
    /\ Return(w)
    /\ UNCHANGED <<Environment, accepted, edit, faults, edits>>

\* finishGenerationFailureAt and finishDeliveryFailureAt: a recurring schedule
\* goes on with the occurrence after now.  If that instant already has a row
\* the transaction fails and the worker returns with its lease left behind.
FinishFailed(w) ==
    /\ pc[w] \in {"generationFailed", "deliveryFailed"} /\ Unlocked
    /\ LET found == NextAfter(job[w].schedule, now)
           goesOn == found \notin {Nil, Invalid}
           next == IF goesOn THEN found ELSE Nil
           deliveryStatus == IF pc[w] = "generationFailed" /\ goesOn THEN "SKIPPED" ELSE "FAILED"
       IN  IF ScheduleOpen /\ OwnsLease(w) /\ CanInsert(next)
           THEN FinalizeOccurrence(job[w].id, deliveryStatus,
                                   IF goesOn THEN "ACTIVE" ELSE "FAILED",
                                   next, job[w].schedule.mode)
           ELSE UNCHANGED Tables
    /\ Return(w)
    /\ UNCHANGED <<Environment, accepted, edit, faults, edits>>

\* lockScheduleForCancellation takes any space status but only a space that is
\* not deleted, and archiving deletes: there the cancellation fails.
Cancels(w) == spaceActive /\ schedule.status = "ACTIVE" /\ OwnsLease(w)

CancelInvalidTarget(w) ==
    /\ pc[w] = "targetInvalid" /\ Unlocked
    /\ IF Cancels(w) THEN FinalizeOccurrence(job[w].id, "CANCELLED", "CANCELLED", Nil, "FIXED")
                     ELSE UNCHANGED Tables
    /\ Return(w)
    /\ UNCHANGED <<Environment, accepted, edit, faults, edits>>

\* A process dies, its context is cancelled, or the database fails a statement
\* or a commit: an open transaction rolls back.
Abandon(w) ==
    /\ pc[w] # "idle" /\ faults < MaxFaults
    /\ faults' = faults + 1
    /\ Return(w)
    /\ UNCHANGED <<Environment, Tables, accepted, edit, edits>>

-----------------------------------------------------------------------------
(* Requests of users *)

\* updatedNextScheduledAt: a one-shot keeps its instant unless start_at is given.
UpdatedNextAt(rule, start, startGiven) ==
    IF rule = "ONCE" THEN (IF startGiven THEN start ELSE schedule.nextAt)
                     ELSE NextOccurrence[rule][start][now]

Given(field, current) == IF field = Nil THEN current ELSE field

\* What an update computes from the fields it is given and the schedule it read.
Plan(mode, rule, start) ==
    [ mode |-> mode, rule |-> rule, start |-> start,
      nextAt |-> UpdatedNextAt(Given(rule, schedule.recurrence),
                               Given(start, schedule.startAt), start # Nil),
      snapshot |-> Snapshot(Given(mode, schedule.mode)) ]

\* A request that edits the content of an AI message is refused without a
\* generator; one with every field Nil here edits the text alone.
NeedsGenerator(mode, rule, start) ==
    /\ Given(mode, schedule.mode) = "AI"
    /\ mode # Nil \/ (rule = Nil /\ start = Nil)

\* Update reads the schedule without a lock and computes from what it read.
ReadForUpdate(e) ==
    /\ edit[e] = Nil /\ edits < MaxEdits /\ ScheduleOpen
    /\ \E mode \in EditModes \union {Nil}, rule \in EditRules \union {Nil},
          start \in { s \in StartTimes : s > now } \union {Nil} :
          /\ NeedsGenerator(mode, rule, start) => HasGenerator
          /\ Plan(mode, rule, start).nextAt # Invalid
          /\ edit' = [edit EXCEPT ![e] = Plan(mode, rule, start)]
    /\ edits' = edits + 1
    /\ UNCHANGED <<Environment, Tables, accepted, pc, job, faults>>

\* Seeded fault: an update also reopens an occurrence that has ended.
ReplaceableAnything == DeliveryStatuses \union {"ABSENT"}

Replaceable == {"ABSENT", "PENDING", "CANCELLED"}

\* Seeded fault: the lease survives when a pending row is reused.
RevivedKeepingLease(d, at, text) ==
    [ d EXCEPT !.status = "PENDING", !.snapshot = text, !.nextAttempt = at ]

\* A reused row keeps its identity and its attempt counters.
Revived(d, at, text) ==
    [ ReleaseLease(d) EXCEPT !.status = "PENDING", !.snapshot = text, !.nextAttempt = at ]

\* Seeded fault: other pending rows are left alone.
WithdrawnNot(d) == d

\* A pending row that is withdrawn keeps its next_attempt_at.
Withdrawn(d) ==
    IF d.status = "PENDING" THEN [ ReleaseLease(d) EXCEPT !.status = "CANCELLED" ] ELSE d

\* UpdateActive
CommitUpdate(e) ==
    /\ edit[e] # Nil /\ Unlocked
    /\ LET plan == edit[e]
       IN  IF ScheduleOpen /\ deliveries[plan.nextAt].status \in Replaceable
           THEN /\ deliveries' = [ t \in Instants |->
                      IF t = plan.nextAt THEN Revived(deliveries[t], t, plan.snapshot)
                                         ELSE Withdrawn(deliveries[t]) ]
                /\ schedule' = [ schedule EXCEPT
                      !.mode = Given(plan.mode, @), !.recurrence = Given(plan.rule, @),
                      !.startAt = Given(plan.start, @), !.nextAt = plan.nextAt ]
           ELSE UNCHANGED Tables
    /\ edit' = [edit EXCEPT ![e] = Nil]
    /\ UNCHANGED <<Environment, accepted, pc, job, faults, edits>>

\* transitionTerminal, for Cancel and for Unsubscribe
Stop(status) ==
    /\ Unlocked /\ ScheduleOpen
    /\ deliveries' = [ t \in Instants |-> Withdrawn(deliveries[t]) ]
    /\ schedule' = [schedule EXCEPT !.status = status, !.nextAt = Nil]
    /\ UNCHANGED <<Environment, accepted, pc, job, edit, faults, edits>>

Cancel == Stop("CANCELLED")
Unsubscribe == Stop("UNSUBSCRIBED")

\* Archiving waits for a dispatch's share lock on the space; so does whatever
\* takes the target away, for its share locks on members, roles and channels.
ArchiveSpace ==
    /\ spaceActive /\ Unlocked
    /\ spaceActive' = FALSE
    /\ UNCHANGED <<now, targetValid, Tables, accepted, pc, job, edit, faults, edits>>

ChangeTarget ==
    /\ Unlocked /\ targetValid' = ~targetValid
    /\ UNCHANGED <<now, spaceActive, Tables, accepted, pc, job, edit, faults, edits>>

\* No worker that could move is between two calls, and no due row is waiting.
CaughtUp ==
    Unlocked =>
        /\ \A w \in Schedulers : pc[w] \in {"idle", "generating"}
        /\ (\E w \in Schedulers : pc[w] = "idle") /\ ScheduleOpen
              => \A t \in Instants : ~Due(t, now)

\* Time passes, but never past the deadline of a call in progress.
Tick ==
    /\ now < MaxTime
    /\ Prompt => CaughtUp
    /\ \A w \in Schedulers :
          /\ pc[w] = "sending" => now < job[w].at + BridgeTimeout
          /\ pc[w] = "generating" => now < job[w].at + GeneratorTimeout
    /\ now' = now + 1
    /\ UNCHANGED <<spaceActive, targetValid, Tables, accepted, pc, job, edit, faults, edits>>

-----------------------------------------------------------------------------

\* Create has just committed: the first occurrence is start_at.
Init ==
    /\ now = 0 /\ spaceActive = TRUE /\ targetValid = TRUE
    /\ \E rule \in InitialRules, mode \in InitialModes, start \in StartTimes :
          /\ start > now /\ NextOccurrence[rule][start][now] # Invalid
          /\ mode = "AI" => HasGenerator
          /\ schedule = [ status |-> "ACTIVE", recurrence |-> rule, startAt |-> start,
                          nextAt |-> start, mode |-> mode ]
          /\ deliveries = [ t \in Instants |->
                IF t = start THEN NewDelivery(t, mode) ELSE NoDelivery ]
    /\ accepted = [ t \in Instants |-> 0 ]
    /\ pc = [ w \in Schedulers |-> "idle" ] /\ job = [ w \in Schedulers |-> Nil ]
    /\ edit = [ e \in Editors |-> Nil ]
    /\ faults = 0 /\ edits = 0

Step(w) ==
    \/ LoadClaimed(w) \/ PrepareGeneration(w)
    \/ GeneratorAnswers(w) \/ GeneratorFails(w)
    \/ ReloadClaimed(w) \/ PersistGeneratedContent(w)
    \/ RefuseText(w) \/ ReserveDeliveryAttempt(w) \/ BeginDispatch(w)
    \/ BridgeAccepts(w) \/ SendFails(w) \/ DispatchFails(w)
    \/ FinalizeDispatch(w) \/ DispatchUncertain(w)
    \/ RecordRetry(w) \/ FinishFailed(w) \/ CancelInvalidTarget(w)

Next ==
    \/ \E w \in Schedulers : ClaimDue(w) \/ Step(w) \/ Abandon(w)
    \/ \E e \in Editors : ReadForUpdate(e) \/ CommitUpdate(e)
    \/ Cancel \/ Unsubscribe \/ ArchiveSpace \/ ChangeTarget \/ Tick

Spec == Init /\ [][Next]_vars

\* The scheduler loop keeps ticking and every call it makes returns.
Fairness ==
    /\ WF_vars(Tick)
    /\ \A w \in Schedulers : WF_vars(ClaimDue(w)) /\ WF_vars(Step(w))

FairSpec == Spec /\ Fairness

-----------------------------------------------------------------------------
(* Properties *)

Places ==
    {"idle", "claimed", "preparing", "generating", "generated", "persisting", "reserving",
     "dispatching", "sending", "accepted", "generationRetry", "deliveryRetry",
     "generationFailed", "deliveryFailed", "targetInvalid"}

Job ==
    [ id : Instants, delivery : Delivery, schedule : Schedule \union {Nil}, at : Instants ]

Edit ==
    [ mode : {"FIXED", "AI", Nil}, rule : Rules \union {Nil},
      start : Instants \union {Nil}, nextAt : Instants, snapshot : Texts \union {Nil} ]

\* Every variable has its type; a worker holds a job while it is busy, and
\* a copy of the schedule from the moment LoadClaimed has returned.
TypeOK ==
    /\ now \in 0..MaxTime /\ spaceActive \in BOOLEAN /\ targetValid \in BOOLEAN
    /\ schedule \in Schedule
    /\ deliveries \in [Instants -> Delivery]
    /\ accepted \in [Instants -> Nat]
    /\ pc \in [Schedulers -> Places]
    /\ job \in [Schedulers -> Job \union {Nil}]
    /\ \A w \in Schedulers :
          /\ pc[w] # "idle" => job[w] \in Job
          /\ pc[w] \notin {"idle", "claimed"} => job[w].schedule \in Schedule
    /\ edit \in [Editors -> Edit \union {Nil}]
    /\ faults \in 0..MaxFaults /\ edits \in 0..MaxEdits

\* Whatever updates, cancellations, retries and finishes race: an active schedule
\* has exactly one pending occurrence, the one next_scheduled_at names, and a
\* schedule that has ended has none.
OneOutstandingOccurrence ==
    /\ schedule.status = "ACTIVE" => schedule.nextAt # Nil
    /\ schedule.status # "ACTIVE" => schedule.nextAt = Nil
    /\ \A t \in Instants : Pending(t) <=> schedule.nextAt = t

Holds(w) ==
    /\ pc[w] \notin {"idle", "claimed"}
    /\ Pending(job[w].id) /\ deliveries[job[w].id].token = w

\* All that a worker read before its calls to the generator and the bridge is
\* still so while the row carries its token: what RecordRetry writes back and
\* what the finishing steps compute with is never stale.
ClaimedCopyIsCurrent ==
    \A w \in Schedulers :
        Holds(w) => job[w].delivery = deliveries[job[w].id] /\ job[w].schedule = schedule

\* Every text the bridge takes was paid for by an attempt counted beforehand, and
\* attempts never exceed the budget: crashes, lost answers, reused rows and
\* rolled back finalizations included.
AttemptsCoverSends ==
    \A t \in Instants :
        /\ accepted[t] <= deliveries[t].attempts
        /\ deliveries[t].attempts <= MaxDeliveries

\* A text leaves only for the pending occurrence of an active schedule in an active
\* space with a valid target, under an unexpired lease, with the text the row has
\* now: no cancel, unsubscribe, archive or edit that has committed is ever ignored.
SendsOnlyWhileLive ==
    [][ \A w \in Schedulers, t \in Instants :
          accepted'[t] # accepted[t] /\ pc[w] = "sending" =>
              /\ ScheduleOpen /\ targetValid
              /\ schedule.nextAt = t
              /\ OwnsClaim(w, now)
              /\ job[w].delivery.snapshot = deliveries[t].snapshot ]_vars

\* Two processes never have the schedule's text on its way at the same time.
OneSenderAtATime ==
    \A v, w \in Schedulers : pc[v] \in Locking /\ pc[w] \in Locking => v = w

\* History is final: a row that was sent, skipped or failed never changes again,
\* and a schedule that has ended stays as it ended.
HistoryIsFinal ==
    [][ /\ \A t \in Instants :
              deliveries[t].status \in {"SENT", "SKIPPED", "FAILED"}
                  => deliveries'[t] = deliveries[t]
        /\ schedule.status # "ACTIVE" => schedule' = schedule ]_vars

\* README: a recurring occurrence is SKIPPED only after the whole generation budget.
SkippedAfterWholeBudget ==
    HasGenerator =>
        \A t \in Instants :
            deliveries[t].status = "SKIPPED" => deliveries[t].generations = MaxGenerations

\* A worker that found the target invalid and still holds its lease cancels the
\* occurrence, as TestRunOnceCancelsOccurrenceWhenSpaceIsInactive... expects.
InvalidTargetIsCancelled ==
    [][ \A w \in Schedulers :
          /\ pc[w] = "targetInvalid" /\ pc'[w] = "idle"
          /\ OwnsLease(w) /\ faults' = faults
          => deliveries'[job[w].id].status = "CANCELLED" ]_vars

\* While no process dies, no statement fails and no answer of the bridge is lost,
\* an occurrence's text is accepted once.
AcceptedOnceWithoutFaults ==
    faults = 0 => \A t \in Instants : accepted[t] <= 1

\* Once its time has come, a pending occurrence is decided (sent, failed, skipped or
\* cancelled) or its space is archived.  The bound keeps what the model's clock has
\* no time left for out of the claim.
DueIsDecided ==
    \A t \in 1..DecidedBy : (Pending(t) ~> ~Pending(t) \/ ~spaceActive)

\* A lease outlives the bridge call it covers: an accepted text is never refused by
\* finalizeDispatchTx because its lease ran out during the call.
LeaseOutlivesSend ==
    \A w \in Schedulers : pc[w] \in Locking => OwnsClaim(w, job[w].at)
=============================================================================
