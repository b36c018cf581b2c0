---------------------- MODULE ScheduledMessages_send_proofs ----------------------
(* Proofs of what is true while a text is on its way, of the delivery budget and of
   the finality of history in ScheduledMessages.                           *)
EXTENDS ScheduledMessages_proofs

\* Only a pending row carries a lease, and a lease has an end.
LeaseShape ==
    \A t \in Instants :
        deliveries[t].token # Nil => deliveries[t].until \in Nat /\ Pending(t)

\* A worker inside DispatchAndFinalize owns what it has locked, and its lease reaches
\* beyond the time the bridge has left to answer.
SenderHolds ==
    \A w \in Schedulers :
        /\ pc[w] \in Locking => Holds(w) /\ ScheduleOpen
        /\ pc[w] = "sending" =>
              /\ targetValid
              /\ job[w].at <= now /\ now <= job[w].at + BridgeTimeout
              /\ deliveries[job[w].id].until > job[w].at + BridgeTimeout
        /\ pc[w] = "accepted" => deliveries[job[w].id].until > job[w].at

\* A row not inserted yet has spent nothing, and a worker on its way to the bridge has
\* paid for one text more than were taken.
Paid ==
    /\ \A t \in Instants : accepted[t] <= deliveries[t].attempts
    /\ \A t \in Instants : deliveries[t].status = "ABSENT" => deliveries[t].attempts = 0
    /\ \A w \in Schedulers :
          Holds(w) /\ pc[w] \in {"dispatching", "sending"}
              => accepted[job[w].id] < deliveries[job[w].id].attempts

SInv == IInv /\ LeaseShape /\ OneSenderAtATime /\ SenderHolds /\ Paid

-----------------------------------------------------------------------------
(* What every step does to the tables *)

Ended == {"SENT", "SKIPPED", "FAILED"}

\* What may become of a row: attempts are never uncounted, a lease keeps its shape,
\* and a row that has ended stays as it is.
RowKept(d, e) ==
    /\ d.attempts <= e.attempts
    /\ e.status = "ABSENT" => e.attempts = 0
    /\ e.token # Nil => e.until \in Nat /\ e.status = "PENDING"
    /\ d.status \in Ended => e = d

\* Only a claim writes a token.
TokenKept(t) ==
    \/ deliveries'[t].token \in {deliveries[t].token, Nil}
    \/ \E w \in Schedulers : pc'[w] = "claimed" /\ deliveries'[t].token = w

TablesKept ==
    /\ \A t \in Instants : RowKept(deliveries[t], deliveries'[t]) /\ TokenKept(t)
    /\ schedule.status # "ACTIVE" => schedule' = schedule

\* A step that leaves the tables alone keeps them.
LEMMA StillKept ==
    ASSUME SInv, UNCHANGED <<schedule, deliveries>>
    PROVE  TablesKept
<1>1. ASSUME NEW t \in Instants PROVE deliveries[t].attempts \in Nat
  BY ConfigAssumption DEF SInv, IInv, TypeOK, Delivery
<1> QED BY <1>1 DEF SInv, LeaseShape, Paid, Pending, TablesKept, RowKept, TokenKept

\* A step that rewrites one pending row within what a row allows keeps the tables.
LEMMA OneRowKept ==
    ASSUME SInv, NEW t \in Instants, NEW e \in Delivery, Pending(t), e.status = "PENDING",
           deliveries[t].attempts <= e.attempts, e.token # Nil => e.until \in Nat,
           \/ e.token \in {deliveries[t].token, Nil}
           \/ \E w \in Schedulers : pc'[w] = "claimed" /\ e.token = w,
           deliveries' = [deliveries EXCEPT ![t] = e],
           schedule.status # "ACTIVE" => schedule' = schedule
    PROVE  TablesKept
<1> USE DEF SInv, IInv
<1>1. deliveries'[t] = e /\ \A u \in Instants \ {t} : deliveries'[u] = deliveries[u]
  BY DEF TypeOK
<1>2. ASSUME NEW u \in Instants PROVE deliveries[u].attempts \in Nat
  BY ConfigAssumption DEF TypeOK, Delivery
<1>3. RowKept(deliveries[t], e)
  BY DEF RowKept, Pending, Ended
<1>4. TokenKept(t)
  BY <1>1 DEF TokenKept
<1>5. ASSUME NEW u \in Instants \ {t} PROVE RowKept(deliveries[u], deliveries'[u]) /\ TokenKept(u)
  BY <1>1, <1>2 DEF LeaseShape, Paid, Pending, RowKept, TokenKept
<1> QED BY <1>1, <1>3, <1>4, <1>5 DEF TablesKept

\* Ending an occurrence spends nothing and meets no row that has ended.
LEMMA FinalizeKept ==
    ASSUME SInv, NEW w \in Schedulers, Holds(w), schedule.status = "ACTIVE",
           NEW deliveryStatus \in DeliveryStatuses \ {"PENDING"}, NEW scheduleStatus,
           NEW next \in Instants \union {Nil}, NEW mode \in {"FIXED", "AI"},
           CanInsert(next),
           FinalizeOccurrence(job[w].id, deliveryStatus, scheduleStatus, next, mode)
    PROVE  TablesKept
<1> USE DEF SInv, IInv
<1> DEFINE t == job[w].id
<1>0. t \in Instants /\ deliveries[t] \in Delivery /\ Pending(t)
  BY DEF Holds, TypeOK, Job
<1>1. ASSUME NEW u \in Instants PROVE RowKept(deliveries[u], deliveries'[u]) /\ TokenKept(u)
  <2>0. deliveries[u] \in Delivery /\ deliveries[u].attempts \in Nat
    BY ConfigAssumption DEF TypeOK, Delivery
  <2>1. CASE u = t
    <3>1. deliveries'[u] = [ ReleaseLease(deliveries[t]) EXCEPT
                                !.status = deliveryStatus, !.nextAttempt = Nil ]
      BY <2>1 DEF FinalizeOccurrence
    <3>2. /\ deliveries'[u].attempts = deliveries[u].attempts
          /\ deliveries'[u].status = deliveryStatus /\ deliveries'[u].token = Nil
      BY <1>0, <2>1, <3>1 DEF ReleaseLease, Delivery
    <3> QED BY <1>0, <2>0, <2>1, <3>2 DEF RowKept, TokenKept, Pending, Ended, DeliveryStatuses
  <2>2. CASE u # t /\ u = next
    <3>1. deliveries'[u] = NewDelivery(u, mode) /\ deliveries[u].status = "ABSENT"
      BY <2>2, CalendarAssumption DEF FinalizeOccurrence, CanInsert, Instants
    <3>2. /\ NewDelivery(u, mode).attempts = 0 /\ NewDelivery(u, mode).token = Nil
          /\ NewDelivery(u, mode).status = "PENDING"
      BY DEF NewDelivery, NoDelivery
    <3> QED BY <2>0, <3>1, <3>2 DEF RowKept, TokenKept, Paid, Ended
  <2>3. CASE u # t /\ u # next
    <3>1. deliveries'[u] = deliveries[u]
      BY <2>3 DEF FinalizeOccurrence
    <3> QED BY <2>0, <3>1 DEF RowKept, TokenKept, LeaseShape, Paid, Pending
  <2> QED BY <2>1, <2>2, <2>3
<1> QED BY <1>1 DEF TablesKept

\* A claim writes a token with an end to a pending row.
LEMMA ClaimDueKept ==
    ASSUME SInv, NEW w \in Schedulers, ClaimDue(w)
    PROVE  TablesKept
<1>0. SInv
  OBVIOUS
<1> USE DEF SInv, IInv
<1>1. PICK tick \in Instants, t \in Instants :
        /\ Due(t, tick)
        /\ deliveries' = [deliveries EXCEPT ![t] =
              [ deliveries[t] EXCEPT !.token = w, !.until = tick + Lease ]]
  BY DEF ClaimDue
<1> DEFINE e == [ deliveries[t] EXCEPT !.token = w, !.until = tick + Lease ]
<1>2. Pending(t) /\ deliveries[t] \in Delivery /\ deliveries[t].attempts \in Nat
  BY <1>1, ConfigAssumption DEF Due, TypeOK, Delivery
<1>3. tick + Lease \in Nat
  BY InstantsAreNatural, ConfigAssumption
<1>4. /\ e \in Delivery /\ e.status = "PENDING" /\ e.token = w /\ e.until \in Nat
      /\ e.attempts = deliveries[t].attempts
  BY <1>2, <1>3 DEF Delivery, Pending
<1>5. pc'[w] = "claimed" /\ UNCHANGED schedule
  BY DEF ClaimDue, Goto, TypeOK
<1> HIDE DEF e
<1>6. deliveries' = [deliveries EXCEPT ![t] = e]
  BY <1>1 DEF e
<1>7. \E v \in Schedulers : pc'[v] = "claimed" /\ e.token = v
  BY <1>4, <1>5
<1>8. deliveries[t].attempts <= e.attempts /\ (e.token # Nil => e.until \in Nat)
  BY <1>2, <1>4
<1>9. Pending(t) /\ e \in Delivery /\ e.status = "PENDING" /\ UNCHANGED schedule
  BY <1>2, <1>4, <1>5
<1> HIDE DEF SInv, IInv
<1> QED BY <1>0, <1>6, <1>7, <1>8, <1>9, OneRowKept

\* A worker that reserves an attempt or saves a text rewrites its own row.
LEMMA OwnRowStepKept ==
    ASSUME SInv, NEW w \in Schedulers,
           PrepareGeneration(w) \/ PersistGeneratedContent(w) \/ ReserveDeliveryAttempt(w)
    PROVE  TablesKept
<1> USE DEF SInv, IInv
<1> DEFINE t == job[w].id
<1>1. /\ pc[w] \in {"preparing", "persisting", "reserving"} /\ UNCHANGED schedule
      /\ job[w] \in Job /\ t \in Instants /\ deliveries[t] \in Delivery
  BY DEF PrepareGeneration, PersistGeneratedContent, ReserveDeliveryAttempt, TypeOK, Job
<1>2. CASE UNCHANGED deliveries
  BY <1>1, <1>2, StillKept
<1>3. CASE deliveries' # deliveries
  <2>1. OwnsLease(w)
    BY <1>3 DEF PrepareGeneration, PersistGeneratedContent, ReserveDeliveryAttempt
  <2>2. Pending(t) /\ deliveries[t].token = w /\ deliveries[t].until \in Nat
    BY <1>1, <2>1, ConfigAssumption DEF OwnsLease, OwnsClaim, Pending, LeaseShape
  <2>3. PICK e : /\ deliveries' = [deliveries EXCEPT ![t] = e]
                 /\ \/ e = [deliveries[t] EXCEPT !.generations = @ + 1]
                    \/ e = [deliveries[t] EXCEPT !.snapshot = "generated"]
                    \/ e = [deliveries[t] EXCEPT !.attempts = @ + 1]
    BY <1>3 DEF PrepareGeneration, PersistGeneratedContent, ReserveDeliveryAttempt, Counted
  <2>4. /\ e.status = "PENDING" /\ e.token = deliveries[t].token
        /\ e.until = deliveries[t].until /\ deliveries[t].attempts <= e.attempts
    BY <1>1, <2>2, <2>3, ConfigAssumption DEF Delivery, Pending
  <2>5. e \in Delivery
    <3>1. deliveries' \in [Instants -> Delivery]
      BY PrepareGenerationStep, PersistStep, ReserveDeliveryAttemptStep DEF TypeOK
    <3>2. deliveries'[t] = e
      BY <1>1, <2>3 DEF TypeOK
    <3> QED BY <1>1, <3>1, <3>2
  <2> QED BY <1>1, <2>2, <2>3, <2>4, <2>5, OneRowKept
<1> QED BY <1>2, <1>3

\* The finishing steps end what they hold, or write nothing.
LEMMA FinishKept ==
    ASSUME SInv, NEW w \in Schedulers,
           FinalizeDispatch(w) \/ FinishFailed(w) \/ CancelInvalidTarget(w)
    PROVE  TablesKept
<1> USE DEF SInv, IInv
<1>1. CASE FinalizeDispatch(w)
  <2> DEFINE next == NextAfter(schedule, job[w].at)
  <2>1. pc[w] = "accepted" /\ job[w] \in Job /\ schedule \in Schedule
    BY <1>1 DEF FinalizeDispatch, TypeOK
  <2>2. Holds(w) /\ schedule.status = "ACTIVE" /\ CanInsert(next)
    BY <1>1, <2>1 DEF FinalizeDispatch, OwnsClaim, Holds, Pending
  <2>3. next \in Instants \union {Nil} /\ schedule.mode \in {"FIXED", "AI"}
    BY <2>1, <2>2, NextAfterType DEF CanInsert, Job, Schedule
  <2>4. "SENT" \in DeliveryStatuses \ {"PENDING"}
    BY DEF DeliveryStatuses
  <2>5. FinalizeOccurrence(job[w].id, "SENT", IF next = Nil THEN "SENT" ELSE "ACTIVE",
                           next, schedule.mode)
    BY <1>1 DEF FinalizeDispatch
  <2> HIDE DEF next
  <2> QED BY <2>2, <2>3, <2>4, <2>5, FinalizeKept
<1>2. CASE FinishFailed(w)
  <2> DEFINE found == NextAfter(job[w].schedule, now)
             goesOn == found \notin {Nil, Invalid}
             next == IF goesOn THEN found ELSE Nil
             ended == IF pc[w] = "generationFailed" /\ goesOn THEN "SKIPPED" ELSE "FAILED"
             left == IF goesOn THEN "ACTIVE" ELSE "FAILED"
  <2>1. /\ pc[w] \in {"generationFailed", "deliveryFailed"}
        /\ job[w] \in Job /\ job[w].schedule \in Schedule
    BY <1>2 DEF FinishFailed, TypeOK
  <2>2. \/ UNCHANGED <<schedule, deliveries>>
        \/ /\ OwnsLease(w) /\ ScheduleOpen /\ CanInsert(next)
           /\ FinalizeOccurrence(job[w].id, ended, left, next, job[w].schedule.mode)
    BY <1>2 DEF FinishFailed, Tables
  <2>3. CASE UNCHANGED <<schedule, deliveries>>
    BY <2>3, StillKept
  <2>4. CASE /\ OwnsLease(w) /\ ScheduleOpen /\ CanInsert(next)
             /\ FinalizeOccurrence(job[w].id, ended, left, next, job[w].schedule.mode)
    <3>1. Holds(w) /\ schedule.status = "ACTIVE"
      BY <2>1, <2>4 DEF OwnsLease, OwnsClaim, Holds, Pending, ScheduleOpen
    <3>2. found \in Instants \union {Nil, Invalid}
      BY <2>1, NextAfterType, NowIsInstant
    <3>3. next \in Instants \union {Nil} /\ ended \in DeliveryStatuses \ {"PENDING"}
      BY <3>2 DEF DeliveryStatuses
    <3>4. job[w].schedule.mode \in {"FIXED", "AI"}
      BY <2>1 DEF Schedule
    <3> HIDE DEF found, goesOn, next, ended, left
    <3> QED BY <2>4, <3>1, <3>3, <3>4, FinalizeKept
  <2> QED BY <2>2, <2>3, <2>4
<1>3. CASE CancelInvalidTarget(w)
  <2>1. CASE UNCHANGED Tables
    BY <2>1, StillKept DEF Tables
  <2>2. CASE Cancels(w) /\ FinalizeOccurrence(job[w].id, "CANCELLED", "CANCELLED", Nil, "FIXED")
    <3>1. pc[w] = "targetInvalid"
      BY <1>3 DEF CancelInvalidTarget
    <3>2. Holds(w) /\ schedule.status = "ACTIVE" /\ CanInsert(Nil)
      BY <2>2, <3>1 DEF Cancels, OwnsLease, OwnsClaim, Holds, Pending, CanInsert
    <3>3. "CANCELLED" \in DeliveryStatuses \ {"PENDING"}
      BY DEF DeliveryStatuses
    <3> QED BY <2>2, <3>2, <3>3, FinalizeKept
  <2> QED BY <1>3, <2>1, <2>2 DEF CancelInvalidTarget
<1> QED BY <1>1, <1>2, <1>3

\* A retry writes back the counters the row has.
LEMMA RecordRetryKept ==
    ASSUME SInv, NEW w \in Schedulers, RecordRetry(w)
    PROVE  TablesKept
<1>0. SInv
  OBVIOUS
<1> USE DEF SInv, IInv
<1> DEFINE backoff == IF pc[w] = "generationRetry" THEN GenerationBackoff ELSE DeliveryBackoff
           row == [ ReleaseLease(job[w].delivery) EXCEPT !.nextAttempt = now + backoff ]
           t == job[w].id
<1>1. /\ pc[w] \in {"generationRetry", "deliveryRetry"} /\ job[w] \in Job /\ t \in Instants
      /\ deliveries[t] \in Delivery
  BY DEF RecordRetry, TypeOK, Job
<1>2. CASE UNCHANGED Tables
  BY <1>2, StillKept DEF Tables
<1>3. CASE /\ ScheduleOpen /\ OwnsLease(w)
           /\ deliveries' = [deliveries EXCEPT ![t] = row]
  <2>1. Pending(t) /\ job[w].delivery = deliveries[t]
    BY <1>1, <1>3 DEF Holds, OwnsLease, OwnsClaim, Pending, ClaimedCopyIsCurrent
  <2>2. /\ row.status = "PENDING" /\ row.token = Nil
        /\ row.attempts = deliveries[t].attempts /\ row.attempts \in Nat
    BY <1>1, <2>1, ConfigAssumption DEF ReleaseLease, Delivery, Pending
  <2>3. deliveries' \in [Instants -> Delivery]
    BY RecordRetryStep DEF TypeOK
  <2> HIDE DEF row
  <2>4. row \in Delivery
    BY <1>1, <1>3, <2>3 DEF TypeOK
  <2>5. schedule.status = "ACTIVE" /\ deliveries' = [deliveries EXCEPT ![t] = row]
    BY <1>3 DEF ScheduleOpen
  <2>6. deliveries[t].attempts <= row.attempts
    BY <2>2
  <2> HIDE DEF SInv, IInv, t
  <2> QED BY <1>0, <1>1, <2>1, <2>2, <2>4, <2>5, <2>6, OneRowKept
<1> QED BY <1>2, <1>3 DEF RecordRetry

\* A request withdraws and reopens rows, but none that has ended.
LEMMA RequestKept ==
    ASSUME SInv,
           Cancel \/ Unsubscribe \/ \E e \in Editors : CommitUpdate(e)
    PROVE  TablesKept
<1> USE DEF SInv, IInv
<1>1. ASSUME NEW u \in Instants, deliveries'[u] = Withdrawn(deliveries[u])
      PROVE  RowKept(deliveries[u], deliveries'[u]) /\ TokenKept(u)
  <2>1. deliveries[u] \in Delivery /\ deliveries[u].attempts \in Nat
    BY ConfigAssumption DEF TypeOK, Delivery
  <2>2. CASE Pending(u)
    BY <1>1, <2>1, <2>2 DEF RowKept, TokenKept, Withdrawn, ReleaseLease, Pending, Ended, Delivery
  <2>3. CASE ~Pending(u)
    BY <1>1, <2>1, <2>3 DEF RowKept, TokenKept, Withdrawn, LeaseShape, Paid, Pending
  <2> QED BY <2>2, <2>3
<1>2. CASE Cancel \/ Unsubscribe
  <2>1. ScheduleOpen /\ \A u \in Instants : deliveries'[u] = Withdrawn(deliveries[u])
    BY <1>2 DEF Cancel, Unsubscribe, Stop
  <2> QED BY <1>1, <2>1 DEF TablesKept, ScheduleOpen
<1>3. ASSUME NEW e \in Editors, CommitUpdate(e) PROVE TablesKept
  <2> DEFINE plan == edit[e]
  <2>1. CASE UNCHANGED Tables
    BY <2>1, StillKept DEF Tables
  <2>2. CASE /\ ScheduleOpen /\ deliveries[plan.nextAt].status \in Replaceable
             /\ deliveries' = [ t \in Instants |->
                      IF t = plan.nextAt THEN Revived(deliveries[t], t, plan.snapshot)
                                         ELSE Withdrawn(deliveries[t]) ]
    <3>1. ASSUME NEW u \in Instants PROVE RowKept(deliveries[u], deliveries'[u]) /\ TokenKept(u)
      <4>1. CASE u = plan.nextAt
        <5>1. deliveries[u] \in Delivery /\ deliveries[u].attempts \in Nat
          BY ConfigAssumption DEF TypeOK, Delivery
        <5>2. deliveries'[u] = Revived(deliveries[u], u, plan.snapshot)
          BY <2>2, <4>1
        <5>3. /\ deliveries'[u].attempts = deliveries[u].attempts
              /\ deliveries'[u].status = "PENDING" /\ deliveries'[u].token = Nil
          BY <5>1, <5>2 DEF Revived, ReleaseLease, Delivery
        <5>4. deliveries[u].status \notin Ended
          BY <2>2, <4>1 DEF Replaceable, Ended
        <5> HIDE DEF SInv, IInv, plan
        <5> QED BY <5>1, <5>3, <5>4 DEF RowKept, TokenKept
      <4>2. CASE u # plan.nextAt
        BY <1>1, <2>2, <4>2
      <4> QED BY <4>1, <4>2
    <3> QED BY <2>2, <3>1 DEF TablesKept, ScheduleOpen
  <2> QED BY <1>3, <2>1, <2>2 DEF CommitUpdate
<1> QED BY <1>2, <1>3

\* Every step keeps the tables.
LEMMA StepKept == SInv /\ [Next]_vars => TablesKept
<1> SUFFICES ASSUME SInv, [Next]_vars PROVE TablesKept
  OBVIOUS
<1>1. ASSUME NEW w \in Schedulers, Step(w) \/ Abandon(w) PROVE TablesKept
  <2>1. CASE \/ PrepareGeneration(w) \/ PersistGeneratedContent(w) \/ ReserveDeliveryAttempt(w)
             \/ FinalizeDispatch(w) \/ FinishFailed(w) \/ CancelInvalidTarget(w) \/ RecordRetry(w)
    BY <2>1, OwnRowStepKept, FinishKept, RecordRetryKept
  <2>2. CASE \/ LoadClaimed(w) \/ GeneratorAnswers(w) \/ GeneratorFails(w) \/ ReloadClaimed(w)
             \/ RefuseText(w) \/ BeginDispatch(w) \/ BridgeAccepts(w) \/ SendFails(w)
             \/ DispatchFails(w) \/ DispatchUncertain(w) \/ Abandon(w)
    <3>1. UNCHANGED <<schedule, deliveries>>
      BY <2>2 DEF LoadClaimed, GeneratorAnswers, GeneratorFails, ReloadClaimed, RefuseText,
         BeginDispatch, BridgeAccepts, SendFails, DispatchFails, DispatchUncertain, Abandon, Tables
    <3> QED BY <3>1, StillKept
  <2> QED BY <1>1, <2>1, <2>2 DEF Step
<1>2. CASE \E w \in Schedulers : ClaimDue(w)
  BY <1>2, ClaimDueKept
<1>3. CASE Cancel \/ Unsubscribe \/ \E e \in Editors : CommitUpdate(e)
  BY <1>3, RequestKept
<1>4. CASE \/ \E e \in Editors : ReadForUpdate(e)
           \/ ArchiveSpace \/ ChangeTarget \/ Tick \/ UNCHANGED vars
  <2>1. UNCHANGED <<schedule, deliveries>>
    BY <1>4 DEF ReadForUpdate, ArchiveSpace, ChangeTarget, Tick, vars, Tables
  <2> QED BY <2>1, StillKept
<1> QED BY <1>1, <1>2, <1>3, <1>4 DEF Next

-----------------------------------------------------------------------------
(* What every step does to the worker whose text is on its way *)

\* The steps of a worker, whatever they write, move no other worker.
LEMMA OthersStayPut ==
    ASSUME TypeOK, NEW w \in Schedulers, ClaimDue(w) \/ Step(w) \/ Abandon(w)
    PROVE  OthersStay(w)
<1>1. \/ Return(w)
      \/ \E place \in Places : Goto(w, place) /\ UNCHANGED job
      \/ \E place \in Places : Goto(w, place) /\ \E held : job' = [job EXCEPT ![w] = held]
  <2>1. CASE ClaimDue(w)
    BY <2>1 DEF ClaimDue, Places
  <2>2. CASE LoadClaimed(w) \/ ReloadClaimed(w)
    BY <2>2 DEF LoadClaimed, ReloadClaimed, AfterLoad, Places
  <2>3. CASE PrepareGeneration(w) \/ PersistGeneratedContent(w) \/ ReserveDeliveryAttempt(w)
    BY <2>3 DEF PrepareGeneration, PersistGeneratedContent, ReserveDeliveryAttempt, Places
  <2>4. CASE GeneratorAnswers(w) \/ GeneratorFails(w) \/ RefuseText(w) \/ BeginDispatch(w)
    BY <2>4 DEF GeneratorAnswers, GeneratorFails, RefuseText, BeginDispatch, Places
  <2>5. CASE BridgeAccepts(w) \/ SendFails(w) \/ DispatchFails(w)
    BY <2>5 DEF BridgeAccepts, SendFails, DispatchFails, Places
  <2>6. CASE \/ FinalizeDispatch(w) \/ DispatchUncertain(w) \/ RecordRetry(w) \/ FinishFailed(w)
             \/ CancelInvalidTarget(w) \/ Abandon(w)
    BY <2>6 DEF FinalizeDispatch, DispatchUncertain, RecordRetry, FinishFailed,
       CancelInvalidTarget, Abandon
  <2> QED BY <2>1, <2>2, <2>3, <2>4, <2>5, <2>6 DEF Step
<1> QED BY <1>1 DEF Return, Goto, OthersStay, TypeOK

\* Where nobody is sending there is nothing to hold.
LEMMA NobodySends ==
    ASSUME \A v \in Schedulers : pc'[v] \notin Locking
    PROVE  OneSenderAtATime' /\ SenderHolds'
  BY DEF OneSenderAtATime, SenderHolds, Locking

\* A step that leaves clock, environment and tables alone, by a worker that is not
\* sending after it, takes nothing from the one that is.
LEMMA SenderUntouched ==
    ASSUME SInv, NEW w \in Schedulers, OthersStay(w), pc'[w] \notin Locking,
           UNCHANGED <<now, spaceActive, targetValid, schedule, deliveries>>
    PROVE  OneSenderAtATime' /\ SenderHolds'
<1>1. ASSUME NEW v \in Schedulers, pc'[v] \in Locking
      PROVE  v # w /\ pc'[v] = pc[v] /\ job'[v] = job[v]
  BY <1>1 DEF OthersStay
<1>2. OneSenderAtATime'
  BY <1>1 DEF SInv, OneSenderAtATime
<1>3. SenderHolds'
  BY <1>1 DEF SInv, SenderHolds, Holds, Pending, ScheduleOpen, Locking
<1> QED BY <1>2, <1>3

\* The lease is found to reach beyond the bridge's deadline, on a copy that is current.
LEMMA BeginDispatchHolds ==
    ASSUME SInv, NEW w \in Schedulers, BeginDispatch(w)
    PROVE  OneSenderAtATime' /\ SenderHolds'
<1> USE DEF SInv, IInv
<1>1. /\ pc[w] = "dispatching" /\ Unlocked /\ job[w] \in Job
      /\ UNCHANGED <<now, spaceActive, targetValid, schedule, deliveries>>
  BY DEF BeginDispatch, Environment, Tables, TypeOK
<1>2. OthersStay(w)
  BY OthersStayPut DEF Step
<1>3. CASE pc'[w] \notin Locking
  BY <1>1, <1>2, <1>3, SenderUntouched
<1>4. CASE pc'[w] \in Locking
  <2>1. /\ OwnsClaim(w, now) /\ ScheduleOpen /\ targetValid /\ LeaseCovers(w, BridgeTimeout)
        /\ pc'[w] = "sending" /\ job'[w] = [job[w] EXCEPT !.at = now]
    BY <1>1, <1>4 DEF BeginDispatch, Return, Goto, Locking, TypeOK, ScheduleOpen
  <2>2. Holds(w) /\ job[w].delivery = deliveries[job[w].id]
    BY <1>1, <2>1 DEF OwnsClaim, Holds, Pending, ClaimedCopyIsCurrent
  <2>3. job'[w].id = job[w].id /\ job'[w].at = now
    BY <1>1, <2>1 DEF Job
  <2>4. deliveries[job[w].id].until > now + BridgeTimeout
    BY <2>1, <2>2 DEF LeaseCovers
  <2>5. now \in Nat /\ now <= now + BridgeTimeout
    <3>1. now \in Nat /\ BridgeTimeout \in Nat
      BY NowIsInstant, InstantsAreNatural, ConfigAssumption
    <3> QED BY <3>1
  <2>6. ASSUME NEW v \in Schedulers, pc'[v] \in Locking PROVE v = w
    BY <1>1, <1>2, <2>6 DEF OthersStay, Unlocked
  <2>7. OneSenderAtATime'
    BY <2>6 DEF OneSenderAtATime
  <2>8. /\ Holds(w)' /\ ScheduleOpen' /\ targetValid' /\ pc'[w] = "sending"
        /\ job'[w].at <= now' /\ now' <= job'[w].at + BridgeTimeout
        /\ deliveries'[job'[w].id].until > job'[w].at + BridgeTimeout
    BY <1>1, <2>1, <2>2, <2>3, <2>4, <2>5 DEF Holds, Pending, ScheduleOpen
  <2>9. SenderHolds'
    BY <2>6, <2>8 DEF SenderHolds, Locking
  <2> QED BY <2>7, <2>9
<1> QED BY <1>3, <1>4

\* The bridge answers before its deadline, which the lease outlives.
LEMMA BridgeAcceptsHolds ==
    ASSUME SInv, NEW w \in Schedulers, BridgeAccepts(w)
    PROVE  OneSenderAtATime' /\ SenderHolds'
<1> USE DEF SInv, IInv
<1>1. /\ pc[w] = "sending" /\ pc'[w] = "accepted" /\ job[w] \in Job
      /\ job'[w] = [job[w] EXCEPT !.at = now]
      /\ UNCHANGED <<now, spaceActive, targetValid, schedule, deliveries>>
  BY DEF BridgeAccepts, Goto, Environment, Tables, TypeOK
<1>2. OthersStay(w)
  BY OthersStayPut DEF Step
<1>3. ASSUME NEW v \in Schedulers, pc'[v] \in Locking PROVE v = w
  BY <1>1, <1>2, <1>3 DEF OthersStay, OneSenderAtATime, Locking
<1>4. job'[w].id = job[w].id /\ job'[w].at = now
  BY <1>1 DEF Job
<1>5. /\ Holds(w) /\ ScheduleOpen /\ now <= job[w].at + BridgeTimeout
      /\ deliveries[job[w].id].until > job[w].at + BridgeTimeout
  BY <1>1 DEF SenderHolds, Locking
<1>6. deliveries[job[w].id].until \in Nat /\ now \in Nat /\ job[w].at \in Nat
  <2>1. job[w].id \in Instants /\ job[w].at \in Instants
    BY <1>1 DEF Job
  <2>2. deliveries[job[w].id].token # Nil
    BY <1>5, ConfigAssumption DEF Holds
  <2> QED BY <2>1, <2>2, NowIsInstant, InstantsAreNatural DEF LeaseShape
<1>7. deliveries'[job'[w].id].until > job'[w].at
  BY <1>1, <1>4, <1>5, <1>6, ConfigAssumption
<1>8. Holds(w)' /\ ScheduleOpen'
  BY <1>1, <1>4, <1>5 DEF Holds, Pending, ScheduleOpen
<1>9. OneSenderAtATime' /\ SenderHolds'
  BY <1>1, <1>3, <1>7, <1>8 DEF OneSenderAtATime, SenderHolds, Locking
<1> QED BY <1>9

\* Time stops at the deadline of the call on its way.
LEMMA TickHolds ==
    ASSUME SInv, Tick
    PROVE  OneSenderAtATime' /\ SenderHolds'
<1> USE DEF SInv, IInv
<1>1. /\ UNCHANGED <<spaceActive, targetValid, schedule, deliveries, pc, job>>
      /\ now' = now + 1
      /\ \A w \in Schedulers : pc[w] = "sending" => now < job[w].at + BridgeTimeout
  BY DEF Tick, Tables
<1>2. now \in Nat /\ \A w \in Schedulers : pc[w] = "sending" => job[w].at \in Nat
  BY NowIsInstant, InstantsAreNatural DEF TypeOK, Job
<1>3. OneSenderAtATime'
  BY <1>1 DEF OneSenderAtATime
<1>4. ASSUME NEW w \in Schedulers, pc'[w] = "sending"
      PROVE  job'[w].at <= now' /\ now' <= job'[w].at + BridgeTimeout
  BY <1>1, <1>2, <1>4, ConfigAssumption DEF SenderHolds
<1>5. SenderHolds'
  BY <1>1, <1>4 DEF SenderHolds, Holds, Pending, ScheduleOpen
<1> QED BY <1>3, <1>5

\* Every step leaves at most one text on its way, and its worker what it holds.
LEMMA SenderStep == SInv /\ [Next]_vars => OneSenderAtATime' /\ SenderHolds'
<1> SUFFICES ASSUME SInv, [Next]_vars PROVE OneSenderAtATime' /\ SenderHolds'
  OBVIOUS
<1>0. TypeOK /\ OneSenderAtATime
  BY DEF SInv, IInv
<1>1. ASSUME NEW w \in Schedulers,
             \/ LoadClaimed(w) \/ GeneratorAnswers(w) \/ GeneratorFails(w) \/ ReloadClaimed(w)
             \/ RefuseText(w) \/ DispatchFails(w) \/ SendFails(w) \/ DispatchUncertain(w)
             \/ Abandon(w)
      PROVE  OneSenderAtATime' /\ SenderHolds'
  <2>1. OthersStay(w)
    BY <1>0, <1>1, OthersStayPut DEF Step
  <2>2. pc'[w] \notin Locking
    BY <1>0, <1>1 DEF LoadClaimed, GeneratorAnswers, GeneratorFails, ReloadClaimed, RefuseText,
       DispatchFails, SendFails, DispatchUncertain, Abandon, AfterLoad, Return, Goto, Locking,
       TypeOK
  <2>3. UNCHANGED <<now, spaceActive, targetValid, schedule, deliveries>>
    BY <1>1 DEF LoadClaimed, GeneratorAnswers, GeneratorFails, ReloadClaimed, RefuseText,
       DispatchFails, SendFails, DispatchUncertain, Abandon, Environment, Tables
  <2> QED BY <2>1, <2>2, <2>3, SenderUntouched
<1>2. ASSUME NEW w \in Schedulers,
             \/ ClaimDue(w) \/ PrepareGeneration(w) \/ PersistGeneratedContent(w)
             \/ ReserveDeliveryAttempt(w) \/ RecordRetry(w) \/ FinishFailed(w)
             \/ CancelInvalidTarget(w)
      PROVE  OneSenderAtATime' /\ SenderHolds'
  <2>1. OthersStay(w)
    BY <1>0, <1>2, OthersStayPut DEF Step
  <2>2. Unlocked /\ pc'[w] \notin Locking
    BY <1>0, <1>2 DEF ClaimDue, PrepareGeneration, PersistGeneratedContent,
       ReserveDeliveryAttempt, RecordRetry, FinishFailed, CancelInvalidTarget, Return, Goto,
       Locking, TypeOK
  <2> QED BY <2>1, <2>2, NobodySends DEF OthersStay, Unlocked
<1>3. ASSUME NEW w \in Schedulers, FinalizeDispatch(w)
      PROVE  OneSenderAtATime' /\ SenderHolds'
  <2>1. OthersStay(w)
    BY <1>0, <1>3, OthersStayPut DEF Step
  <2>2. pc[w] \in Locking /\ pc'[w] \notin Locking
    BY <1>0, <1>3 DEF FinalizeDispatch, Return, Locking, TypeOK
  <2> QED BY <1>0, <2>1, <2>2, NobodySends DEF OthersStay, OneSenderAtATime
<1>4. ASSUME NEW w \in Schedulers, BeginDispatch(w) \/ BridgeAccepts(w)
      PROVE  OneSenderAtATime' /\ SenderHolds'
  BY <1>4, BeginDispatchHolds, BridgeAcceptsHolds
<1>5. CASE \/ Cancel \/ Unsubscribe \/ ArchiveSpace \/ ChangeTarget
           \/ \E e \in Editors : CommitUpdate(e)
  <2>1. Unlocked /\ UNCHANGED pc
    BY <1>5 DEF Cancel, Unsubscribe, Stop, ArchiveSpace, ChangeTarget, CommitUpdate
  <2> QED BY <2>1, NobodySends DEF Unlocked
<1>6. CASE (\E e \in Editors : ReadForUpdate(e)) \/ UNCHANGED vars
  <2>1. UNCHANGED <<now, spaceActive, targetValid, schedule, deliveries, pc, job>>
    BY <1>6 DEF ReadForUpdate, vars, Environment, Tables
  <2> QED BY <2>1 DEF SInv, OneSenderAtATime, SenderHolds, Holds, Pending, ScheduleOpen
<1>7. CASE Tick
  BY <1>7, TickHolds
<1> QED BY <1>1, <1>2, <1>3, <1>4, <1>5, <1>6, <1>7 DEF Next, Step

-----------------------------------------------------------------------------
(* What every step does to the budget *)

OnItsWay == {"dispatching", "sending"}

\* The bridge takes a text only from a worker that is sending, once.
LEMMA AcceptedStep ==
    ASSUME TypeOK, [Next]_vars
    PROVE  \/ UNCHANGED accepted
           \/ \E v \in Schedulers :
                 /\ pc[v] = "sending" /\ pc'[v] \notin OnItsWay /\ OthersStay(v)
                 /\ accepted' = [accepted EXCEPT ![job[v].id] = @ + 1]
                 /\ UNCHANGED <<schedule, deliveries>>
<1>1. ASSUME NEW v \in Schedulers, BridgeAccepts(v) \/ SendFails(v), accepted' # accepted
      PROVE  /\ pc[v] = "sending" /\ pc'[v] \notin OnItsWay /\ OthersStay(v)
             /\ accepted' = [accepted EXCEPT ![job[v].id] = @ + 1]
             /\ UNCHANGED <<schedule, deliveries>>
  <2>1. OthersStay(v)
    BY <1>1, OthersStayPut DEF Step
  <2>2. pc[v] = "sending" /\ pc'[v] \notin OnItsWay
    BY <1>1 DEF BridgeAccepts, SendFails, Goto, OnItsWay, TypeOK
  <2>3. /\ accepted' = [accepted EXCEPT ![job[v].id] = @ + 1]
        /\ UNCHANGED <<schedule, deliveries>>
    BY <1>1 DEF BridgeAccepts, SendFails, Tables
  <2> QED BY <2>1, <2>2, <2>3
<1>2. ASSUME NEW w \in Schedulers, ClaimDue(w) \/ Step(w) \/ Abandon(w),
             ~(BridgeAccepts(w) \/ SendFails(w))
      PROVE  UNCHANGED accepted
  BY <1>2 DEF Step, ClaimDue, LoadClaimed, PrepareGeneration, GeneratorAnswers, GeneratorFails,
     ReloadClaimed, PersistGeneratedContent, RefuseText, ReserveDeliveryAttempt, BeginDispatch,
     DispatchFails, FinalizeDispatch, DispatchUncertain, RecordRetry, FinishFailed,
     CancelInvalidTarget, Abandon
<1>3. CASE \/ Cancel \/ Unsubscribe \/ ArchiveSpace \/ ChangeTarget \/ Tick
           \/ \E e \in Editors : ReadForUpdate(e) \/ CommitUpdate(e)
           \/ UNCHANGED vars
  BY <1>3 DEF Cancel, Unsubscribe, Stop, ArchiveSpace, ChangeTarget, Tick, ReadForUpdate,
     CommitUpdate, vars
<1> QED BY <1>1, <1>2, <1>3 DEF Next

\* A worker on its way to the bridge was on its way before, or has just reserved an
\* attempt.
LEMMA OnItsWayStep ==
    ASSUME SInv, [Next]_vars, NEW w \in Schedulers, pc'[w] \in OnItsWay
    PROVE  \/ pc[w] \in OnItsWay /\ job'[w].id = job[w].id
           \/ /\ job[w].id \in Instants /\ job'[w].id = job[w].id
              /\ deliveries'[job[w].id].attempts = deliveries[job[w].id].attempts + 1
<1> USE DEF SInv, IInv
<1>1. ASSUME NEW v \in Schedulers, ClaimDue(v) \/ Step(v) \/ Abandon(v), v # w
      PROVE  pc[w] \in OnItsWay /\ job'[w] = job[w]
  BY <1>1, OthersStayPut DEF OthersStay
<1>2. CASE ReserveDeliveryAttempt(w)
  <2>1. /\ pc[w] = "reserving" /\ job[w] \in Job /\ job[w].id \in Instants
        /\ deliveries[job[w].id] \in Delivery
    BY <1>2 DEF ReserveDeliveryAttempt, TypeOK, Job
  <2>2. /\ deliveries' = [deliveries EXCEPT ![job[w].id] = Counted(@)]
        /\ job' = [job EXCEPT ![w].delivery.attempts = job[w].delivery.attempts + 1]
    BY <1>2, <2>1 DEF ReserveDeliveryAttempt, Return, Goto, OnItsWay, TypeOK
  <2>3. deliveries'[job[w].id].attempts = deliveries[job[w].id].attempts + 1
    BY <2>1, <2>2 DEF Counted, Delivery, TypeOK
  <2>4. job'[w].id = job[w].id
    BY <2>1, <2>2 DEF Job, TypeOK
  <2> QED BY <2>1, <2>3, <2>4
<1>3. CASE BeginDispatch(w)
  <2>1. pc[w] = "dispatching" /\ job[w] \in Job
    BY <1>3 DEF BeginDispatch, TypeOK
  <2>2. job' = [job EXCEPT ![w].at = now]
    BY <1>3 DEF BeginDispatch, Return, Goto, OnItsWay, TypeOK
  <2>3. job'[w].id = job[w].id
    BY <2>1, <2>2 DEF Job, TypeOK
  <2> QED BY <2>1, <2>3 DEF OnItsWay
<1>4. ASSUME ClaimDue(w) \/ Step(w) \/ Abandon(w), ~ReserveDeliveryAttempt(w), ~BeginDispatch(w)
      PROVE  FALSE
  BY <1>4 DEF Step, ClaimDue, LoadClaimed, AfterLoad, PrepareGeneration, GeneratorAnswers,
     GeneratorFails, ReloadClaimed, PersistGeneratedContent, RefuseText, BridgeAccepts,
     SendFails, DispatchFails, FinalizeDispatch, DispatchUncertain, RecordRetry, FinishFailed,
     CancelInvalidTarget, Abandon, Return, Goto, OnItsWay, TypeOK
<1>5. CASE \/ Cancel \/ Unsubscribe \/ ArchiveSpace \/ ChangeTarget \/ Tick
           \/ \E e \in Editors : ReadForUpdate(e) \/ CommitUpdate(e)
           \/ UNCHANGED vars
  BY <1>5 DEF Cancel, Unsubscribe, Stop, ArchiveSpace, ChangeTarget, Tick, ReadForUpdate,
     CommitUpdate, vars
<1> QED BY <1>1, <1>2, <1>3, <1>4, <1>5 DEF Next

\* A worker that is on its way and holds its row after a step that gave out no token
\* to it held the row before.
LEMMA HeldBefore ==
    ASSUME SInv, TablesKept, NEW w \in Schedulers,
           pc[w] \in OnItsWay, pc'[w] \in OnItsWay, job'[w].id = job[w].id, Holds(w)'
    PROVE  Holds(w) /\ job[w].id \in Instants
<1> DEFINE t == job[w].id
<1>1. t \in Instants
  BY DEF SInv, IInv, TypeOK, Job, OnItsWay
<1>2. deliveries'[t].token = w /\ TokenKept(t)
  BY <1>1 DEF Holds, TablesKept
<1>3. deliveries[t].token = w
  BY <1>2, ConfigAssumption DEF TokenKept, OnItsWay
<1>4. Pending(t)
  BY <1>1, <1>3, ConfigAssumption DEF SInv, LeaseShape
<1> QED BY <1>1, <1>3, <1>4 DEF Holds, OnItsWay

\* Every step keeps the books: what is taken was paid for.
LEMMA PaidStep == SInv /\ [Next]_vars => Paid'
<1> SUFFICES ASSUME SInv, [Next]_vars PROVE Paid'
  OBVIOUS
<1>0. TypeOK /\ Paid /\ SenderHolds /\ TablesKept
  BY StepKept DEF SInv, IInv
<1>1. ASSUME NEW t \in Instants
      PROVE  /\ deliveries[t].attempts <= deliveries'[t].attempts
             /\ accepted[t] \in Nat /\ deliveries[t].attempts \in Nat
             /\ deliveries'[t].attempts \in Nat
             /\ accepted[t] <= deliveries[t].attempts
  <2>1. TypeOK'
    BY Inductive DEF SInv, IInv
  <2>2. deliveries[t] \in Delivery /\ deliveries'[t] \in Delivery /\ accepted[t] \in Nat
    BY <1>0, <2>1 DEF TypeOK
  <2> QED BY <1>0, <2>2, ConfigAssumption DEF TablesKept, RowKept, Paid, Delivery
<1>2. \A t \in Instants : deliveries'[t].status = "ABSENT" => deliveries'[t].attempts = 0
  BY <1>0 DEF TablesKept, RowKept
<1>3. ASSUME NEW w \in Schedulers, Holds(w)', pc'[w] \in OnItsWay
      PROVE  /\ job'[w].id = job[w].id /\ job[w].id \in Instants
             /\ accepted[job[w].id] < deliveries'[job[w].id].attempts
             /\ pc[w] \in OnItsWay => Holds(w)
  <2>1. CASE pc[w] \in OnItsWay /\ job'[w].id = job[w].id
    <3>1. Holds(w) /\ job[w].id \in Instants
      BY <1>0, <1>3, <2>1, HeldBefore
    <3>2. accepted[job[w].id] < deliveries[job[w].id].attempts
      BY <1>0, <2>1, <3>1 DEF Paid, OnItsWay
    <3> QED BY <1>1, <2>1, <3>1, <3>2
  <2>2. CASE /\ job[w].id \in Instants /\ job'[w].id = job[w].id
             /\ deliveries'[job[w].id].attempts = deliveries[job[w].id].attempts + 1
    <3>1. accepted[job[w].id] < deliveries'[job[w].id].attempts
      BY <1>1, <2>2
    <3>2. pc[w] \in OnItsWay => Holds(w)
      BY <1>0, <1>3, <2>2, HeldBefore
    <3> QED BY <2>2, <3>1, <3>2
  <2> QED BY <1>3, <2>1, <2>2, OnItsWayStep
<1>4. CASE UNCHANGED accepted
  <2>1. \A t \in Instants : accepted'[t] <= deliveries'[t].attempts
    BY <1>1, <1>4
  <2> QED BY <1>2, <1>3, <1>4, <2>1 DEF Paid, OnItsWay
<1>5. ASSUME NEW v \in Schedulers,
             pc[v] = "sending", pc'[v] \notin OnItsWay, OthersStay(v),
             accepted' = [accepted EXCEPT ![job[v].id] = @ + 1],
             UNCHANGED <<schedule, deliveries>>
      PROVE  Paid'
  <2>1. job[v].id \in Instants
    BY <1>0, <1>5 DEF TypeOK, Job
  <2>2. Holds(v)
    BY <1>0, <1>5 DEF SenderHolds, Locking
  <2>3. accepted[job[v].id] < deliveries[job[v].id].attempts
    BY <1>0, <1>5, <2>2 DEF Paid
  <2>4. ASSUME NEW t \in Instants PROVE accepted'[t] <= deliveries'[t].attempts
    BY <1>0, <1>1, <1>5, <2>1, <2>3 DEF TypeOK
  <2>5. ASSUME NEW w \in Schedulers, Holds(w)', pc'[w] \in OnItsWay
        PROVE  accepted'[job'[w].id] < deliveries'[job'[w].id].attempts
    <3>1. w # v /\ pc[w] \in OnItsWay
      BY <1>5, <2>5 DEF OthersStay
    <3>2. job[w].id # job[v].id
      BY <1>3, <2>2, <2>5, <3>1 DEF Holds
    <3>3. accepted'[job[w].id] = accepted[job[w].id]
      BY <1>0, <1>5, <3>2 DEF TypeOK
    <3> QED BY <1>3, <2>5, <3>3
  <2> QED BY <1>2, <2>4, <2>5 DEF Paid, OnItsWay
<1> QED BY <1>0, <1>4, <1>5, AcceptedStep

-----------------------------------------------------------------------------
(* The theorems *)

\* A schedule is created with no lease, no worker at work and nothing taken.
LEMMA SInitial == Init => SInv
<1> SUFFICES ASSUME Init PROVE SInv
  OBVIOUS
<1>1. IInv
  BY Initial
<1>2. ASSUME NEW t \in Instants
      PROVE deliveries[t].attempts = 0 /\ deliveries[t].token = Nil /\ accepted[t] = 0
  <2>1. PICK start, mode : deliveries[t] \in {NewDelivery(start, mode), NoDelivery}
    BY DEF Init
  <2>2. NoDelivery.attempts = 0 /\ NoDelivery.token = Nil
    BY DEF NoDelivery
  <2>3. NewDelivery(start, mode).attempts = 0 /\ NewDelivery(start, mode).token = Nil
    BY DEF NewDelivery, NoDelivery
  <2>4. accepted[t] = 0
    BY DEF Init
  <2> QED BY <2>1, <2>2, <2>3, <2>4
<1>3. \A w \in Schedulers : pc[w] = "idle"
  BY DEF Init
<1> QED BY <1>1, <1>2, <1>3 DEF SInv, LeaseShape, OneSenderAtATime, SenderHolds, Paid, Holds,
        Locking

\* Every step keeps the strengthened invariant.
LEMMA SInductive == SInv /\ [Next]_vars => SInv'
<1> SUFFICES ASSUME SInv, [Next]_vars PROVE SInv'
  OBVIOUS
<1>1. IInv'
  BY Inductive DEF SInv
<1>2. LeaseShape'
  BY StepKept DEF TablesKept, RowKept, LeaseShape, Pending
<1>3. OneSenderAtATime' /\ SenderHolds' /\ Paid'
  BY SenderStep, PaidStep
<1> QED BY <1>1, <1>2, <1>3 DEF SInv

\* The strengthened invariant holds in every reachable state.
THEOREM SInvariance == Spec => []SInv
  BY SInitial, SInductive, PTL DEF Spec

\* Two processes never have the schedule's text on its way at the same time.
THEOREM OneSender == Spec => []OneSenderAtATime
<1>1. SInv => OneSenderAtATime
  BY DEF SInv
<1> QED BY <1>1, SInvariance, PTL

\* Every text the bridge takes was paid for by an attempt counted beforehand, and the
\* attempts stay within the budget.
THEOREM BudgetCoversSends == Spec => []AttemptsCoverSends
<1>1. SInv => AttemptsCoverSends
  <2> SUFFICES ASSUME SInv, NEW t \in Instants
               PROVE  accepted[t] <= deliveries[t].attempts
                      /\ deliveries[t].attempts <= MaxDeliveries
    BY DEF AttemptsCoverSends
  <2>1. deliveries[t].attempts \in 0..MaxDeliveries
    BY DEF SInv, IInv, TypeOK, Delivery
  <2> QED BY <2>1, ConfigAssumption DEF SInv, Paid
<1> QED BY <1>1, SInvariance, PTL

\* The lease checked before the bridge is called is still there when it has answered.
THEOREM LeaseOutlives == Spec => []LeaseOutlivesSend
<1>1. SInv => LeaseOutlivesSend
  <2> SUFFICES ASSUME SInv, NEW w \in Schedulers, pc[w] \in Locking
               PROVE  OwnsClaim(w, job[w].at)
    BY DEF LeaseOutlivesSend
  <2>1. Holds(w) /\ job[w] \in Job
    BY DEF SInv, IInv, SenderHolds, TypeOK, Locking
  <2>2. deliveries[job[w].id].until \in Nat /\ job[w].at \in Nat
    BY <2>1, InstantsAreNatural, ConfigAssumption DEF SInv, LeaseShape, Holds, Job
  <2>3. deliveries[job[w].id].until > job[w].at
    BY <2>2, ConfigAssumption DEF SInv, SenderHolds, Locking
  <2> QED BY <2>1, <2>3 DEF OwnsClaim, Holds, Pending
<1> QED BY <1>1, SInvariance, PTL

\* A row that was sent, skipped or failed never changes again, and a schedule that has
\* ended stays as it ended, whatever request or worker comes late.
THEOREM FinalHistory == Spec => HistoryIsFinal
<1> DEFINE Kept ==
      /\ \A t \in Instants :
            deliveries[t].status \in {"SENT", "SKIPPED", "FAILED"}
                => deliveries'[t] = deliveries[t]
      /\ schedule.status # "ACTIVE" => schedule' = schedule
<1>1. SInv /\ [Next]_vars => [Kept]_vars
  <2>1. TablesKept => Kept
    BY DEF TablesKept, RowKept, Ended
  <2> HIDE DEF Kept
  <2> QED BY <2>1, StepKept
<1>2. HistoryIsFinal <=> [][Kept]_vars
  BY DEF HistoryIsFinal
<1> HIDE DEF Kept
<1> QED BY <1>1, <1>2, SInvariance, PTL DEF Spec

\* A text leaves only while schedule, space, target and lease are all in force, and it
\* is the text the row has: no request that has committed is ever ignored.
THEOREM LiveSends == Spec => SendsOnlyWhileLive
<1> DEFINE Live ==
      \A w \in Schedulers, t \in Instants :
          accepted'[t] # accepted[t] /\ pc[w] = "sending" =>
              /\ ScheduleOpen /\ targetValid
              /\ schedule.nextAt = t
              /\ OwnsClaim(w, now)
              /\ job[w].delivery.snapshot = deliveries[t].snapshot
<1>1. SInv /\ [Next]_vars => [Live]_vars
  <2> SUFFICES ASSUME SInv, [Next]_vars, NEW w \in Schedulers, NEW t \in Instants,
                      accepted'[t] # accepted[t], pc[w] = "sending"
               PROVE  /\ ScheduleOpen /\ targetValid
                      /\ schedule.nextAt = t
                      /\ OwnsClaim(w, now)
                      /\ job[w].delivery.snapshot = deliveries[t].snapshot
    OBVIOUS
  <2>0. TypeOK /\ SenderHolds /\ OneSenderAtATime /\ OneOutstandingOccurrence
        /\ ClaimedCopyIsCurrent /\ LeaseShape
    BY DEF SInv, IInv
  <2>1. PICK v \in Schedulers :
          pc[v] = "sending" /\ accepted' = [accepted EXCEPT ![job[v].id] = @ + 1]
    BY <2>0, AcceptedStep
  <2>2. v = w
    BY <2>0, <2>1 DEF OneSenderAtATime, Locking
  <2>3. t = job[w].id
    BY <2>0, <2>1, <2>2 DEF TypeOK
  <2>4. Holds(w) /\ ScheduleOpen /\ targetValid
    BY <2>0 DEF SenderHolds, Locking
  <2>5. schedule.nextAt = t
    BY <2>0, <2>3, <2>4 DEF Holds, OneOutstandingOccurrence
  <2>6. job[w].delivery.snapshot = deliveries[t].snapshot
    BY <2>0, <2>3, <2>4 DEF ClaimedCopyIsCurrent
  <2>7. deliveries[t].until > now
    <3>1. deliveries[t].until \in Nat
      BY <2>0, <2>3, <2>4, ConfigAssumption DEF Holds, LeaseShape
    <3>2. now <= job[w].at + BridgeTimeout /\ deliveries[t].until > job[w].at + BridgeTimeout
      BY <2>0, <2>3 DEF SenderHolds
    <3>3. now \in Nat /\ job[w].at \in Nat /\ BridgeTimeout \in Nat
      BY <2>0, NowIsInstant, InstantsAreNatural, ConfigAssumption DEF TypeOK, Job
    <3> QED BY <3>1, <3>2, <3>3
  <2> QED BY <2>3, <2>4, <2>5, <2>6, <2>7 DEF OwnsClaim, Holds, Pending
<1>2. SendsOnlyWhileLive <=> [][Live]_vars
  BY DEF SendsOnlyWhileLive
<1> HIDE DEF Live
<1> QED BY <1>1, <1>2, SInvariance, PTL DEF Spec

-----------------------------------------------------------------------------
(* Giving up on a text *)

\* With a generator, a worker gives up on a text only with the budget spent on its copy.
GaveUpSpent ==
    HasGenerator =>
        \A w \in Schedulers :
            pc[w] = "generationFailed" => job[w].delivery.generations = MaxGenerations

\* The three ways into "generationFailed": without a generator, with nothing left to
\* reserve, and with the last attempt failed.
LEMMA GaveUpStep == SInv /\ GaveUpSpent /\ [Next]_vars => GaveUpSpent'
<1> SUFFICES ASSUME SInv, GaveUpSpent, [Next]_vars, HasGenerator, NEW w \in Schedulers,
                    pc'[w] = "generationFailed"
             PROVE  job'[w].delivery.generations = MaxGenerations
  BY DEF GaveUpSpent
<1>0. TypeOK /\ ClaimedCopyIsCurrent
  BY DEF SInv, IInv
<1>1. CASE pc'[w] = pc[w] /\ job'[w] = job[w]
  BY <1>1 DEF GaveUpSpent
<1>2. ASSUME NEW v \in Schedulers, ClaimDue(v) \/ Step(v) \/ Abandon(v)
      PROVE  job'[w].delivery.generations = MaxGenerations
  <2>1. CASE v # w
    BY <1>0, <1>1, <1>2, <2>1, OthersStayPut DEF OthersStay
  <2>2. CASE v = w /\ PrepareGeneration(w)
    <3> DEFINE t == job[w].id
    <3>1. pc[w] = "preparing" /\ job[w] \in Job /\ deliveries[t] \in Delivery
      BY <1>0, <2>2 DEF PrepareGeneration, TypeOK, Job
    <3>2. /\ OwnsLease(w) /\ Exhausted(deliveries[t].generations, MaxGenerations)
          /\ UNCHANGED job
      BY <1>0, <2>2, <3>1 DEF PrepareGeneration, Return, Goto, TypeOK
    <3>3. job[w].delivery = deliveries[t]
      BY <1>0, <3>1, <3>2 DEF ClaimedCopyIsCurrent, Holds, OwnsLease, OwnsClaim, Pending
    <3>4. deliveries[t].generations \in 0..MaxGenerations
      BY <3>1 DEF Delivery
    <3> QED BY <3>2, <3>3, <3>4, ConfigAssumption DEF Exhausted
  <2>3. CASE v = w /\ GeneratorFails(w)
    <3>1. job[w] \in Job /\ job[w].delivery \in Delivery
      BY <1>0, <2>3 DEF GeneratorFails, TypeOK, Job
    <3>2. job' = [job EXCEPT ![w].at = 0] /\ ~ MayRetry(job[w].delivery.generations, MaxGenerations)
      BY <1>0, <2>3 DEF GeneratorFails, Goto, TypeOK
    <3>3. job'[w].delivery = job[w].delivery
      BY <1>0, <3>1, <3>2 DEF TypeOK, Job
    <3>4. job[w].delivery.generations \in 0..MaxGenerations
      BY <3>1 DEF Delivery
    <3> QED BY <3>2, <3>3, <3>4, ConfigAssumption DEF MayRetry
  <2>4. CASE v = w /\ (LoadClaimed(w) \/ ReloadClaimed(w))
    BY <1>0, <2>4 DEF LoadClaimed, ReloadClaimed, AfterLoad, Return, Goto, TypeOK
  <2>5. CASE v = w /\ ( \/ ClaimDue(w) \/ PersistGeneratedContent(w) \/ ReserveDeliveryAttempt(w)
                        \/ GeneratorAnswers(w) \/ RefuseText(w) \/ BeginDispatch(w)
                        \/ BridgeAccepts(w) \/ SendFails(w) \/ DispatchFails(w) )
    BY <1>0, <2>5 DEF ClaimDue, PersistGeneratedContent, ReserveDeliveryAttempt,
       GeneratorAnswers, RefuseText, BeginDispatch, BridgeAccepts, SendFails, DispatchFails,
       Return, Goto, TypeOK
  <2>6. CASE v = w /\ ( \/ FinalizeDispatch(w) \/ DispatchUncertain(w) \/ RecordRetry(w)
                        \/ FinishFailed(w) \/ CancelInvalidTarget(w) \/ Abandon(w) )
    <3>1. Return(w)
      BY <2>6 DEF FinalizeDispatch, DispatchUncertain, RecordRetry, FinishFailed,
         CancelInvalidTarget, Abandon
    <3> QED BY <1>0, <3>1 DEF Return, TypeOK
  <2> QED BY <1>2, <2>1, <2>2, <2>3, <2>4, <2>5, <2>6 DEF Step
<1>3. CASE \/ \E e \in Editors : ReadForUpdate(e) \/ CommitUpdate(e)
           \/ Cancel \/ Unsubscribe \/ ArchiveSpace \/ ChangeTarget \/ Tick \/ UNCHANGED vars
  BY <1>1, <1>3 DEF ReadForUpdate, CommitUpdate, Cancel, Unsubscribe, Stop, ArchiveSpace,
     ChangeTarget, Tick, vars
<1> QED BY <1>2, <1>3 DEF Next

\* What a finishing step writes to the row it ends, and to the others.
LEMMA FinalizedRows ==
    ASSUME NEW t \in Instants, NEW status, NEW left, NEW next, NEW mode,
           deliveries[t] \in Delivery,
           FinalizeOccurrence(t, status, left, next, mode), NEW u \in Instants
    PROVE  \/ /\ u = t /\ deliveries'[u].status = status
              /\ deliveries'[u].generations = deliveries[u].generations
           \/ u = next /\ deliveries'[u].status = "PENDING"
           \/ deliveries'[u] = deliveries[u]
<1>1. CASE u = t
  <2>1. deliveries'[u] = [ ReleaseLease(deliveries[t]) EXCEPT
                              !.status = status, !.nextAttempt = Nil ]
    BY <1>1 DEF FinalizeOccurrence
  <2> QED BY <1>1, <2>1 DEF ReleaseLease, Delivery
<1>2. CASE u # t /\ u = next
  <2>1. deliveries'[u] = NewDelivery(next, mode)
    BY <1>2 DEF FinalizeOccurrence
  <2> QED BY <1>2, <2>1 DEF NewDelivery, NoDelivery
<1>3. CASE u # t /\ u # next
  BY <1>3 DEF FinalizeOccurrence
<1> QED BY <1>1, <1>2, <1>3

\* Nobody skips an occurrence but a worker that gave up on its text, under its lease.
LEMMA WhoSkips ==
    ASSUME SInv, [Next]_vars, NEW t \in Instants, deliveries'[t].status = "SKIPPED",
           deliveries[t].status # "SKIPPED"
    PROVE  \E w \in Schedulers :
              /\ pc[w] = "generationFailed" /\ OwnsLease(w) /\ t = job[w].id
              /\ deliveries'[t].generations = deliveries[t].generations
<1>0. TypeOK /\ deliveries[t] \in Delivery
  BY DEF SInv, IInv, TypeOK
<1>1. ASSUME NEW w \in Schedulers, FinishFailed(w)
      PROVE  /\ pc[w] = "generationFailed" /\ OwnsLease(w) /\ t = job[w].id
             /\ deliveries'[t].generations = deliveries[t].generations
  <2>1. /\ pc[w] \in {"generationFailed", "deliveryFailed"} /\ job[w] \in Job
        /\ job[w].id \in Instants /\ deliveries[job[w].id] \in Delivery
    BY <1>0, <1>1 DEF FinishFailed, TypeOK, Job
  <2>2. PICK status, left, next, mode :
          /\ OwnsLease(w)
          /\ status = "SKIPPED" => pc[w] = "generationFailed"
          /\ FinalizeOccurrence(job[w].id, status, left, next, mode)
    BY <1>1 DEF FinishFailed, Tables
  <2> QED BY <2>1, <2>2, FinalizedRows
<1>2. ASSUME NEW w \in Schedulers, FinalizeDispatch(w) \/ CancelInvalidTarget(w) PROVE FALSE
  <2>1. /\ job[w] \in Job /\ job[w].id \in Instants /\ deliveries[job[w].id] \in Delivery
    BY <1>0, <1>2 DEF FinalizeDispatch, CancelInvalidTarget, TypeOK, Job
  <2>2. PICK status, left, next, mode :
          /\ status \in {"SENT", "CANCELLED"}
          /\ FinalizeOccurrence(job[w].id, status, left, next, mode)
    BY <1>2 DEF FinalizeDispatch, CancelInvalidTarget, Tables
  <2> QED BY <2>1, <2>2, FinalizedRows
<1>3. ASSUME NEW w \in Schedulers, RecordRetry(w) PROVE FALSE
  <2>1. /\ job[w] \in Job /\ job[w].id \in Instants /\ deliveries[job[w].id] \in Delivery
        /\ pc[w] \in {"generationRetry", "deliveryRetry"}
    BY <1>0, <1>3 DEF RecordRetry, TypeOK, Job
  <2>2. PICK at : /\ OwnsLease(w)
                  /\ deliveries' = [deliveries EXCEPT ![job[w].id] =
                        [ ReleaseLease(job[w].delivery) EXCEPT !.nextAttempt = at ]]
    BY <1>3 DEF RecordRetry, Tables
  <2>3. job[w].delivery = deliveries[job[w].id] /\ Pending(job[w].id)
    BY <2>1, <2>2 DEF SInv, IInv, ClaimedCopyIsCurrent, Holds, OwnsLease, OwnsClaim, Pending
  <2>4. t = job[w].id /\ deliveries'[t] = [ ReleaseLease(deliveries[t]) EXCEPT !.nextAttempt = at ]
    BY <1>0, <2>1, <2>2, <2>3 DEF TypeOK
  <2> QED BY <1>0, <2>3, <2>4 DEF ReleaseLease, Delivery, Pending
<1>4. ASSUME NEW w \in Schedulers,
             \/ ClaimDue(w) \/ PrepareGeneration(w) \/ PersistGeneratedContent(w)
             \/ ReserveDeliveryAttempt(w)
      PROVE  FALSE
  <2>1. \/ UNCHANGED deliveries
        \/ \E u \in Instants : \E e : /\ deliveries' = [deliveries EXCEPT ![u] = e]
                                      /\ u = t => e.status = deliveries[u].status
    <3>1. CASE ClaimDue(w)
      <4>1. PICK tick \in Instants, u \in Instants :
              deliveries' = [deliveries EXCEPT ![u] =
                 [ deliveries[u] EXCEPT !.token = w, !.until = tick + Lease ]]
        BY <3>1 DEF ClaimDue
      <4> QED BY <1>0, <4>1 DEF Delivery
    <3>2. CASE \/ PrepareGeneration(w) \/ PersistGeneratedContent(w)
               \/ ReserveDeliveryAttempt(w)
      <4>1. job[w] \in Job /\ job[w].id \in Instants
        BY <1>0, <3>2 DEF PrepareGeneration, PersistGeneratedContent, ReserveDeliveryAttempt,
           TypeOK, Job
      <4>2. \/ UNCHANGED deliveries
            \/ \E e : /\ deliveries' = [deliveries EXCEPT ![job[w].id] = e]
                      /\ \/ e = [deliveries[job[w].id] EXCEPT !.generations = @ + 1]
                         \/ e = [deliveries[job[w].id] EXCEPT !.snapshot = "generated"]
                         \/ e = [deliveries[job[w].id] EXCEPT !.attempts = @ + 1]
        BY <3>2 DEF PrepareGeneration, PersistGeneratedContent, ReserveDeliveryAttempt, Counted
      <4> QED BY <1>0, <4>1, <4>2 DEF Delivery
    <3> QED BY <1>4, <3>1, <3>2
  <2> QED BY <1>0, <2>1 DEF TypeOK
<1>5. CASE Cancel \/ Unsubscribe \/ \E e \in Editors : CommitUpdate(e)
  <2>1. \/ UNCHANGED deliveries
        \/ deliveries'[t] = Withdrawn(deliveries[t])
        \/ \E text : deliveries'[t] = Revived(deliveries[t], t, text)
    BY <1>5 DEF Cancel, Unsubscribe, Stop, CommitUpdate, Tables
  <2> QED BY <1>0, <2>1 DEF Withdrawn, Revived, ReleaseLease, Delivery
<1>6. ASSUME NEW w \in Schedulers,
             \/ LoadClaimed(w) \/ GeneratorAnswers(w) \/ GeneratorFails(w) \/ ReloadClaimed(w)
             \/ RefuseText(w) \/ BeginDispatch(w) \/ BridgeAccepts(w) \/ SendFails(w)
             \/ DispatchFails(w) \/ DispatchUncertain(w) \/ Abandon(w)
      PROVE  FALSE
  BY <1>6 DEF LoadClaimed, GeneratorAnswers, GeneratorFails, ReloadClaimed, RefuseText,
     BeginDispatch, BridgeAccepts, SendFails, DispatchFails, DispatchUncertain, Abandon, Tables
<1>7. CASE \/ \E e \in Editors : ReadForUpdate(e)
           \/ ArchiveSpace \/ ChangeTarget \/ Tick \/ UNCHANGED vars
  BY <1>7 DEF ReadForUpdate, ArchiveSpace, ChangeTarget, Tick, vars, Tables
<1> QED BY <1>1, <1>2, <1>3, <1>4, <1>5, <1>6, <1>7 DEF Next, Step

\* A recurring occurrence is skipped only with its whole generation budget spent, be the
\* attempts spread over crashes, lost leases, retries and reused rows.
THEOREM SkipsSpendTheBudget == Spec => []SkippedAfterWholeBudget
<1> DEFINE Skips == GaveUpSpent /\ SkippedAfterWholeBudget
<1>1. Init => Skips
  BY NoDeliveryType DEF Init, GaveUpSpent, SkippedAfterWholeBudget, NewDelivery, NoDelivery
<1>2. SInv /\ Skips /\ [Next]_vars => Skips'
  <2> SUFFICES ASSUME SInv, Skips, [Next]_vars, HasGenerator, NEW t \in Instants,
                      deliveries'[t].status = "SKIPPED"
               PROVE  deliveries'[t].generations = MaxGenerations
    BY GaveUpStep DEF SkippedAfterWholeBudget
  <2>1. CASE deliveries[t].status = "SKIPPED"
    <3>1. deliveries'[t] = deliveries[t]
      BY <2>1, StepKept DEF TablesKept, RowKept, Ended
    <3> QED BY <2>1, <3>1 DEF SkippedAfterWholeBudget
  <2>2. CASE deliveries[t].status # "SKIPPED"
    <3>1. PICK w \in Schedulers :
            /\ pc[w] = "generationFailed" /\ OwnsLease(w) /\ t = job[w].id
            /\ deliveries'[t].generations = deliveries[t].generations
      BY <2>2, WhoSkips
    <3>2. job[w].delivery = deliveries[t]
      BY <3>1 DEF SInv, IInv, ClaimedCopyIsCurrent, Holds, OwnsLease, OwnsClaim, Pending
    <3> QED BY <3>1, <3>2 DEF GaveUpSpent
  <2> QED BY <2>1, <2>2
<1>3. Skips => SkippedAfterWholeBudget
  OBVIOUS
<1> HIDE DEF Skips
<1> QED BY <1>1, <1>2, <1>3, SInvariance, PTL DEF Spec
=============================================================================
