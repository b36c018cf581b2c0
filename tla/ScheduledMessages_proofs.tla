----------------------- MODULE ScheduledMessages_proofs -----------------------
(* Proofs of the safety of ScheduledMessages, for any number of schedulers and
   editors, any budgets, time-outs and zone.                                *)
EXTENDS ScheduledMessages, Recurrence_proofs

-----------------------------------------------------------------------------
(* Scheduled messages: the invariant *)

\* The inductive invariant: the copies workers hold must be current for a retry's
\* write-back to keep one outstanding occurrence, and that is what makes the next
\* update's reading of next_scheduled_at well typed.
IInv == TypeOK /\ OneOutstandingOccurrence /\ ClaimedCopyIsCurrent

-----------------------------------------------------------------------------
(* What the operators on a row return *)

\* Instants are points of the clock, counted from 0.
LEMMA InstantsAreNatural == Instants \subseteq Nat
  BY CalendarAssumption DEF Instants

\* The clock stays within the calendar.
LEMMA NowIsInstant == TypeOK => now \in Instants /\ 0 \in Instants
  BY CalendarAssumption, ConfigAssumption DEF TypeOK, Instants

\* A row that does not exist carries no lease.
LEMMA NoDeliveryType ==
    NoDelivery \in Delivery /\ NoDelivery.status = "ABSENT" /\ NoDelivery.token = Nil
  BY ConfigAssumption DEF NoDelivery, Delivery

\* An inserted row is pending and carries no lease.
LEMMA NewDeliveryType ==
    ASSUME NEW at \in Instants, NEW mode \in {"FIXED", "AI"}
    PROVE  /\ NewDelivery(at, mode) \in Delivery
           /\ NewDelivery(at, mode).status = "PENDING"
           /\ NewDelivery(at, mode).token = Nil
<1>1. at \in Nat /\ Snapshot(mode) \in Texts \union {Nil}
  BY InstantsAreNatural DEF Snapshot, Texts
<1> QED BY <1>1, NoDeliveryType DEF NewDelivery, Delivery, DeliveryStatuses

\* Releasing a lease keeps the row's type and status.
LEMMA ReleaseLeaseType ==
    ASSUME NEW d \in Delivery
    PROVE  /\ ReleaseLease(d) \in Delivery
           /\ ReleaseLease(d).status = d.status /\ ReleaseLease(d).token = Nil
  BY DEF ReleaseLease, Delivery

\* A row that an update reuses is pending and carries no lease.
LEMMA RevivedType ==
    ASSUME NEW d \in Delivery, NEW at \in Instants, NEW text \in Texts \union {Nil}
    PROVE  /\ Revived(d, at, text) \in Delivery
           /\ Revived(d, at, text).status = "PENDING" /\ Revived(d, at, text).token = Nil
  BY InstantsAreNatural DEF Revived, ReleaseLease, Delivery, DeliveryStatuses

\* A row that a request withdraws is not pending.
LEMMA WithdrawnType ==
    ASSUME NEW d \in Delivery
    PROVE  Withdrawn(d) \in Delivery /\ Withdrawn(d).status # "PENDING"
  BY DEF Withdrawn, ReleaseLease, Delivery, DeliveryStatuses

-----------------------------------------------------------------------------

\* The first occurrence a create commits is the one outstanding.
THEOREM Initial == Init => IInv
<1> SUFFICES ASSUME Init PROVE IInv
  OBVIOUS
<1> USE DEF Init
<1>1. PICK rule \in InitialRules, mode \in InitialModes, start \in StartTimes :
        /\ schedule = [ status |-> "ACTIVE", recurrence |-> rule, startAt |-> start,
                        nextAt |-> start, mode |-> mode ]
        /\ deliveries = [ t \in Instants |->
              IF t = start THEN NewDelivery(t, mode) ELSE NoDelivery ]
  OBVIOUS
<1>2. rule \in Rules /\ mode \in {"FIXED", "AI"} /\ start \in Instants
  BY ConfigAssumption
<1>3. schedule \in Schedule /\ start # Nil
  BY <1>1, <1>2, CalendarAssumption DEF Schedule, ScheduleStatuses, Instants
<1>4. deliveries \in [Instants -> Delivery]
  BY <1>1, <1>2, NewDeliveryType, NoDeliveryType
<1>5. TypeOK
  BY <1>3, <1>4, ConfigAssumption DEF TypeOK, Instants, Places
<1>6. OneOutstandingOccurrence
  BY <1>1, <1>2, <1>3, NewDeliveryType, NoDeliveryType DEF OneOutstandingOccurrence, Pending
<1>7. ClaimedCopyIsCurrent
  BY DEF ClaimedCopyIsCurrent, Holds
<1> QED BY <1>5, <1>6, <1>7 DEF IInv

-----------------------------------------------------------------------------
(* One lemma for each kind of step *)

\* The part of the type invariant that speaks of workers.
JobsTyped ==
    /\ pc \in [Schedulers -> Places]
    /\ job \in [Schedulers -> Job \union {Nil}]
    /\ \A w \in Schedulers :
          /\ pc[w] # "idle" => job[w] \in Job
          /\ pc[w] \notin {"idle", "claimed"} => job[w].schedule \in Schedule

OthersStay(w) == \A v \in Schedulers \ {w} : pc'[v] = pc[v] /\ job'[v] = job[v]

\* A worker that returns holds nothing; the others keep what they hold.
LEMMA ReturnTyped ==
    ASSUME TypeOK, NEW w \in Schedulers, Return(w)
    PROVE  JobsTyped' /\ OthersStay(w) /\ pc'[w] = "idle"
<1>1. pc' \in [Schedulers -> Places] /\ job' \in [Schedulers -> Job \union {Nil}]
  BY DEF TypeOK, Return, Places
<1> QED BY <1>1 DEF TypeOK, Return, JobsTyped, OthersStay

\* A worker that moves on holds a well-typed job; the others keep what they hold.
LEMMA MoveTyped ==
    ASSUME TypeOK, NEW w \in Schedulers, NEW place \in Places, NEW held \in Job,
           pc' = [pc EXCEPT ![w] = place], job' = [job EXCEPT ![w] = held],
           place \in {"idle", "claimed"} \/ held.schedule \in Schedule
    PROVE  JobsTyped' /\ OthersStay(w) /\ pc'[w] = place /\ job'[w] = held
<1>1. pc' \in [Schedulers -> Places] /\ job' \in [Schedulers -> Job \union {Nil}]
  BY DEF TypeOK
<1> QED BY <1>1 DEF TypeOK, JobsTyped, OthersStay

\* A step that leaves the tables alone, and in which a worker w moves without a
\* change to what it holds, keeps the relations between rows and copies.
LEMMA MoveKeepsRelations ==
    ASSUME IInv, NEW w \in Schedulers, UNCHANGED <<schedule, deliveries>>,
           OthersStay(w),
           \/ pc'[w] \in {"idle", "claimed"}
           \/ /\ pc[w] \notin {"idle", "claimed"}
              /\ job'[w].id = job[w].id /\ job'[w].delivery = job[w].delivery
              /\ job'[w].schedule = job[w].schedule
           \/ /\ job'[w].delivery = deliveries[job'[w].id] /\ job'[w].schedule = schedule
    PROVE  OneOutstandingOccurrence' /\ ClaimedCopyIsCurrent'
<1>1. OneOutstandingOccurrence'
  BY DEF IInv, OneOutstandingOccurrence, Pending
<1>2. ASSUME NEW v \in Schedulers, Holds(v)'
      PROVE  job'[v].delivery = deliveries'[job'[v].id] /\ job'[v].schedule = schedule'
  <2>1. CASE v # w
    BY <1>2, <2>1 DEF IInv, ClaimedCopyIsCurrent, Holds, Pending, OthersStay
  <2>2. CASE v = w
    BY <1>2, <2>2 DEF IInv, ClaimedCopyIsCurrent, Holds, Pending
  <2> QED BY <2>1, <2>2
<1> QED BY <1>1, <1>2 DEF ClaimedCopyIsCurrent

\* A worker that holds its row changes the row and its own copy alike, or changes
\* the row and returns.
LEMMA OwnRowKeepsRelations ==
    ASSUME IInv, NEW w \in Schedulers, Holds(w), UNCHANGED schedule, OthersStay(w),
           NEW d \in Delivery, d.status = "PENDING", d.token \in {w, Nil},
           deliveries' = [deliveries EXCEPT ![job[w].id] = d],
           \/ pc'[w] = "idle"
           \/ /\ job'[w].id = job[w].id /\ job'[w].delivery = d
              /\ job'[w].schedule = job[w].schedule
    PROVE  OneOutstandingOccurrence' /\ ClaimedCopyIsCurrent'
<1> USE DEF IInv, Holds, Pending
<1>1. job[w] \in Job /\ job[w].id \in Instants /\ deliveries'[job[w].id] = d
  BY DEF TypeOK, Job
<1>2. OneOutstandingOccurrence'
  BY <1>1 DEF OneOutstandingOccurrence, TypeOK
<1>3. ASSUME NEW v \in Schedulers, Holds(v)'
      PROVE  job'[v].delivery = deliveries'[job'[v].id] /\ job'[v].schedule = schedule'
  <2>1. CASE v = w
    BY <1>1, <1>3, <2>1 DEF ClaimedCopyIsCurrent
  <2>2. CASE v # w
    <3>1. pc'[v] = pc[v] /\ job'[v] = job[v] /\ job[v] \in Job
      BY <1>3, <2>2 DEF OthersStay, TypeOK
    <3>2. CASE job[v].id = job[w].id
      BY <1>1, <1>3, <2>2, <3>1, <3>2, ConfigAssumption
    <3>3. CASE job[v].id # job[w].id
      BY <1>1, <1>3, <3>1, <3>3 DEF ClaimedCopyIsCurrent, TypeOK, Job
    <3> QED BY <3>2, <3>3
  <2> QED BY <2>1, <2>2
<1> QED BY <1>2, <1>3 DEF ClaimedCopyIsCurrent

\* ClaimDue writes a token over a lease that is free or has run out.
LEMMA ClaimDueStep ==
    ASSUME IInv, NEW w \in Schedulers, ClaimDue(w)
    PROVE  IInv'
<1> USE DEF IInv
<1>0. PICK tick \in Instants, t \in Instants :
        LET claimed == [ deliveries[t] EXCEPT !.token = w, !.until = tick + Lease ]
        IN  /\ Due(t, tick)
            /\ deliveries' = [deliveries EXCEPT ![t] = claimed]
            /\ job' = [job EXCEPT ![w] =
                  [ id |-> t, delivery |-> claimed, schedule |-> Nil, at |-> 0 ]]
  BY DEF ClaimDue
<1> DEFINE claimed == [ deliveries[t] EXCEPT !.token = w, !.until = tick + Lease ]
<1>1. /\ Pending(t) /\ deliveries'[t] = claimed
      /\ deliveries' = [deliveries EXCEPT ![t] = claimed]
      /\ job' = [job EXCEPT ![w] =
            [ id |-> t, delivery |-> deliveries'[t], schedule |-> Nil, at |-> 0 ]]
  BY <1>0 DEF Due, TypeOK
<1>2. /\ pc' = [pc EXCEPT ![w] = "claimed"]
      /\ UNCHANGED <<now, spaceActive, targetValid, schedule, accepted, edit, faults, edits>>
  BY DEF ClaimDue, Goto, Environment
<1>3. tick + Lease \in Nat
  BY InstantsAreNatural, ConfigAssumption
<1>4. deliveries'[t] \in Delivery /\ deliveries' \in [Instants -> Delivery]
  <2>1. deliveries[t] \in Delivery
    BY DEF TypeOK
  <2>2. claimed \in Delivery
    BY <1>3, <2>1 DEF Delivery
  <2> HIDE DEF claimed
  <2> QED BY <1>1, <2>2 DEF TypeOK
<1>5. TypeOK'
  <2>1. job'[w] \in Job
    BY <1>1, <1>4, NowIsInstant DEF TypeOK, Job
  <2>2. job' \in [Schedulers -> Job \union {Nil}] /\ pc' \in [Schedulers -> Places]
    BY <1>1, <1>2, <2>1 DEF TypeOK, Places
  <2> QED BY <1>1, <1>2, <1>4, <2>1, <2>2 DEF TypeOK
<1>6. OneOutstandingOccurrence'
  BY <1>1, <1>2 DEF TypeOK, OneOutstandingOccurrence, Pending, Delivery
<1>7. ASSUME NEW v \in Schedulers, Holds(v)'
      PROVE  job'[v].delivery = deliveries'[job'[v].id] /\ job'[v].schedule = schedule'
  <2>1. v # w /\ pc'[v] = pc[v] /\ job'[v] = job[v] /\ job[v] \in Job
    BY <1>1, <1>2, <1>7 DEF TypeOK, Holds
  <2>2. job[v].id # t
    BY <1>1, <1>7, <2>1 DEF TypeOK, Holds, Delivery
  <2> QED BY <1>1, <1>2, <1>7, <2>1, <2>2 DEF TypeOK, Holds, ClaimedCopyIsCurrent, Pending, Job
<1> QED BY <1>5, <1>6, <1>7 DEF ClaimedCopyIsCurrent

\* LoadClaimed and its repetition after the generator copy the tables.
LEMMA LoadClaimedStep ==
    ASSUME IInv, NEW w \in Schedulers, LoadClaimed(w) \/ ReloadClaimed(w)
    PROVE  IInv'
<1> USE DEF IInv
<1>0. pc[w] # "idle" /\ job[w] \in Job
  BY DEF LoadClaimed, ReloadClaimed, TypeOK
<1>1. UNCHANGED <<now, spaceActive, targetValid, schedule, deliveries, accepted,
                  edit, faults, edits>>
  BY DEF LoadClaimed, ReloadClaimed, Environment, Tables
<1>2. CASE Return(w)
  BY <1>1, <1>2, ReturnTyped, MoveKeepsRelations DEF TypeOK, JobsTyped
<1>3. CASE job' = [job EXCEPT ![w] = Loaded(w)]
           /\ \E place \in Places : pc' = [pc EXCEPT ![w] = place]
  <2>1. /\ Loaded(w) \in Job /\ Loaded(w).schedule = schedule
        /\ Loaded(w).delivery = deliveries[Loaded(w).id]
    BY <1>0 DEF Loaded, Job, TypeOK
  <2>2. JobsTyped' /\ OthersStay(w) /\ job'[w] = Loaded(w)
    BY <1>3, <2>1, MoveTyped DEF TypeOK
  <2> QED BY <1>1, <2>1, <2>2, MoveKeepsRelations DEF TypeOK, JobsTyped
<1>4. Return(w) \/ (/\ job' = [job EXCEPT ![w] = Loaded(w)]
                    /\ \E place \in Places : pc' = [pc EXCEPT ![w] = place])
  BY DEF LoadClaimed, ReloadClaimed, AfterLoad, Goto, Places
<1> QED BY <1>2, <1>3, <1>4

\* ReserveGenerationAttempt counts in the row and in memory alike.
LEMMA PrepareGenerationStep ==
    ASSUME IInv, NEW w \in Schedulers, PrepareGeneration(w)
    PROVE  IInv'
<1> USE DEF IInv
<1> DEFINE t == job[w].id
           row == [ deliveries[t] EXCEPT !.generations = @ + 1 ]
           held == [ job[w] EXCEPT !.delivery.generations = @ + 1, !.at = now ]
<1>0. /\ pc[w] = "preparing" /\ job[w] \in Job /\ job[w].schedule \in Schedule
      /\ UNCHANGED <<now, spaceActive, targetValid, schedule, accepted, edit, faults, edits>>
  BY DEF PrepareGeneration, TypeOK, Environment
<1>1. CASE Return(w) /\ UNCHANGED deliveries
  BY <1>0, <1>1, ReturnTyped, MoveKeepsRelations DEF TypeOK, JobsTyped
<1>2. CASE Goto(w, "generationFailed") /\ UNCHANGED <<deliveries, job>>
  <2>1. job' = [job EXCEPT ![w] = job[w]]
    BY <1>2 DEF TypeOK
  <2>2. JobsTyped' /\ OthersStay(w) /\ job'[w] = job[w]
    BY <1>0, <1>2, <2>1, MoveTyped DEF Goto, Places
  <2> QED BY <1>0, <1>2, <2>2, MoveKeepsRelations DEF TypeOK, JobsTyped
<1>3. CASE /\ OwnsLease(w) /\ ~Exhausted(deliveries[t].generations, MaxGenerations)
           /\ deliveries' = [deliveries EXCEPT ![t].generations = @ + 1]
           /\ \/ Return(w)
              \/ /\ Goto(w, "generating")
                 /\ job' = [job EXCEPT ![w].delivery.generations = job[w].delivery.generations + 1,
                                       ![w].at = now]
  <2>1. Holds(w) /\ job[w].delivery = deliveries[t]
    BY <1>0, <1>3 DEF Holds, OwnsLease, OwnsClaim, Pending, ClaimedCopyIsCurrent
  <2>2. /\ row \in Delivery /\ row.status = "PENDING" /\ row.token = w
        /\ deliveries' = [deliveries EXCEPT ![t] = row]
    BY <1>0, <1>3, <2>1, ConfigAssumption DEF TypeOK, Job, Delivery, Exhausted, Holds, Pending
  <2>3. deliveries' \in [Instants -> Delivery]
    BY <2>2 DEF TypeOK
  <2>4. CASE Return(w)
    <3>1. JobsTyped' /\ OthersStay(w) /\ pc'[w] = "idle"
      BY <2>4, ReturnTyped
    <3>2. OneOutstandingOccurrence' /\ ClaimedCopyIsCurrent'
      BY <1>0, <2>1, <2>2, <3>1, OwnRowKeepsRelations
    <3> QED BY <1>0, <2>3, <3>1, <3>2 DEF TypeOK, JobsTyped
  <2>5. CASE /\ Goto(w, "generating")
             /\ job' = [job EXCEPT ![w].delivery.generations = job[w].delivery.generations + 1,
                                   ![w].at = now]
    <3>1. /\ held \in Job /\ held.id = t /\ held.schedule = job[w].schedule
          /\ held.delivery = row
      BY <1>0, <2>1, <2>2, NowIsInstant DEF Job, Delivery
    <3>2. job' = [job EXCEPT ![w] = held]
      BY <2>5 DEF TypeOK
    <3>3. JobsTyped' /\ OthersStay(w) /\ job'[w] = held
      <4>1. held \in Job /\ held.schedule \in Schedule
        BY <1>0, <3>1
      <4>2. pc' = [pc EXCEPT ![w] = "generating"] /\ "generating" \in Places
        BY <2>5 DEF Goto, Places
      <4> HIDE DEF row, held
      <4> QED BY <3>2, <4>1, <4>2, MoveTyped
    <3>4. /\ job'[w].id = job[w].id /\ job'[w].delivery = row
          /\ job'[w].schedule = job[w].schedule
      BY <3>1, <3>3
    <3>5. OneOutstandingOccurrence' /\ ClaimedCopyIsCurrent'
      <4> HIDE DEF row, held
      <4> QED BY <1>0, <2>1, <2>2, <3>3, <3>4, OwnRowKeepsRelations
    <3> QED BY <1>0, <2>3, <3>3, <3>5 DEF TypeOK, JobsTyped
  <2> QED BY <1>3, <2>4, <2>5
<1> QED BY <1>1, <1>2, <1>3 DEF PrepareGeneration

\* PersistGeneratedContent stores the text in the row and in memory alike.
LEMMA PersistStep ==
    ASSUME IInv, NEW w \in Schedulers, PersistGeneratedContent(w)
    PROVE  IInv'
<1> USE DEF IInv
<1> DEFINE t == job[w].id
           row == [ deliveries[t] EXCEPT !.snapshot = "generated" ]
           held == [ job[w] EXCEPT !.delivery.snapshot = "generated" ]
<1>0. /\ pc[w] = "persisting" /\ job[w] \in Job /\ job[w].schedule \in Schedule
      /\ UNCHANGED <<now, spaceActive, targetValid, schedule, accepted, edit, faults, edits>>
  BY DEF PersistGeneratedContent, TypeOK, Environment
<1>1. CASE Return(w) /\ UNCHANGED deliveries
  BY <1>0, <1>1, ReturnTyped, MoveKeepsRelations DEF TypeOK, JobsTyped
<1>2. CASE /\ OwnsLease(w) /\ Goto(w, "reserving")
           /\ deliveries' = [deliveries EXCEPT ![t].snapshot = "generated"]
           /\ job' = [job EXCEPT ![w].delivery.snapshot = "generated"]
  <2>1. Holds(w) /\ job[w].delivery = deliveries[t]
    BY <1>0, <1>2 DEF Holds, OwnsLease, OwnsClaim, Pending, ClaimedCopyIsCurrent
  <2>2. /\ row \in Delivery /\ row.status = "PENDING" /\ row.token = w
        /\ deliveries' = [deliveries EXCEPT ![t] = row]
    BY <1>0, <1>2, <2>1 DEF TypeOK, Job, Delivery, Holds, Pending, Texts
  <2>3. deliveries' \in [Instants -> Delivery]
    BY <2>2 DEF TypeOK
  <2>4. /\ held \in Job /\ held.id = t /\ held.schedule = job[w].schedule
        /\ held.delivery = row /\ job' = [job EXCEPT ![w] = held]
    BY <1>0, <1>2, <2>1, <2>2 DEF Job, Delivery, TypeOK
  <2>5. JobsTyped' /\ OthersStay(w) /\ job'[w] = held
    BY <1>0, <1>2, <2>4, MoveTyped DEF Goto, Places
  <2>6. /\ job'[w].id = job[w].id /\ job'[w].delivery = row
        /\ job'[w].schedule = job[w].schedule
    BY <2>4, <2>5
  <2>7. OneOutstandingOccurrence' /\ ClaimedCopyIsCurrent'
    <3> HIDE DEF row, held
    <3> QED BY <1>0, <2>1, <2>2, <2>5, <2>6, OwnRowKeepsRelations
  <2> QED BY <1>0, <2>3, <2>5, <2>7 DEF TypeOK, JobsTyped
<1> QED BY <1>1, <1>2 DEF PersistGeneratedContent

\* ReserveDeliveryAttempt counts in the row and in memory alike.
LEMMA ReserveDeliveryAttemptStep ==
    ASSUME IInv, NEW w \in Schedulers, ReserveDeliveryAttempt(w)
    PROVE  IInv'
<1> USE DEF IInv
<1> DEFINE t == job[w].id
           row == Counted(deliveries[t])
           held == [ job[w] EXCEPT !.delivery.attempts = @ + 1 ]
<1>0. /\ pc[w] = "reserving" /\ job[w] \in Job /\ job[w].schedule \in Schedule
      /\ UNCHANGED <<now, spaceActive, targetValid, schedule, accepted, edit, faults, edits>>
  BY DEF ReserveDeliveryAttempt, TypeOK, Environment
<1>1. CASE Return(w) /\ UNCHANGED deliveries
  BY <1>0, <1>1, ReturnTyped, MoveKeepsRelations DEF TypeOK, JobsTyped
<1>2. CASE Goto(w, "deliveryFailed") /\ UNCHANGED <<deliveries, job>>
  <2>1. job' = [job EXCEPT ![w] = job[w]]
    BY <1>2 DEF TypeOK
  <2>2. JobsTyped' /\ OthersStay(w) /\ job'[w] = job[w]
    BY <1>0, <1>2, <2>1, MoveTyped DEF Goto, Places
  <2> QED BY <1>0, <1>2, <2>2, MoveKeepsRelations DEF TypeOK, JobsTyped
<1>3. CASE /\ OwnsLease(w) /\ ~Exhausted(deliveries[t].attempts, MaxDeliveries)
           /\ deliveries' = [deliveries EXCEPT ![t] = Counted(@)]
           /\ job' = [job EXCEPT ![w].delivery.attempts = job[w].delivery.attempts + 1]
           /\ Goto(w, "dispatching")
  <2>1. Holds(w) /\ job[w].delivery = deliveries[t]
    BY <1>0, <1>3 DEF Holds, OwnsLease, OwnsClaim, Pending, ClaimedCopyIsCurrent
  <2>2. /\ row \in Delivery /\ row.status = "PENDING" /\ row.token = w
        /\ deliveries' = [deliveries EXCEPT ![t] = row]
    <3>1. deliveries[t] \in Delivery /\ deliveries[t].attempts + 1 \in 0..MaxDeliveries
      BY <1>0, <1>3, ConfigAssumption DEF TypeOK, Job, Delivery, Exhausted
    <3>2. row \in Delivery
      BY <3>1 DEF Counted, Delivery
    <3> QED BY <1>3, <2>1, <3>1, <3>2 DEF Counted, Delivery, Holds, Pending
  <2>3. deliveries' \in [Instants -> Delivery]
    BY <2>2 DEF TypeOK
  <2>4. /\ held \in Job /\ held.id = t /\ held.schedule = job[w].schedule
        /\ held.delivery = row /\ job' = [job EXCEPT ![w] = held]
    BY <1>0, <1>3, <2>1, <2>2 DEF Job, Delivery, TypeOK, Counted
  <2>5. JobsTyped' /\ OthersStay(w) /\ job'[w] = held
    <3>1. /\ pc' = [pc EXCEPT ![w] = "dispatching"] /\ "dispatching" \in Places
          /\ held.schedule \in Schedule
      BY <1>0, <1>3, <2>4 DEF Goto, Places
    <3> HIDE DEF row, held
    <3> QED BY <2>4, <3>1, MoveTyped
  <2>6. /\ job'[w].id = job[w].id /\ job'[w].delivery = row
        /\ job'[w].schedule = job[w].schedule
    BY <2>4, <2>5
  <2>7. OneOutstandingOccurrence' /\ ClaimedCopyIsCurrent'
    <3> HIDE DEF row, held
    <3> QED BY <1>0, <2>1, <2>2, <2>5, <2>6, OwnRowKeepsRelations
  <2> QED BY <1>0, <2>3, <2>5, <2>7 DEF TypeOK, JobsTyped
<1> QED BY <1>1, <1>2, <1>3 DEF ReserveDeliveryAttempt

\* The steps around an external call change no table: the worker goes on with the
\* same copies, or returns.
LEMMA CallStep ==
    ASSUME IInv, NEW w \in Schedulers,
           \/ GeneratorAnswers(w) \/ GeneratorFails(w)
           \/ BeginDispatch(w) \/ BridgeAccepts(w) \/ SendFails(w)
           \/ DispatchUncertain(w) \/ Abandon(w)
           \/ RefuseText(w) \/ DispatchFails(w)
    PROVE  IInv'
<1> USE DEF IInv
<1>0. /\ pc[w] # "idle" /\ job[w] \in Job
      /\ UNCHANGED <<now, spaceActive, targetValid, schedule, deliveries, edit, edits>>
  BY DEF GeneratorAnswers, GeneratorFails, BeginDispatch, BridgeAccepts, SendFails,
         DispatchUncertain, Abandon, RefuseText, DispatchFails, TypeOK, Environment, Tables
<1>1. faults' \in 0..MaxFaults
  BY ConfigAssumption DEF GeneratorAnswers, GeneratorFails, BeginDispatch, BridgeAccepts,
     SendFails, DispatchUncertain, Abandon, RefuseText, DispatchFails, TypeOK
<1>2. accepted' \in [Instants -> Nat]
  <2>1. job[w].id \in Instants
    BY <1>0 DEF Job
  <2>2. accepted' = accepted \/ accepted' = [accepted EXCEPT ![job[w].id] = @ + 1]
    BY DEF GeneratorAnswers, GeneratorFails, BeginDispatch, BridgeAccepts, SendFails,
           DispatchUncertain, Abandon, RefuseText, DispatchFails
  <2> QED BY <2>1, <2>2 DEF TypeOK
<1>3. CASE Return(w)
  BY <1>0, <1>1, <1>2, <1>3, ReturnTyped, MoveKeepsRelations DEF TypeOK, JobsTyped
<1>4. CASE /\ pc[w] \notin {"idle", "claimed"}
           /\ \E place \in Places \ {"idle"} : pc' = [pc EXCEPT ![w] = place]
           /\ \E at \in Instants : job' = [job EXCEPT ![w].at = at]
  <2>1. PICK place \in Places : pc' = [pc EXCEPT ![w] = place]
    BY <1>4
  <2>2. PICK at \in Instants : job' = [job EXCEPT ![w].at = at]
    BY <1>4
  <2> DEFINE held == [ job[w] EXCEPT !.at = at ]
  <2>3. /\ held \in Job /\ held.id = job[w].id /\ held.delivery = job[w].delivery
        /\ held.schedule = job[w].schedule /\ held.schedule \in Schedule
    BY <1>0, <1>4 DEF Job, TypeOK
  <2>4. job' = [job EXCEPT ![w] = held]
    BY <2>2 DEF TypeOK
  <2>5. JobsTyped' /\ OthersStay(w) /\ job'[w] = held
    BY <2>1, <2>3, <2>4, MoveTyped
  <2>6. OneOutstandingOccurrence' /\ ClaimedCopyIsCurrent'
    BY <1>0, <1>4, <2>3, <2>5, MoveKeepsRelations
  <2> QED BY <1>0, <1>1, <1>2, <2>5, <2>6 DEF TypeOK, JobsTyped
<1>5. CASE pc[w] \in {"dispatching", "reserving"} /\ Goto(w, "targetInvalid") /\ UNCHANGED job
  <2>1. job' = [job EXCEPT ![w] = job[w]]
    BY <1>5 DEF TypeOK
  <2>2. JobsTyped' /\ OthersStay(w) /\ job'[w] = job[w]
    BY <1>0, <1>5, <2>1, MoveTyped DEF Goto, Places, TypeOK
  <2> QED BY <1>0, <1>1, <1>2, <1>5, <2>2, MoveKeepsRelations DEF TypeOK, JobsTyped
<1>6. now \in Instants /\ 0 \in Instants
  BY NowIsInstant
<1>7. \/ Return(w)
      \/ /\ pc[w] \notin {"idle", "claimed"}
         /\ \E place \in Places \ {"idle"} : pc' = [pc EXCEPT ![w] = place]
         /\ \E at \in Instants : job' = [job EXCEPT ![w].at = at]
      \/ pc[w] \in {"dispatching", "reserving"} /\ Goto(w, "targetInvalid") /\ UNCHANGED job
  <2>1. CASE GeneratorAnswers(w) \/ GeneratorFails(w) \/ BridgeAccepts(w) \/ SendFails(w)
            \/ DispatchFails(w)
    BY <1>6, <2>1 DEF GeneratorAnswers, GeneratorFails, BridgeAccepts, SendFails, DispatchFails,
       Goto, Places
  <2>2. CASE BeginDispatch(w)
    BY <1>6, <2>2 DEF BeginDispatch, Goto, Places
  <2>3. CASE DispatchUncertain(w) \/ Abandon(w)
    BY <2>3 DEF DispatchUncertain, Abandon
  <2>4. CASE RefuseText(w)
    BY <2>4 DEF RefuseText
  <2> QED BY <2>1, <2>2, <2>3, <2>4
<1> QED BY <1>3, <1>4, <1>5, <1>7

\* Ending the occurrence a worker holds leaves the next one outstanding, or none if
\* the schedule ends with it.
LEMMA FinalizeStep ==
    ASSUME IInv, NEW w \in Schedulers, Holds(w), Return(w),
           NEW deliveryStatus \in DeliveryStatuses \ {"PENDING"},
           NEW scheduleStatus \in ScheduleStatuses,
           NEW next \in Instants \union {Nil}, NEW mode \in {"FIXED", "AI"},
           scheduleStatus = "ACTIVE" <=> next # Nil,
           CanInsert(next),
           FinalizeOccurrence(job[w].id, deliveryStatus, scheduleStatus, next, mode),
           UNCHANGED <<now, spaceActive, targetValid, accepted, edit, faults, edits>>
    PROVE  IInv'
<1> USE DEF IInv
<1> DEFINE t == job[w].id
<1>0. /\ t \in Instants /\ deliveries[t] \in Delivery /\ Pending(t)
      /\ deliveries[t].token = w /\ schedule.nextAt = t
  BY DEF Holds, TypeOK, Job, OneOutstandingOccurrence
<1>1. t # next
  BY <1>0, CalendarAssumption DEF CanInsert, Pending, Instants
<1>2. /\ DOMAIN deliveries' = Instants
      /\ deliveries'[t] \in Delivery /\ deliveries'[t].status # "PENDING"
      /\ next # Nil => /\ deliveries'[next] \in Delivery /\ deliveries'[next].status = "PENDING"
                       /\ deliveries'[next].token = Nil
      /\ \A u \in Instants \ {t, next} : deliveries'[u] = deliveries[u]
  <2>1. /\ ReleaseLease(deliveries[t]) \in Delivery
    BY <1>0, ReleaseLeaseType
  <2>2. deliveries'[t] = [ ReleaseLease(deliveries[t]) EXCEPT
                              !.status = deliveryStatus, !.nextAttempt = Nil ]
    BY <1>0 DEF FinalizeOccurrence
  <2>3. deliveries'[t] \in Delivery /\ deliveries'[t].status # "PENDING"
    BY <2>1, <2>2 DEF Delivery
  <2>4. next # Nil => deliveries'[next] = NewDelivery(next, mode)
    BY <1>1 DEF FinalizeOccurrence
  <2> QED BY <2>3, <2>4, NewDeliveryType DEF FinalizeOccurrence
<1>3. /\ schedule' \in Schedule /\ schedule'.status = scheduleStatus
      /\ schedule'.nextAt = next
  BY DEF FinalizeOccurrence, TypeOK, Schedule
<1>4. TypeOK'
  <2>1. deliveries' \in [Instants -> Delivery]
    <3>1. deliveries' = [ u \in Instants |-> deliveries'[u] ]
      BY DEF FinalizeOccurrence
    <3>2. ASSUME NEW u \in Instants PROVE deliveries'[u] \in Delivery
      <4>1. CASE u \in {t, next}
        BY <1>2, <4>1, CalendarAssumption DEF Instants
      <4>2. CASE u \notin {t, next}
        BY <1>2, <4>2 DEF TypeOK
      <4> QED BY <4>1, <4>2
    <3> QED BY <3>1, <3>2
  <2> QED BY <1>3, <2>1, ReturnTyped DEF TypeOK, JobsTyped
<1>5. OneOutstandingOccurrence'
  <2>1. Nil \notin Instants
    BY CalendarAssumption DEF Instants
  <2>2. ASSUME NEW u \in Instants
        PROVE  deliveries'[u].status = "PENDING" <=> next = u
    <3>1. CASE u = t
      BY <1>1, <1>2, <3>1
    <3>2. CASE u = next
      BY <1>2, <2>1, <3>2
    <3>3. CASE u # t /\ u # next
      BY <1>0, <1>2, <3>3 DEF OneOutstandingOccurrence, Pending
    <3> QED BY <3>1, <3>2, <3>3
  <2> QED BY <1>3, <2>2 DEF OneOutstandingOccurrence, Pending
<1>6. ASSUME NEW v \in Schedulers PROVE ~Holds(v)'
  <2>1. CASE v = w
    BY <2>1, ReturnTyped DEF Holds
  <2>2. CASE v # w
    <3>1. pc'[v] = pc[v] /\ job'[v] = job[v]
      BY <2>2, ReturnTyped DEF OthersStay
    <3>2. SUFFICES ASSUME Holds(v)' PROVE FALSE
      OBVIOUS
    <3>3. job[v].id \in Instants /\ v # Nil
      BY <3>1, <3>2, ConfigAssumption DEF Holds, TypeOK, Job
    <3>4. /\ deliveries'[job[v].id].status = "PENDING"
          /\ deliveries'[job[v].id].token = v
      BY <3>1, <3>2 DEF Holds, Pending
    <3>5. job[v].id # t
      BY <1>2, <3>4
    <3>6. job[v].id # next
      <4>1. next = Nil => job[v].id # next
        BY <3>3, CalendarAssumption DEF Instants
      <4> QED BY <1>2, <3>3, <3>4, <4>1
    <3> QED BY <1>0, <1>2, <3>3, <3>4, <3>5, <3>6 DEF Pending, OneOutstandingOccurrence
  <2> QED BY <2>1, <2>2
<1> QED BY <1>4, <1>5, <1>6 DEF ClaimedCopyIsCurrent

\* The next instant, when there is one, is an instant.
LEMMA NextAfterType ==
    ASSUME NEW s \in Schedule, NEW t \in Instants
    PROVE  NextAfter(s, t) \in Instants \union {Nil, Invalid}
<1>1. s.recurrence \in Rules /\ s.startAt \in Instants
  BY DEF Schedule
<1> QED BY <1>1, FoundLiesAhead DEF NextAfter

\* finalizeDispatchTx ends the occurrence and inserts the next.
LEMMA FinalizeDispatchStep ==
    ASSUME IInv, NEW w \in Schedulers, FinalizeDispatch(w)
    PROVE  IInv'
<1> USE DEF IInv
<1> DEFINE next == NextAfter(schedule, job[w].at)
<1>1. pc[w] = "accepted" /\ job[w] \in Job /\ schedule \in Schedule
  BY DEF FinalizeDispatch, TypeOK
<1>2. Holds(w)
  BY <1>1 DEF FinalizeDispatch, OwnsClaim, Holds, Pending
<1>3. next \in Instants \union {Nil} /\ schedule.mode \in {"FIXED", "AI"}
  BY <1>1, NextAfterType DEF FinalizeDispatch, CanInsert, Job, Schedule
<1> HIDE DEF next
<1>4. (IF next = Nil THEN "SENT" ELSE "ACTIVE") \in ScheduleStatuses
  BY DEF ScheduleStatuses
<1>5. "SENT" \in DeliveryStatuses \ {"PENDING"}
  BY DEF DeliveryStatuses
<1>6. /\ CanInsert(next) /\ Return(w)
      /\ FinalizeOccurrence(job[w].id, "SENT", IF next = Nil THEN "SENT" ELSE "ACTIVE",
                            next, schedule.mode)
      /\ UNCHANGED <<now, spaceActive, targetValid, accepted, edit, faults, edits>>
  BY DEF FinalizeDispatch, next, Environment
<1>7. (IF next = Nil THEN "SENT" ELSE "ACTIVE") = "ACTIVE" <=> next # Nil
  OBVIOUS
<1> QED BY <1>2, <1>3, <1>4, <1>5, <1>6, <1>7, FinalizeStep

\* A worker that returns from a finishing step without having written anything.
LEMMA ReturnStep ==
    ASSUME IInv, NEW w \in Schedulers, Return(w),
           UNCHANGED <<now, spaceActive, targetValid, schedule, deliveries, accepted,
                       edit, faults, edits>>
    PROVE  IInv'
  BY ReturnTyped, MoveKeepsRelations DEF IInv, TypeOK, JobsTyped

\* A failed occurrence ends, and a recurring schedule goes on.
LEMMA FinishFailedStep ==
    ASSUME IInv, NEW w \in Schedulers, FinishFailed(w)
    PROVE  IInv'
<1> USE DEF IInv
<1> DEFINE found == NextAfter(job[w].schedule, now)
           goesOn == found \notin {Nil, Invalid}
           next == IF goesOn THEN found ELSE Nil
           ended == IF pc[w] = "generationFailed" /\ goesOn THEN "SKIPPED" ELSE "FAILED"
           left == IF goesOn THEN "ACTIVE" ELSE "FAILED"
<1>1. /\ pc[w] \in {"generationFailed", "deliveryFailed"}
      /\ job[w] \in Job /\ job[w].schedule \in Schedule
  BY DEF FinishFailed, TypeOK
<1>2. /\ Return(w)
      /\ UNCHANGED <<now, spaceActive, targetValid, accepted, edit, faults, edits>>
      /\ \/ UNCHANGED <<schedule, deliveries>>
         \/ /\ OwnsLease(w) /\ CanInsert(next)
            /\ FinalizeOccurrence(job[w].id, ended, left, next, job[w].schedule.mode)
  BY DEF FinishFailed, Environment, Tables
<1>3. CASE UNCHANGED <<schedule, deliveries>>
  BY <1>2, <1>3, ReturnStep
<1>4. CASE /\ OwnsLease(w) /\ CanInsert(next)
           /\ FinalizeOccurrence(job[w].id, ended, left, next, job[w].schedule.mode)
  <2>1. Holds(w)
    BY <1>1, <1>4 DEF OwnsLease, OwnsClaim, Holds, Pending
  <2>2. found \in Instants \union {Nil, Invalid}
    BY <1>1, NextAfterType, NowIsInstant
  <2>3. /\ next \in Instants \union {Nil} /\ left = "ACTIVE" <=> next # Nil
        /\ ended \in DeliveryStatuses \ {"PENDING"} /\ left \in ScheduleStatuses
    BY <2>2 DEF DeliveryStatuses, ScheduleStatuses
  <2>4. job[w].schedule.mode \in {"FIXED", "AI"}
    BY <1>1 DEF Schedule
  <2> HIDE DEF found, goesOn, next, ended, left
  <2> QED BY <1>2, <1>4, <2>1, <2>3, <2>4, FinalizeStep
<1> QED BY <1>2, <1>3, <1>4

\* An invalid target ends occurrence and schedule.
LEMMA CancelInvalidTargetStep ==
    ASSUME IInv, NEW w \in Schedulers, CancelInvalidTarget(w)
    PROVE  IInv'
<1> USE DEF IInv
<1>1. /\ pc[w] = "targetInvalid" /\ Return(w)
      /\ UNCHANGED <<now, spaceActive, targetValid, accepted, edit, faults, edits>>
  BY DEF CancelInvalidTarget, Environment
<1>2. CASE UNCHANGED Tables
  BY <1>1, <1>2, ReturnStep DEF Tables
<1>3. CASE Cancels(w) /\ FinalizeOccurrence(job[w].id, "CANCELLED", "CANCELLED", Nil, "FIXED")
  <2>1. Holds(w)
    BY <1>1, <1>3 DEF Cancels, OwnsLease, OwnsClaim, Holds, Pending
  <2>2. /\ "CANCELLED" \in DeliveryStatuses \ {"PENDING"} /\ "CANCELLED" \in ScheduleStatuses
        /\ CanInsert(Nil)
    BY DEF DeliveryStatuses, ScheduleStatuses, CanInsert
  <2> QED BY <1>1, <1>3, <2>1, <2>2, FinalizeStep
<1> QED BY <1>2, <1>3 DEF CancelInvalidTarget

\* RecordRetry writes back copies that are current, and releases the lease.
LEMMA RecordRetryStep ==
    ASSUME IInv, NEW w \in Schedulers, RecordRetry(w)
    PROVE  IInv'
<1> USE DEF IInv
<1> DEFINE backoff == IF pc[w] = "generationRetry" THEN GenerationBackoff ELSE DeliveryBackoff
           row == [ ReleaseLease(job[w].delivery) EXCEPT !.nextAttempt = now + backoff ]
<1>1. /\ pc[w] \in {"generationRetry", "deliveryRetry"} /\ Return(w)
      /\ job[w] \in Job /\ job[w].schedule \in Schedule
      /\ UNCHANGED <<now, spaceActive, targetValid, accepted, edit, faults, edits>>
  BY DEF RecordRetry, TypeOK, Environment
<1>2. CASE UNCHANGED Tables
  BY <1>1, <1>2, ReturnStep DEF Tables
<1>3. CASE /\ OwnsLease(w)
           /\ deliveries' = [deliveries EXCEPT ![job[w].id] = row]
           /\ schedule' = [schedule EXCEPT !.status = job[w].schedule.status,
                                           !.nextAt = job[w].schedule.nextAt]
  <2>1. Holds(w) /\ job[w].delivery = deliveries[job[w].id] /\ job[w].schedule = schedule
    BY <1>1, <1>3 DEF Holds, OwnsLease, OwnsClaim, Pending, ClaimedCopyIsCurrent
  <2>2. schedule' = schedule
    BY <1>3, <2>1 DEF TypeOK, Schedule
  <2>3. now + backoff \in Nat
    <3>1. now \in Nat
      BY NowIsInstant, InstantsAreNatural
    <3>2. backoff \in Nat
      BY ConfigAssumption
    <3> QED BY <3>1, <3>2
  <2>4. ReleaseLease(job[w].delivery) \in Delivery
    BY <1>1, ReleaseLeaseType DEF Job
  <2>5. row \in Delivery /\ row.status = "PENDING" /\ row.token = Nil
    BY <1>1, <2>1, <2>3, <2>4, ReleaseLeaseType DEF Job, Delivery, Holds, Pending
  <2>6. JobsTyped' /\ OthersStay(w) /\ pc'[w] = "idle"
    BY <1>1, ReturnTyped
  <2>7. deliveries' \in [Instants -> Delivery]
    BY <1>3, <2>5 DEF TypeOK
  <2> HIDE DEF row
  <2>8. OneOutstandingOccurrence' /\ ClaimedCopyIsCurrent'
    BY <1>3, <2>1, <2>2, <2>5, <2>6, OwnRowKeepsRelations
  <2> QED BY <1>1, <2>2, <2>6, <2>7, <2>8 DEF TypeOK, JobsTyped
<1> QED BY <1>2, <1>3 DEF RecordRetry

\* A request that leaves no row pending but at most the one it names, and no lease on
\* that, leaves no worker holding anything.
LEMMA RequestKeepsRelations ==
    ASSUME IInv, UNCHANGED <<pc, job>>,
           \A t \in Instants : deliveries'[t].status = "PENDING" =>
                                  deliveries'[t].token = Nil /\ schedule'.nextAt = t,
           schedule'.nextAt \in Instants =>
                deliveries'[schedule'.nextAt].status = "PENDING",
           schedule'.status = "ACTIVE" => schedule'.nextAt # Nil,
           schedule'.status # "ACTIVE" => schedule'.nextAt = Nil
    PROVE  OneOutstandingOccurrence' /\ ClaimedCopyIsCurrent'
<1>1. OneOutstandingOccurrence'
  BY DEF OneOutstandingOccurrence, Pending
<1>2. ASSUME NEW v \in Schedulers PROVE ~Holds(v)'
  <2>1. pc[v] # "idle" => job[v].id \in Instants
    BY DEF IInv, TypeOK, Job
  <2> QED BY <2>1, ConfigAssumption DEF Holds, Pending
<1> QED BY <1>1, <1>2 DEF ClaimedCopyIsCurrent

\* transitionTerminal withdraws every pending row.
LEMMA StopStep ==
    ASSUME IInv, Cancel \/ Unsubscribe
    PROVE  IInv'
<1> USE DEF IInv
<1>1. PICK status \in {"CANCELLED", "UNSUBSCRIBED"} : Stop(status)
  BY DEF Cancel, Unsubscribe
<1>2. ASSUME NEW t \in Instants
      PROVE  deliveries'[t] \in Delivery /\ deliveries'[t].status # "PENDING"
  BY <1>1, WithdrawnType DEF Stop, TypeOK
<1>3. /\ schedule' \in Schedule /\ schedule'.status = status /\ schedule'.nextAt = Nil
  BY <1>1 DEF Stop, TypeOK, Schedule, ScheduleStatuses
<1>4. deliveries' \in [Instants -> Delivery]
  BY <1>1, <1>2 DEF Stop
<1>5. TypeOK'
  BY <1>1, <1>3, <1>4 DEF Stop, TypeOK, Environment
<1>6. Nil \notin Instants
  BY CalendarAssumption DEF Instants
<1>7. UNCHANGED <<pc, job>>
  BY <1>1 DEF Stop
<1> QED BY <1>2, <1>3, <1>5, <1>6, <1>7, RequestKeepsRelations

\* UpdateActive leaves pending the row it names and no other.
LEMMA CommitUpdateStep ==
    ASSUME IInv, NEW e \in Editors, CommitUpdate(e)
    PROVE  IInv'
<1> USE DEF IInv
<1> DEFINE plan == edit[e]
<1>1. plan \in Edit /\ edit' = [edit EXCEPT ![e] = Nil]
      /\ UNCHANGED <<now, spaceActive, targetValid, accepted, pc, job, faults, edits>>
  BY DEF CommitUpdate, TypeOK, Environment
<1>2. edit' \in [Editors -> Edit \union {Nil}]
  BY <1>1 DEF TypeOK
<1>3. CASE UNCHANGED Tables
  BY <1>1, <1>2, <1>3 DEF Tables, TypeOK, OneOutstandingOccurrence, ClaimedCopyIsCurrent,
     Holds, Pending
<1>4. CASE /\ ScheduleOpen
           /\ deliveries' = [ t \in Instants |->
                 IF t = plan.nextAt THEN Revived(deliveries[t], t, plan.snapshot)
                                    ELSE Withdrawn(deliveries[t]) ]
           /\ schedule' = [ schedule EXCEPT
                 !.mode = Given(plan.mode, @), !.recurrence = Given(plan.rule, @),
                 !.startAt = Given(plan.start, @), !.nextAt = plan.nextAt ]
  <2>1. plan.nextAt \in Instants /\ plan.snapshot \in Texts \union {Nil} /\ plan.nextAt # Nil
    BY <1>1, CalendarAssumption DEF Edit, Instants
  <2>2. ASSUME NEW t \in Instants
        PROVE  /\ deliveries'[t] \in Delivery
               /\ t = plan.nextAt => deliveries'[t].status = "PENDING"
                                     /\ deliveries'[t].token = Nil
               /\ t # plan.nextAt => deliveries'[t].status # "PENDING"
    BY <1>4, <2>1, RevivedType, WithdrawnType DEF TypeOK
  <2>3. deliveries' \in [Instants -> Delivery]
    BY <1>4, <2>2
  <2>4. /\ Given(plan.mode, schedule.mode) \in {"FIXED", "AI"}
        /\ Given(plan.rule, schedule.recurrence) \in Rules
        /\ Given(plan.start, schedule.startAt) \in Instants
    BY <1>1 DEF Given, Edit, TypeOK, Schedule
  <2>5. /\ schedule' \in Schedule /\ schedule'.status = "ACTIVE"
        /\ schedule'.nextAt = plan.nextAt
    BY <1>4, <2>1, <2>4 DEF TypeOK, Schedule, ScheduleOpen
  <2>6. OneOutstandingOccurrence' /\ ClaimedCopyIsCurrent'
    BY <1>1, <2>1, <2>2, <2>5, RequestKeepsRelations
  <2> QED BY <1>1, <1>2, <2>3, <2>5, <2>6 DEF TypeOK
<1> QED BY <1>3, <1>4 DEF CommitUpdate

\* Update computes a next instant that is well typed: the search ends.
LEMMA ReadForUpdateStep ==
    ASSUME IInv, NEW e \in Editors, ReadForUpdate(e)
    PROVE  IInv'
<1> USE DEF IInv
<1>1. PICK mode \in EditModes \union {Nil}, rule \in EditRules \union {Nil},
           start \in { s \in StartTimes : s > now } \union {Nil} :
        /\ NeedsGenerator(mode, rule, start) => HasGenerator
        /\ Plan(mode, rule, start).nextAt # Invalid
        /\ edit' = [edit EXCEPT ![e] = Plan(mode, rule, start)]
  BY DEF ReadForUpdate
<1> DEFINE newRule == Given(rule, schedule.recurrence)
           newStart == Given(start, schedule.startAt)
           nextAt  == UpdatedNextAt(newRule, newStart, start # Nil)
<1>2. /\ mode \in {"FIXED", "AI", Nil} /\ rule \in Rules \union {Nil}
      /\ start \in Instants \union {Nil}
  BY ConfigAssumption
<1>3. newRule \in Rules /\ newStart \in Instants
  BY <1>2 DEF Given, TypeOK, Schedule
<1>4. nextAt \in Instants
  <2>1. CASE newRule = "ONCE" /\ start # Nil
    BY <1>3, <2>1 DEF UpdatedNextAt
  <2>2. CASE newRule = "ONCE" /\ start = Nil
    BY <2>2 DEF UpdatedNextAt, ReadForUpdate, ScheduleOpen, OneOutstandingOccurrence, TypeOK,
       Schedule
  <2>3. CASE newRule # "ONCE"
    <3>1. nextAt = NextOccurrence[newRule][newStart][now]
      BY <2>3 DEF UpdatedNextAt
    <3>2. nextAt # Nil
      BY <1>3, <2>3, <3>1, NowIsInstant, SearchEnds DEF Rules
    <3>3. nextAt # Invalid
      BY <1>1 DEF Plan
    <3> QED BY <1>3, <3>1, <3>2, <3>3, NowIsInstant, FoundLiesAhead
  <2> QED BY <2>1, <2>2, <2>3
<1>5. Plan(mode, rule, start) \in Edit
  BY <1>2, <1>4 DEF Plan, Edit, Snapshot, Texts
<1>6. edit' \in [Editors -> Edit \union {Nil}]
  BY <1>1, <1>5 DEF TypeOK
<1>7. edits' \in 0..MaxEdits
  BY ConfigAssumption DEF ReadForUpdate, TypeOK
<1>8. UNCHANGED <<now, spaceActive, targetValid, schedule, deliveries, accepted, pc, job, faults>>
  BY DEF ReadForUpdate, Environment, Tables
<1> QED BY <1>6, <1>7, <1>8 DEF TypeOK, OneOutstandingOccurrence, ClaimedCopyIsCurrent,
        Holds, Pending

\* Time, the space and the target touch no row.
LEMMA EnvironmentStep ==
    ASSUME IInv, ArchiveSpace \/ ChangeTarget \/ Tick
    PROVE  IInv'
<1>1. UNCHANGED <<schedule, deliveries, accepted, pc, job, edit, faults, edits>>
  BY DEF ArchiveSpace, ChangeTarget, Tick, Tables
<1>2. MaxTime \in Nat /\ now \in 0..MaxTime
  BY ConfigAssumption, InstantsAreNatural DEF IInv, TypeOK
<1>3. now' \in 0..MaxTime
  BY <1>2 DEF ArchiveSpace, ChangeTarget, Tick
<1>4. spaceActive' \in BOOLEAN /\ targetValid' \in BOOLEAN
  BY DEF IInv, TypeOK, ArchiveSpace, ChangeTarget, Tick
<1> QED BY <1>1, <1>3, <1>4 DEF IInv, TypeOK, OneOutstandingOccurrence, ClaimedCopyIsCurrent, Holds, Pending

-----------------------------------------------------------------------------
(* The theorems *)

\* Every step of the specification keeps the inductive invariant.
LEMMA Inductive == IInv /\ [Next]_vars => IInv'
<1> SUFFICES ASSUME IInv, [Next]_vars PROVE IInv'
  OBVIOUS
<1>1. ASSUME NEW w \in Schedulers, ClaimDue(w) PROVE IInv'
  BY <1>1, ClaimDueStep
<1>2. ASSUME NEW w \in Schedulers, Step(w) PROVE IInv'
  BY <1>2, LoadClaimedStep, PrepareGenerationStep, CallStep, PersistStep,
     ReserveDeliveryAttemptStep, FinalizeDispatchStep, RecordRetryStep, FinishFailedStep,
     CancelInvalidTargetStep
     DEF Step
<1>3. ASSUME NEW w \in Schedulers, Abandon(w) PROVE IInv'
  BY <1>3, CallStep
<1>4. ASSUME NEW e \in Editors, ReadForUpdate(e) \/ CommitUpdate(e) PROVE IInv'
  BY <1>4, ReadForUpdateStep, CommitUpdateStep
<1>5. ASSUME Cancel \/ Unsubscribe PROVE IInv'
  BY <1>5, StopStep
<1>6. ASSUME ArchiveSpace \/ ChangeTarget \/ Tick PROVE IInv'
  BY <1>6, EnvironmentStep
<1>7. CASE UNCHANGED vars
  BY <1>7 DEF IInv, TypeOK, OneOutstandingOccurrence, ClaimedCopyIsCurrent, Holds, Pending, vars
<1> QED BY <1>1, <1>2, <1>3, <1>4, <1>5, <1>6, <1>7 DEF Next

\* The inductive invariant holds in every reachable state.
THEOREM Invariance == Spec => []IInv
  BY Initial, Inductive, PTL DEF Spec

\* Every variable keeps its type.
THEOREM TypeCorrect == Spec => []TypeOK
<1>1. IInv => TypeOK
  BY DEF IInv
<1> QED BY <1>1, Invariance, PTL

\* However updates, cancellations, crashes, retries and finishes interleave, an active
\* schedule has exactly one pending occurrence, the one next_scheduled_at names.
THEOREM OneOutstanding == Spec => []OneOutstandingOccurrence
<1>1. IInv => OneOutstandingOccurrence
  BY DEF IInv
<1> QED BY <1>1, Invariance, PTL

\* What a worker read before its external calls is still so while the row carries its
\* token, so the write-back of a retry never overwrites a newer schedule.
THEOREM CopiesAreCurrent == Spec => []ClaimedCopyIsCurrent
<1>1. IInv => ClaimedCopyIsCurrent
  BY DEF IInv
<1> QED BY <1>1, Invariance, PTL
===============================================================================
