----------------------------- MODULE ReminderIndex -----------------------------
(***************************************************************************)
(* The Redis index of pending reminders.  PostgreSQL is the truth; the     *)
(* index tells the scheduler of each process whether a claim is worth a    *)
(* query.  Unlike the index of scheduled messages it keeps the time of     *)
(* every reminder and has no count of mutations: only a command that fails *)
(* makes a process distrust it, and a reconciliation overwrites whatever   *)
(* is written while it runs.  One step is one statement or one command.    *)
(***************************************************************************)
EXTENDS Naturals, FiniteSets, Sequences

CONSTANTS
    Processes,      \* server processes, each with one reminder scheduler
    Ids,            \* reminders
    Requests,       \* requests with index writes outstanding at one time
    Times,          \* 1..n: scheduled_at values
    MaxEdits,       \* bound of the model: requests
    MaxFaults,      \* bound of the model: failed calls and crashes
    Nil

IndexAssumption ==
    /\ IsFiniteSet(Times) /\ Times = 1..Cardinality(Times) /\ Times # {}
    /\ Nil \notin Nat /\ Nil \notin Ids /\ Nil \notin Processes
    /\ MaxEdits \in Nat /\ MaxFaults \in Nat

VARIABLES
    now,            \* the clock
    row,            \* status, time and claim of each reminder
    index,          \* score of each reminder in the sorted set, or Nil
    dirty,          \* dirtyVersion is not reconciledVersion, in each process
    degraded,       \* indexDegraded of each process
    fallback,       \* whether useDatabaseFallback would allow one, in each process
    loop,           \* where the scheduler of each process stands
    urgent,         \* whether its reconciliation is one of checkDueSource
    batch,          \* the reminder it has claimed, or Nil
    indexed, listed,    \* what its reconciliation has read from the index and the table
    disturbed,      \* whether anything changed since that reconciliation began
    writes,         \* index writes each request has left, and its process
    edits, faults

state == <<row, index>>
trust == <<dirty, degraded, fallback>>
reading == <<urgent, indexed, listed>>
bounds == <<edits, faults>>
vars == <<now, state, trust, loop, batch, reading, disturbed, writes, bounds>>

Row == [ status : {"absent", "pending", "sent", "closed"}, at : Times,
         claim : Processes \union {Nil}, stale : BOOLEAN ]
Entry == [ id : Ids, at : Times \union {Nil} ]
Write == [ process : Processes, todo : Seq(Entry) ]

Fault == faults < MaxFaults /\ faults' = faults + 1 /\ UNCHANGED edits

Pending(id) == row[id].status = "pending"
PendingIds == { id \in Ids : Pending(id) }

\* What ListPendingForNotification selects, and what the index should hold.
Schedule == [ id \in Ids |-> IF Pending(id) THEN row[id].at ELSE Nil ]

Overdue(id) == Pending(id) /\ row[id].at <= now
Due(id) == Overdue(id) /\ (row[id].claim = Nil \/ row[id].stale)

Disturb == disturbed' = [ p \in Processes |-> TRUE ]
DisturbOthers(p) == disturbed' = [ q \in Processes |-> disturbed[q] \/ q # p ]

MarkDirty(p) == dirty' = [ dirty EXCEPT ![p] = TRUE ]
Goto(p, place) == loop' = [ loop EXCEPT ![p] = place ]

-----------------------------------------------------------------------------
(* Requests: Create, Update, Complete and Delete of service.go *)

Request(q, p, todo) ==
    /\ writes[q] = Nil
    /\ edits < MaxEdits /\ edits' = edits + 1
    /\ writes' = [ writes EXCEPT ![q] = [ process |-> p, todo |-> todo ] ]
    /\ Disturb
    /\ UNCHANGED <<now, index, trust, loop, batch, reading, faults>>

NewRow(at) == [ status |-> "pending", at |-> at, claim |-> Nil, stale |-> FALSE ]

\* CreateReplacing: the new reminder is indexed before the replaced one is removed.
Create(q, p, id, at) ==
    /\ row[id].status = "absent"
    /\ \/ row' = [ row EXCEPT ![id] = NewRow(at) ]
          /\ Request(q, p, << [ id |-> id, at |-> at ] >>)
       \/ \E old \in PendingIds :
             /\ row' = [ row EXCEPT ![id] = NewRow(at), ![old].status = "closed" ]
             /\ Request(q, p, << [ id |-> id, at |-> at ], [ id |-> old, at |-> Nil ] >>)

Update(q, p, id, at) ==
    /\ Pending(id) /\ at # row[id].at
    /\ row' = [ row EXCEPT ![id].at = at ]
    /\ Request(q, p, << [ id |-> id, at |-> at ] >>)

\* Complete and Delete
Close(q, p, id) ==
    /\ row[id].status \in {"pending", "sent"}
    /\ row' = [ row EXCEPT ![id].status = "closed" ]
    /\ Request(q, p, << [ id |-> id, at |-> Nil ] >>)

Left(q) ==
    IF Len(writes[q].todo) = 1 THEN Nil ELSE [ writes[q] EXCEPT !.todo = Tail(@) ]

\* indexReminder or removeReminderFromIndex; an error is only logged.
WriteIndex(q) ==
    /\ writes[q] # Nil
    /\ LET entry == Head(writes[q].todo)
           written == [ index EXCEPT ![entry.id] = entry.at ]
       IN  \/ index' = written /\ UNCHANGED <<dirty, bounds>>
           \/ index' \in {index, written} /\ MarkDirty(writes[q].process) /\ Fault
    /\ writes' = [ writes EXCEPT ![q] = Left(q) ]
    /\ Disturb
    /\ UNCHANGED <<now, row, degraded, fallback, loop, batch, reading>>

-----------------------------------------------------------------------------
(* The scheduler: RunOnce and checkDueSource *)

HasDue == \E id \in Ids : index[id] # Nil /\ index[id] <= now

\* The index is believed: claim if it shows anything due.
Believe(p) ==
    /\ degraded' = [ degraded EXCEPT ![p] = FALSE ]
    /\ fallback' = [ fallback EXCEPT ![p] = TRUE ]
    /\ Goto(p, IF HasDue THEN "claiming" ELSE "waiting")

BeginReconcile(p, atOnce) ==
    /\ urgent' = [ urgent EXCEPT ![p] = atOnce ]
    /\ disturbed' = [ disturbed EXCEPT ![p] = \E q \in Requests : writes[q] # Nil ]
    /\ Goto(p, "listing")
    /\ UNCHANGED <<indexed, listed>>

\* An index that is not believed is reconciled once per fallback interval.
Distrust(p) ==
    /\ degraded' = [ degraded EXCEPT ![p] = TRUE ]
    /\ \/ fallback[p] /\ BeginReconcile(p, TRUE)
       \/ ~fallback[p] /\ UNCHANGED <<loop, reading, disturbed>>
    /\ fallback' = [ fallback EXCEPT ![p] = FALSE ]

CheckDueSource(p) ==
    /\ loop[p] = "waiting"
    /\ \/ ~dirty[p] /\ ~degraded[p] /\ Believe(p) /\ UNCHANGED <<dirty, reading, disturbed, bounds>>
       \/ (dirty[p] \/ degraded[p]) /\ Distrust(p) /\ UNCHANGED <<dirty, bounds>>
       \/ ~dirty[p] /\ Fault /\ MarkDirty(p) /\ Distrust(p)
    /\ UNCHANGED <<now, state, batch, writes>>

Recheck(p) ==
    /\ loop[p] = "rechecking"
    /\ \/ ~dirty[p] /\ Believe(p) /\ UNCHANGED <<dirty, bounds>>
       \/ /\ IF dirty[p] THEN UNCHANGED <<dirty, bounds>> ELSE Fault /\ MarkDirty(p)
          /\ Goto(p, "claiming") /\ UNCHANGED <<degraded, fallback>>
    /\ UNCHANGED <<now, state, batch, reading, disturbed, writes>>

Rest(p) == Goto(p, "waiting") /\ batch' = [ batch EXCEPT ![p] = Nil ]

ClaimDueForNotification(p) ==
    /\ loop[p] = "claiming"
    /\ \/ \E id \in Ids :
             /\ Due(id)
             /\ row' = [ row EXCEPT ![id].claim = p, ![id].stale = FALSE ]
             /\ batch' = [ batch EXCEPT ![p] = id ] /\ Goto(p, "sending")
             /\ UNCHANGED bounds
       \/ (\A id \in Ids : ~Due(id)) /\ Rest(p) /\ UNCHANGED <<row, bounds>>
       \/ Fault /\ Rest(p) /\ UNCHANGED row
    /\ UNCHANGED <<now, index, trust, reading, disturbed, writes>>

Send(p) ==
    /\ loop[p] = "sending"
    /\ \/ Goto(p, "marking") /\ UNCHANGED bounds
       \/ Fault /\ Goto(p, "releasing")
    /\ UNCHANGED <<now, state, trust, batch, reading, disturbed, writes>>

OwnClaim(p) == Pending(batch[p]) /\ row[batch[p]].claim = p

\* A conflict counts as delivered; after an error the claim is left to its lease.
MarkNotificationSent(p) ==
    /\ loop[p] = "marking"
    /\ \/ /\ row' = IF OwnClaim(p) THEN [ row EXCEPT ![batch[p]].status = "sent" ] ELSE row
          /\ Disturb
          /\ Goto(p, "unindexing") /\ UNCHANGED <<batch, bounds>>
       \/ Fault /\ Rest(p) /\ UNCHANGED <<row, disturbed>>
    /\ UNCHANGED <<now, index, trust, reading, writes>>

ReleaseNotificationClaim(p) ==
    /\ loop[p] = "releasing"
    /\ \/ row' = (IF OwnClaim(p) THEN [ row EXCEPT ![batch[p]].claim = Nil ] ELSE row)
          /\ UNCHANGED bounds
       \/ Fault /\ UNCHANGED row
    /\ Rest(p)
    /\ UNCHANGED <<now, index, trust, reading, disturbed, writes>>

RemoveDelivered(p) ==
    /\ loop[p] = "unindexing"
    /\ LET removed == [ index EXCEPT ![batch[p]] = Nil ]
       IN  \/ index' = removed /\ UNCHANGED <<dirty, bounds>>
           \/ index' \in {index, removed} /\ MarkDirty(p) /\ Fault
    /\ Rest(p) /\ Disturb
    /\ UNCHANGED <<now, row, degraded, fallback, reading, writes>>

-----------------------------------------------------------------------------
(* reconcileReminderIndex, at the start, at a tick of its own, and for checkDueSource *)

StartReconcile(p) ==
    /\ loop[p] \in {"starting", "waiting"}
    /\ BeginReconcile(p, FALSE)
    /\ UNCHANGED <<now, state, trust, batch, writes, bounds>>

ForgetRead(p) ==
    /\ indexed' = [ indexed EXCEPT ![p] = {} ]
    /\ listed' = [ listed EXCEPT ![p] = [ id \in Ids |-> Nil ] ]
    /\ urgent' = [ urgent EXCEPT ![p] = FALSE ]

\* Without an index to go by, RunOnce claims from the table.
ReconcileFails(p) ==
    /\ Fault /\ ForgetRead(p)
    /\ degraded' = [ degraded EXCEPT ![p] = TRUE ]
    /\ Goto(p, IF urgent[p] THEN "claiming" ELSE "waiting")

\* The version is taken as reconciled before the work is done.
AllIDs(p) ==
    /\ loop[p] = "listing"
    /\ \/ /\ indexed' = [ indexed EXCEPT ![p] = { id \in Ids : index[id] # Nil } ]
          /\ dirty' = [ dirty EXCEPT ![p] = FALSE ]
          /\ Goto(p, "reading") /\ UNCHANGED <<degraded, urgent, listed, bounds>>
       \/ ReconcileFails(p) /\ MarkDirty(p)
    /\ UNCHANGED <<now, state, fallback, batch, disturbed, writes>>

ListPendingForNotification(p) ==
    /\ loop[p] = "reading"
    /\ \/ /\ listed' = [ listed EXCEPT ![p] = Schedule ]
          /\ Goto(p, "upserting") /\ UNCHANGED <<degraded, urgent, indexed, bounds>>
       \/ ReconcileFails(p)
    /\ UNCHANGED <<now, state, dirty, fallback, batch, disturbed, writes>>

\* Seeded fault: an entry that is there keeps its time.
ScoredOnce(ids, pending) ==
    [ id \in Ids |-> IF id \in ids /\ pending[id] # Nil /\ index[id] = Nil
                     THEN pending[id] ELSE index[id] ]

\* Seeded fault: what is missing is not put back.
Unscored(ids, pending) == index

Scored(ids, pending) ==
    [ id \in Ids |-> IF id \in ids /\ pending[id] # Nil THEN pending[id] ELSE index[id] ]

\* A failed batch may have written some of its entries.
UpsertMany(p) ==
    /\ loop[p] = "upserting"
    /\ \/ /\ index' = Scored(Ids, listed[p])
          /\ Goto(p, "removing") /\ UNCHANGED <<dirty, degraded, reading, bounds>>
       \/ /\ \E some \in SUBSET Ids : index' = Scored(some, listed[p])
          /\ ReconcileFails(p) /\ MarkDirty(p)
    /\ DisturbOthers(p)
    /\ UNCHANGED <<now, row, fallback, batch, writes>>

Without(ids) == [ id \in Ids |-> IF id \in ids THEN Nil ELSE index[id] ]
StaleIds(p) == { id \in indexed[p] : listed[p][id] = Nil }

RemoveMany(p) ==
    /\ loop[p] = "removing"
    /\ \/ /\ index' = Without(StaleIds(p))
          /\ ForgetRead(p)
          /\ IF urgent[p] THEN Goto(p, "rechecking") /\ UNCHANGED degraded
                          ELSE Goto(p, "waiting") /\ degraded' = [ degraded EXCEPT ![p] = FALSE ]
          /\ UNCHANGED <<dirty, bounds>>
       \/ /\ \E some \in SUBSET StaleIds(p) : index' = Without(some)
          /\ ReconcileFails(p) /\ MarkDirty(p)
    /\ DisturbOthers(p)
    /\ UNCHANGED <<now, row, fallback, batch, writes>>

-----------------------------------------------------------------------------
\* The process dies and starts again; its versions are both 0.
Crash(p) ==
    /\ Fault
    /\ dirty' = [ dirty EXCEPT ![p] = FALSE ] /\ degraded' = [ degraded EXCEPT ![p] = FALSE ]
    /\ fallback' = [ fallback EXCEPT ![p] = TRUE ]
    /\ Goto(p, "starting") /\ batch' = [ batch EXCEPT ![p] = Nil ]
    /\ ForgetRead(p)
    /\ writes' = [ q \in Requests |-> IF writes[q] # Nil /\ writes[q].process = p
                                      THEN Nil ELSE writes[q] ]
    /\ Disturb
    /\ UNCHANGED <<now, state>>

FallbackIntervalPasses(p) ==
    /\ ~fallback[p] /\ fallback' = [ fallback EXCEPT ![p] = TRUE ]
    /\ UNCHANGED <<now, state, dirty, degraded, loop, batch, reading, disturbed, writes, bounds>>

\* A scheduler is not slower than its lease, but for a fault.
LeaseExpires(id) ==
    /\ Pending(id) /\ row[id].claim # Nil /\ ~row[id].stale
    /\ IF batch[row[id].claim] = id THEN Fault ELSE UNCHANGED bounds
    /\ row' = [ row EXCEPT ![id].stale = TRUE ]
    /\ UNCHANGED <<now, index, trust, loop, batch, reading, disturbed, writes>>

Tick ==
    /\ now + 1 \in Times /\ now' = now + 1
    /\ UNCHANGED <<state, trust, loop, batch, reading, disturbed, writes, bounds>>

-----------------------------------------------------------------------------
\* The processes start on whatever is left in Redis.
Init ==
    /\ now = 1
    /\ row = [ id \in Ids |-> [ NewRow(1) EXCEPT !.status = "absent" ] ]
    /\ index \in [ Ids -> {1, Nil} ]
    /\ dirty = [ p \in Processes |-> FALSE ] /\ degraded = [ p \in Processes |-> FALSE ]
    /\ fallback = [ p \in Processes |-> TRUE ]
    /\ loop = [ p \in Processes |-> "starting" ] /\ batch = [ p \in Processes |-> Nil ]
    /\ urgent = [ p \in Processes |-> FALSE ] /\ indexed = [ p \in Processes |-> {} ]
    /\ listed = [ p \in Processes |-> [ id \in Ids |-> Nil ] ]
    /\ disturbed = [ p \in Processes |-> TRUE ]
    /\ writes = [ q \in Requests |-> Nil ]
    /\ edits = 0 /\ faults = 0

\* What a scheduler does once it has begun.
Proceed(p) ==
    \/ Recheck(p)
    \/ ClaimDueForNotification(p)
    \/ Send(p)
    \/ MarkNotificationSent(p)
    \/ ReleaseNotificationClaim(p)
    \/ RemoveDelivered(p)
    \/ AllIDs(p)
    \/ ListPendingForNotification(p)
    \/ UpsertMany(p)
    \/ RemoveMany(p)

Next ==
    \/ \E p \in Processes :
         \/ \E q \in Requests, id \in Ids :
              \/ \E at \in Times : Create(q, p, id, at) \/ Update(q, p, id, at)
              \/ Close(q, p, id)
         \/ CheckDueSource(p)
         \/ StartReconcile(p)
         \/ Proceed(p)
         \/ Crash(p)
         \/ FallbackIntervalPasses(p)
    \/ \E q \in Requests : WriteIndex(q)
    \/ \E id \in Ids : LeaseExpires(id)
    \/ Tick

\* Every call returns; the loop's select serves both of its tickers.
Fairness ==
    /\ \A p \in Processes :
         /\ WF_vars(Proceed(p)) /\ WF_vars(FallbackIntervalPasses(p))
         /\ SF_vars(CheckDueSource(p)) /\ SF_vars(StartReconcile(p))
    /\ \A q \in Requests : WF_vars(WriteIndex(q))
    /\ \A id \in Ids : WF_vars(LeaseExpires(id))
    /\ WF_vars(Tick)

Spec == Init /\ [][Next]_vars /\ Fairness

-----------------------------------------------------------------------------
(* Properties *)

\* Every variable has its type.
TypeOK ==
    /\ now \in Times /\ row \in [ Ids -> Row ] /\ index \in [ Ids -> Times \union {Nil} ]
    /\ dirty \in [ Processes -> BOOLEAN ] /\ degraded \in [ Processes -> BOOLEAN ]
    /\ fallback \in [ Processes -> BOOLEAN ]
    /\ loop \in [ Processes -> {"starting", "waiting", "claiming", "sending", "marking", "releasing",
                     "unindexing", "listing", "reading", "upserting", "removing", "rechecking"} ]
    /\ batch \in [ Processes -> Ids \union {Nil} ] /\ urgent \in [ Processes -> BOOLEAN ]
    /\ indexed \in [ Processes -> SUBSET Ids ]
    /\ listed \in [ Processes -> [ Ids -> Times \union {Nil} ] ]
    /\ disturbed \in [ Processes -> BOOLEAN ] /\ writes \in [ Requests -> Write \union {Nil} ]
    /\ edits \in 0..MaxEdits /\ faults \in 0..MaxFaults

\* A reconciliation that nothing disturbed leaves exactly the pending reminders in
\* the index, each at its time, whatever was left of earlier ones.
QuietReconciliationIsExact ==
    [][ \A p \in Processes :
          loop[p] = "removing" /\ ~disturbed[p]
            /\ (loop'[p] = "rechecking" \/ (loop'[p] = "waiting" /\ ~degraded'[p]))
            => index' = Schedule ]_vars

\* A reminder past its time is sent, closed or put off in the end, though index writes
\* fail, come out of order or are overwritten by a reconciliation.
OverdueIsDealtWith == \A id \in Ids : Overdue(id) ~> ~Overdue(id)
===============================================================================
