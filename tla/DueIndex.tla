------------------------------ MODULE DueIndex ------------------------------
(***************************************************************************)
(* The Redis index of due deliveries of scheduled messages, as one server  *)
(* process keeps it:                                                       *)
(*   src/internal/cache/scheduledmessage/redis_index.go      the index     *)
(*   src/internal/services/scheduledmessage/scheduler.go     its loop      *)
(*   src/internal/services/scheduledmessage/service.go       its requests  *)
(*                                                                         *)
(* PostgreSQL is the truth; the index only tells the loop whether a claim  *)
(* is worth a query.  Rows are the delivery rows of one schedule, all of   *)
(* them past their time, so the score of an entry is not kept.  Every      *)
(* change of a row is a lifecycle mutation: begin, commit in PostgreSQL,   *)
(* write the index entry by entry, finish.  Reconciliation rebuilds the    *)
(* index and is believed only if no mutation touched it meanwhile.         *)
(***************************************************************************)
EXTENDS Naturals, FiniteSets, Sequences

CONSTANTS
    Rows,           \* delivery rows of the schedule
    Requests,       \* concurrent API requests
    Worker,         \* the scheduler's worker, the other one to mutate
    Nil,
    MaxFaults       \* bound of the model: failures and restarts

ASSUME IndexAssumption ==
    /\ IsFiniteSet(Requests) /\ Worker \notin Requests
    /\ Nil \notin Rows /\ MaxFaults \in Nat

VARIABLES
    row,            \* status of each row
    leased,         \* rows with an unexpired lease
    active,         \* the schedule is ACTIVE
    index,          \* members of the sorted set in Redis
    moved,          \* version differs from the one reconciliation read
    inFlight,       \* mutations begun and not finished
    degraded,       \* the index is not to be believed
    at,             \* where each mutation stands
    todo,           \* index writes a committed mutation has left
    failed,         \* a write of this mutation has failed
    loop,           \* where the scheduler loop stands
    batch,          \* the row the loop has claimed
    indexed, listed,    \* what reconciliation has read from the index and the table
    fallback,       \* DatabaseFallbackInterval has passed since the last fallback
    faults          \* failures so far, of MaxFaults

tables == <<row, leased, active>>
metadata == <<moved, inFlight, degraded>>
mutation == <<at, todo, failed>>
reading == <<indexed, listed>>
vars == <<tables, index, metadata, mutation, loop, batch, reading, fallback, faults>>

Mutators == Requests \union {Worker}

PendingRows == { r \in Rows : row[r] = "pending" }
DueRows == IF active THEN PendingRows \ leased ELSE {}

Upsert(r) == [ op |-> "upsert", row |-> r ]
Remove(r) == [ op |-> "remove", row |-> r ]

-----------------------------------------------------------------------------
(* Version, in-flight count and degraded flag, under the index's mutex *)

\* Seeded fault: a failed mutation is never counted out.
FinishLeaking(err) ==
    /\ moved' = TRUE /\ inFlight' = IF err THEN inFlight ELSE inFlight - 1
    /\ degraded' = (degraded \/ err)

BeginMutation == moved' = TRUE /\ inFlight' = inFlight + 1 /\ UNCHANGED degraded

FinishMutation(err) ==
    /\ moved' = TRUE /\ inFlight' = inFlight - 1
    /\ degraded' = (degraded \/ err)

MarkDirty == moved' = TRUE /\ degraded' = TRUE /\ UNCHANGED inFlight

Fault == faults < MaxFaults /\ faults' = faults + 1

-----------------------------------------------------------------------------
(* A lifecycle mutation *)

Applied(entry) ==
    IF entry.op = "upsert" THEN index \union {entry.row} ELSE index \ {entry.row}

\* A write of one entry.  Its own begin and finish lie within the mutation's.
\* Redis may have done what it did not answer for.
WriteEntry(m) ==
    /\ at[m] = "writing" /\ todo[m] # <<>>
    /\ \/ index' = Applied(Head(todo[m])) /\ UNCHANGED <<failed, faults, degraded>>
       \/ /\ index' \in {index, Applied(Head(todo[m]))}
          /\ Fault /\ failed' = [failed EXCEPT ![m] = TRUE] /\ degraded' = TRUE
    /\ todo' = [todo EXCEPT ![m] = Tail(@)]
    /\ moved' = TRUE
    /\ UNCHANGED <<tables, inFlight, at, loop, batch, reading, fallback>>

Begin(m) ==
    /\ at' = [at EXCEPT ![m] = "begun"]
    /\ BeginMutation

\* The transaction is over: write what it changed, or give up.
Written(m, entries) ==
    /\ at' = [at EXCEPT ![m] = "writing"]
    /\ todo' = [todo EXCEPT ![m] = entries]
    /\ UNCHANGED <<metadata, failed>>

GivenUp(m) ==
    /\ at' = [at EXCEPT ![m] = "idle"]
    /\ FinishMutation(TRUE)
    /\ UNCHANGED <<todo, failed>>

Finished(m) ==
    /\ at[m] = "writing" /\ todo[m] = <<>>
    /\ at' = [at EXCEPT ![m] = "idle"]
    /\ failed' = [failed EXCEPT ![m] = FALSE]
    /\ FinishMutation(failed[m])
    /\ UNCHANGED <<tables, index, todo, reading, fallback, faults>>

-----------------------------------------------------------------------------
(* Requests: Update, Cancel and Unsubscribe of service.go *)

BeginRequest(q) ==
    /\ at[q] = "idle" /\ active
    /\ Begin(q)
    /\ UNCHANGED <<tables, index, todo, failed, loop, batch, reading, fallback, faults>>

\* Every row that was pending is removed, a reused one too, before it is put back.
Entries(withdrawn, opened) ==
    (IF withdrawn = Nil THEN <<>> ELSE <<Remove(withdrawn)>>)
        \o (IF opened = Nil THEN <<>> ELSE <<Upsert(opened)>>)

\* UpdateActive opens one row, transitionTerminal none; what was pending is
\* withdrawn, and no lease survives.  An ended schedule is a conflict.
CommitRequest(q) ==
    /\ at[q] = "begun" /\ active
    /\ \E opened \in { r \in Rows : row[r] \in {"absent", "pending", "cancelled"} } \union {Nil},
          withdrawn \in IF PendingRows = {} THEN {Nil} ELSE PendingRows :
          /\ row' = [ r \in Rows |-> IF r = opened THEN "pending"
                                     ELSE IF r = withdrawn THEN "cancelled" ELSE row[r] ]
          /\ active' = (opened # Nil)
          /\ Written(q, Entries(withdrawn, opened))
    /\ leased' = {}
    /\ UNCHANGED <<index, loop, batch, reading, fallback, faults>>

RefuseRequest(q) ==
    /\ at[q] = "begun"
    /\ \/ ~active /\ UNCHANGED faults
       \/ active /\ Fault
    /\ GivenUp(q)
    /\ UNCHANGED <<tables, index, loop, batch, reading, fallback>>

FinishRequest(q) == Finished(q) /\ UNCHANGED <<loop, batch>>

-----------------------------------------------------------------------------
(* The scheduler loop: RunOnce *)

\* HasDue and useDatabaseFallback: an index that is not believed, or that does
\* not answer, leaves the claim to the fallback interval.
CheckDue ==
    /\ loop = "waiting"
    /\ \/ /\ ~degraded /\ index # {}
          /\ UNCHANGED <<fallback, faults>> /\ BeginMutation
          /\ loop' = "claiming"
       \/ /\ degraded /\ fallback
          /\ fallback' = FALSE /\ UNCHANGED faults /\ BeginMutation
          /\ loop' = "claiming"
       \/ /\ ~degraded /\ Fault
          /\ degraded' = TRUE /\ moved' = TRUE
          /\ IF fallback THEN fallback' = FALSE /\ inFlight' = inFlight + 1 /\ loop' = "claiming"
                         ELSE UNCHANGED <<fallback, inFlight, loop>>
    /\ UNCHANGED <<tables, index, mutation, batch, reading>>

FallbackIntervalPasses ==
    /\ ~fallback /\ fallback' = TRUE
    /\ UNCHANGED <<tables, index, metadata, mutation, loop, batch, reading, faults>>

\* ClaimDue and the removal of what it claimed.
ClaimDue ==
    /\ loop = "claiming"
    /\ \/ /\ DueRows = {}
          /\ FinishMutation(FALSE) /\ loop' = "waiting"
          /\ UNCHANGED <<leased, batch, faults>>
       \/ \E r \in DueRows :
             /\ leased' = leased \union {r} /\ batch' = r
             /\ loop' = "unindexing" /\ UNCHANGED <<metadata, faults>>
       \/ /\ Fault
          /\ FinishMutation(TRUE) /\ loop' = "waiting"
          /\ UNCHANGED <<leased, batch>>
    /\ UNCHANGED <<row, active, index, mutation, reading, fallback>>

RemoveClaimed ==
    /\ loop = "unindexing"
    /\ \/ index' = index \ {batch} /\ FinishMutation(FALSE) /\ UNCHANGED faults
       \/ index' \in {index, index \ {batch}} /\ FinishMutation(TRUE) /\ Fault
    /\ loop' = "working"
    /\ UNCHANGED <<tables, mutation, batch, reading, fallback>>

Rest == loop' = "waiting" /\ batch' = Nil

OwnsRow == active /\ batch \in leased

\* A worker that has lost its claim, or fails, before it begins a mutation
\* returns without touching the index.
GiveUpEarly ==
    /\ loop = "working" /\ at[Worker] = "idle"
    /\ \/ ~OwnsRow /\ UNCHANGED faults
       \/ OwnsRow /\ Fault
    /\ Rest
    /\ UNCHANGED <<tables, index, metadata, mutation, reading, fallback>>

BeginWork ==
    /\ loop = "working" /\ at[Worker] = "idle"
    /\ Begin(Worker)
    /\ UNCHANGED <<tables, index, todo, failed, loop, batch, reading, fallback, faults>>

\* RecordRetry puts the row back; the occurrence ends without or with a next one.
\* A send that ends one leaves its entry to the removal after the claim, a failure
\* removes it again (syncFinalIndex).
CommitWork ==
    /\ at[Worker] = "begun" /\ OwnsRow
    /\ leased' = leased \ {batch}
    /\ \/ /\ UNCHANGED <<row, active>>
          /\ Written(Worker, <<Upsert(batch)>>)
       \/ /\ row' = [row EXCEPT ![batch] = "done"] /\ active' = FALSE
          /\ Written(Worker, <<Remove(batch)>>)
       \/ \E next \in { r \in Rows : row[r] = "absent" } :
             /\ row' = [row EXCEPT ![batch] = "done", ![next] = "pending"]
             /\ UNCHANGED active
             /\ \/ Written(Worker, <<Upsert(next)>>)
                \/ Written(Worker, <<Remove(batch), Upsert(next)>>)
    /\ UNCHANGED <<index, loop, batch, reading, fallback, faults>>

\* ErrClaimConflict, ErrDispatchOutcomeUncertain or a failed statement.
LoseWork ==
    /\ at[Worker] = "begun"
    /\ \/ ~OwnsRow /\ UNCHANGED faults
       \/ OwnsRow /\ Fault
    /\ GivenUp(Worker)
    /\ Rest
    /\ UNCHANGED <<tables, index, reading, fallback>>

FinishWork == Finished(Worker) /\ Rest

\* A worker is not slower than its lease, but for a fault.
LeaseExpires ==
    /\ leased # {} /\ leased' = {}
    /\ IF batch = Nil THEN UNCHANGED faults ELSE Fault
    /\ UNCHANGED <<row, active, index, metadata, mutation, loop, batch, reading, fallback>>

-----------------------------------------------------------------------------
(* The scheduler loop: reconcileIndex, at start and at every tick of its own *)

StartReconcile ==
    /\ loop \in {"starting", "waiting"}
    /\ moved' = FALSE /\ loop' = "listing"
    /\ UNCHANGED <<tables, index, inFlight, degraded, mutation, batch, reading, fallback, faults>>

Forget == loop' = "waiting" /\ indexed' = {} /\ listed' = {}

\* A read or write of Redis that fails ends the reconciliation.
ReconcileFails == Fault /\ MarkDirty /\ Forget

AllIDs ==
    /\ loop = "listing"
    /\ \/ indexed' = index /\ loop' = "reading" /\ UNCHANGED <<listed, metadata, faults>>
       \/ ReconcileFails
    /\ UNCHANGED <<tables, index, mutation, batch, fallback>>

ListPendingForIndex ==
    /\ loop = "reading"
    /\ \/ /\ listed' = IF active THEN PendingRows ELSE {}
          /\ loop' = "upserting" /\ UNCHANGED <<indexed, faults>>
       \/ Fault /\ Forget
    /\ UNCHANGED <<tables, index, metadata, mutation, batch, fallback>>

\* Seeded fault: the batch writes of a reconciliation count as a new version.
BatchCounted == moved' = TRUE /\ UNCHANGED <<inFlight, degraded>>

\* Batch writes are not mutations: they leave the version alone.
BatchWritten == UNCHANGED metadata

\* Seeded fault: reconciliation only removes what is stale.
RebuiltNot(pending) == index

Rebuilt(pending) == index \union pending

\* A failed batch may have written some of its entries.
UpsertMany ==
    /\ loop = "upserting"
    /\ \/ /\ index' = Rebuilt(listed) /\ BatchWritten
          /\ loop' = "removing" /\ UNCHANGED <<reading, faults>>
       \/ \E some \in SUBSET listed : index' = index \union some /\ ReconcileFails
    /\ UNCHANGED <<tables, mutation, batch, fallback>>

RemoveMany ==
    /\ loop = "removing"
    /\ \/ /\ index' = index \ (indexed \ listed)
          /\ BatchWritten
          /\ loop' = "marking" /\ UNCHANGED <<reading, faults>>
       \/ \E some \in SUBSET (indexed \ listed) : index' = index \ some /\ ReconcileFails
    /\ UNCHANGED <<tables, mutation, batch, fallback>>

\* Seeded fault: a mutation that is still in flight is overlooked.
UntouchedIgnoringFlight == ~moved

Untouched == ~moved /\ inFlight = 0

MarkReconciled ==
    /\ loop = "marking"
    /\ degraded' = ~Untouched
    /\ Forget
    /\ UNCHANGED <<tables, index, moved, inFlight, mutation, batch, fallback, faults>>

-----------------------------------------------------------------------------

\* The process dies and starts again: what it kept in memory is gone.
Restart ==
    /\ Fault
    /\ moved' = TRUE /\ inFlight' = 0 /\ degraded' = TRUE
    /\ at' = [ m \in Mutators |-> "idle" ] /\ todo' = [ m \in Mutators |-> <<>> ]
    /\ failed' = [ m \in Mutators |-> FALSE ]
    /\ loop' = "starting" /\ batch' = Nil /\ indexed' = {} /\ listed' = {}
    /\ fallback' = TRUE
    /\ UNCHANGED <<tables, index>>

\* A process starts on whatever an earlier one left in Redis.
Init ==
    /\ \E first \in Rows : row = [ r \in Rows |-> IF r = first THEN "pending" ELSE "absent" ]
    /\ leased = {} /\ active = TRUE
    /\ index \in SUBSET Rows
    /\ moved = TRUE /\ inFlight = 0 /\ degraded = TRUE
    /\ at = [ m \in Mutators |-> "idle" ] /\ todo = [ m \in Mutators |-> <<>> ]
    /\ failed = [ m \in Mutators |-> FALSE ]
    /\ loop = "starting" /\ batch = Nil /\ indexed = {} /\ listed = {}
    /\ fallback = TRUE /\ faults = 0

Request(q) == BeginRequest(q) \/ CommitRequest(q) \/ RefuseRequest(q) \/ FinishRequest(q)
Work == GiveUpEarly \/ BeginWork \/ CommitWork \/ LoseWork \/ FinishWork
Reconcile == AllIDs \/ ListPendingForIndex \/ UpsertMany \/ RemoveMany \/ MarkReconciled

Next ==
    \/ \E q \in Requests : Request(q)
    \/ \E m \in Mutators : WriteEntry(m)
    \/ CheckDue \/ FallbackIntervalPasses \/ ClaimDue \/ RemoveClaimed \/ Work
    \/ LeaseExpires \/ StartReconcile \/ Reconcile \/ Restart

Spec == Init /\ [][Next]_vars

\* Every call returns; the loop's select serves both of its tickers.
Fairness ==
    /\ \A m \in Mutators : WF_vars(WriteEntry(m))
    /\ \A q \in Requests : WF_vars(at[q] # "idle" /\ Request(q))
    /\ WF_vars(ClaimDue \/ RemoveClaimed \/ Work \/ Reconcile)
    /\ WF_vars(FallbackIntervalPasses) /\ WF_vars(LeaseExpires)
    /\ SF_vars(CheckDue) /\ SF_vars(StartReconcile)

FairSpec == Spec /\ Fairness

-----------------------------------------------------------------------------
(* Properties *)

Entry == [ op : {"upsert", "remove"}, row : Rows ]

\* Every variable has its type, and the count in flight is that of the mutations
\* begun: a mutation that fails is counted out like one that succeeds.
TypeOK ==
    /\ row \in [Rows -> {"absent", "pending", "cancelled", "done"}]
    /\ leased \subseteq Rows /\ active \in BOOLEAN /\ index \subseteq Rows
    /\ moved \in BOOLEAN /\ degraded \in BOOLEAN
    /\ inFlight = Cardinality({ m \in Mutators : at[m] # "idle" })
                    + (IF loop \in {"claiming", "unindexing"} THEN 1 ELSE 0)
    /\ at \in [Mutators -> {"idle", "begun", "writing"}]
    /\ todo \in [Mutators -> Seq(Entry)] /\ failed \in [Mutators -> BOOLEAN]
    /\ loop \in {"starting", "waiting", "claiming", "unindexing", "working", "listing",
                 "reading", "upserting", "removing", "marking"}
    /\ batch \in Rows \union {Nil} /\ indexed \subseteq Rows /\ listed \subseteq Rows
    /\ fallback \in BOOLEAN /\ faults \in 0..MaxFaults

\* At the moment reconciliation makes the index trusted again, it holds exactly the
\* pending rows, whatever requests committed, wrote or failed around it.
ReconciledIndexIsExact ==
    [][ degraded /\ ~degraded' => index' = PendingRows' ]_vars

\* A due row is claimed or withdrawn in the end, although entries get lost.
DueRowsAreClaimed == \A r \in Rows : (r \in DueRows) ~> (r \notin DueRows)

\* Once requests stop coming, the index is trusted again and again.
TrustReturns ==
    <>[](\A q \in Requests : at[q] = "idle") => []<>(~degraded)
=============================================================================
