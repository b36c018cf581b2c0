--------------------------- MODULE Indexes_proofs ---------------------------
(* Proofs about the two indexes in Redis, DueIndex and ReminderIndex: their types
   and what a reconciliation is believed for, for any number of rows, requests,
   processes and faults.                                                      *)
EXTENDS MCIndexes, FiniteSetTheorems, SequenceTheorems, TLAPS

-----------------------------------------------------------------------------
(* DueIndex: the invariant *)

Begun == { m \in Mutators : at[m] # "idle" }
Claiming == IF loop \in {"claiming", "unindexing"} THEN 1 ELSE 0

\* The types alone; the count in flight is a conjunct of its own.
Types ==
    /\ row \in [Rows -> {"absent", "pending", "cancelled", "done"}]
    /\ leased \subseteq Rows /\ active \in BOOLEAN /\ index \subseteq Rows
    /\ moved \in BOOLEAN /\ degraded \in BOOLEAN
    /\ at \in [Mutators -> {"idle", "begun", "writing"}]
    /\ todo \in [Mutators -> Seq(Entry)] /\ failed \in [Mutators -> BOOLEAN]
    /\ loop \in {"starting", "waiting", "claiming", "unindexing", "working", "listing",
                 "reading", "upserting", "removing", "marking"}
    /\ batch \in Rows \union {Nil} /\ indexed \subseteq Rows /\ listed \subseteq Rows
    /\ fallback \in BOOLEAN /\ faults \in 0..MaxFaults

CountIsRight == inFlight = Cardinality(Begun) + Claiming

\* Only the loop's own work makes the worker begin a mutation.
WorkerWorks == at[Worker] # "idle" => loop = "working"

\* A schedule has one pending row at most, none once it has ended, and only that
\* row is leased.
OnePending == \A r, s \in Rows : row[r] = "pending" /\ row[s] = "pending" => r = s
EndedHasNone == ~active => PendingRows = {}
LeasedArePending == leased \subseteq PendingRows

\* What reconciliation has read is still so, as long as nothing has moved.
ReadIsCurrent ==
    ~moved /\ inFlight = 0 =>
      /\ loop = "reading" => index = indexed
      /\ loop = "upserting" => index = indexed /\ listed = PendingRows
      /\ loop = "removing" => index = indexed \union listed /\ listed = PendingRows
      /\ loop = "marking" => index = PendingRows

Rests == OnePending /\ EndedHasNone /\ LeasedArePending
DInv == Types /\ CountIsRight /\ WorkerWorks /\ Rests /\ ReadIsCurrent

-----------------------------------------------------------------------------
(* Counting the mutations in flight *)

LEMMA BegunIsFinite == IsFiniteSet(Begun) /\ Cardinality(Begun) \in Nat
<1>1. IsFiniteSet(Mutators)
  BY IndexAssumption, FS_AddElement DEF Mutators
<1>. QED
  BY <1>1, FS_Subset, FS_CardinalityType DEF Begun

LEMMA OneMoreBegun ==
    ASSUME Types, NEW m \in Mutators, at[m] = "idle", at' = [at EXCEPT ![m] = "begun"]
    PROVE  Cardinality(Begun') = Cardinality(Begun) + 1
<1>1. Begun' = Begun \union {m} /\ m \notin Begun
  BY DEF Begun, Types
<1>. QED
  BY <1>1, BegunIsFinite, FS_AddElement

LEMMA OneLessBegun ==
    ASSUME Types, NEW m \in Mutators, at[m] # "idle", at' = [at EXCEPT ![m] = "idle"]
    PROVE  Cardinality(Begun') = Cardinality(Begun) - 1
<1>1. Begun' = Begun \ {m} /\ m \in Begun
  BY DEF Begun, Types
<1>. QED
  BY <1>1, BegunIsFinite, FS_RemoveElement

LEMMA AsManyBegun ==
    ASSUME Types, NEW m \in Mutators, at[m] = "begun", at' = [at EXCEPT ![m] = "writing"]
    PROVE  Begun' = Begun
  BY DEF Begun, Types

\* Whoever has begun a mutation is counted.
LEMMA BegunIsCounted ==
    ASSUME Types, CountIsRight, NEW m \in Mutators, at[m] # "idle"
    PROVE  inFlight \in Nat /\ inFlight # 0
<1>1. m \in Begun
  BY DEF Begun
<1>2. Cardinality(Begun) # 0
  BY <1>1, BegunIsFinite, FS_EmptySet
<1>. QED
  BY <1>2, BegunIsFinite DEF CountIsRight, Claiming

-----------------------------------------------------------------------------
(* The types *)

LEMMA EntriesType ==
    ASSUME NEW w \in Rows \union {Nil}, NEW o \in Rows \union {Nil}
    PROVE  Entries(w, o) \in Seq(Entry)
<1>1. \A r \in Rows : Upsert(r) \in Entry /\ Remove(r) \in Entry
  BY DEF Upsert, Remove, Entry
<1>. DEFINE out == IF w = Nil THEN <<>> ELSE <<Remove(w)>>
            in == IF o = Nil THEN <<>> ELSE <<Upsert(o)>>
<1>2. out \in Seq(Entry) /\ in \in Seq(Entry)
  BY <1>1
<1>. QED
  BY <1>2 DEF Entries

LEMMA WorkEntriesType ==
    ASSUME NEW r \in Rows, NEW s \in Rows
    PROVE  /\ <<Upsert(r)>> \in Seq(Entry) /\ <<Remove(r)>> \in Seq(Entry)
           /\ <<Remove(r), Upsert(s)>> \in Seq(Entry)
<1>1. Upsert(r) \in Entry /\ Remove(r) \in Entry /\ Upsert(s) \in Entry
  BY DEF Upsert, Remove, Entry
<1>. QED
  BY <1>1

LEMMA AppliedType ==
    ASSUME Types, NEW e \in Entry
    PROVE  Applied(e) \subseteq Rows
  BY DEF Types, Applied, Entry

LEMMA FaultType ==
    ASSUME Types, Fault \/ UNCHANGED faults
    PROVE  faults' \in 0..MaxFaults
  BY IndexAssumption DEF Types, Fault

LEMMA TypesInit == Init => Types
  BY IndexAssumption DEF Init, Types

LEMMA TypesRequest ==
    ASSUME Types, NEW q \in Requests, Request(q)
    PROVE  Types'
<1>0. q \in Mutators
  BY DEF Mutators
<1>1. CASE BeginRequest(q)
  BY <1>0, <1>1 DEF BeginRequest, Begin, BeginMutation, tables, reading, Types
<1>2. CASE CommitRequest(q)
  <2>1. PICK opened \in { r \in Rows : row[r] \in {"absent", "pending", "cancelled"} }
                          \union {Nil},
             withdrawn \in IF PendingRows = {} THEN {Nil} ELSE PendingRows :
          /\ row' = [ r \in Rows |-> IF r = opened THEN "pending"
                                     ELSE IF r = withdrawn THEN "cancelled" ELSE row[r] ]
          /\ active' = (opened # Nil)
          /\ Written(q, Entries(withdrawn, opened))
    BY <1>2 DEF CommitRequest
  <2>2. opened \in Rows \union {Nil} /\ withdrawn \in Rows \union {Nil}
    BY DEF PendingRows
  <2>3. Entries(withdrawn, opened) \in Seq(Entry)
    BY <2>2, EntriesType
  <2>4. row' \in [Rows -> {"absent", "pending", "cancelled", "done"}]
    BY <2>1 DEF Types
  <2>. QED
    BY <1>0, <1>2, <2>1, <2>3, <2>4 DEF CommitRequest, Written, metadata, reading, Types
<1>3. CASE RefuseRequest(q)
  BY FaultType, <1>0, <1>3 DEF RefuseRequest, GivenUp, FinishMutation, tables, reading, Types
<1>4. CASE FinishRequest(q)
  BY <1>0, <1>4 DEF FinishRequest, Finished, FinishMutation, tables, reading, Types
<1>. QED
  BY <1>1, <1>2, <1>3, <1>4 DEF Request

LEMMA TypesWrite ==
    ASSUME Types, NEW m \in Mutators, WriteEntry(m)
    PROVE  Types'
<1>1. todo[m] \in Seq(Entry) /\ todo[m] # <<>>
  BY DEF WriteEntry, Types
<1>2. Head(todo[m]) \in Entry /\ Tail(todo[m]) \in Seq(Entry)
  BY <1>1
<1>3. Applied(Head(todo[m])) \subseteq Rows
  BY <1>2, AppliedType
<1>4. index' \subseteq Rows
  BY <1>3 DEF WriteEntry, Types
<1>5. todo' \in [Mutators -> Seq(Entry)]
  BY <1>2 DEF WriteEntry, Types
<1>. QED
  BY FaultType, <1>4, <1>5 DEF WriteEntry, tables, reading, Types

LEMMA TypesWork ==
    ASSUME Types, Work
    PROVE  Types'
<1>0. Worker \in Mutators
  BY DEF Mutators
<1>1. CASE GiveUpEarly
  BY FaultType, <1>1 DEF GiveUpEarly, Rest, tables, metadata, mutation, reading, Types
<1>2. CASE BeginWork
  BY <1>0, <1>2 DEF BeginWork, Begin, BeginMutation, tables, reading, Types
<1>3. CASE CommitWork
  <2>1. batch \in Rows
    BY <1>3 DEF CommitWork, OwnsRow, Types
  <2>2. /\ row' \in [Rows -> {"absent", "pending", "cancelled", "done"}]
        /\ active' \in BOOLEAN
    BY <1>3 DEF CommitWork, Types
  <2>3. \E entries \in Seq(Entry) : Written(Worker, entries)
    BY <1>3, <2>1, WorkEntriesType DEF CommitWork
  <2>. QED
    BY <1>0, <1>3, <2>2, <2>3 DEF CommitWork, Written, metadata, reading, Types
<1>4. CASE LoseWork
  BY FaultType, <1>0, <1>4 DEF LoseWork, GivenUp, FinishMutation, Rest, tables, reading, Types
<1>5. CASE FinishWork
  BY <1>0, <1>5 DEF FinishWork, Finished, FinishMutation, Rest, tables, reading, Types
<1>. QED
  BY <1>1, <1>2, <1>3, <1>4, <1>5 DEF Work

LEMMA TypesReconcile ==
    ASSUME Types, StartReconcile \/ Reconcile
    PROVE  Types'
<1>. USE FaultType DEF tables, metadata, mutation, reading, MarkDirty, Forget, ReconcileFails
<1>1. CASE StartReconcile
  BY <1>1 DEF StartReconcile, Types
<1>2. CASE AllIDs
  BY <1>2 DEF AllIDs, Types
<1>3. CASE ListPendingForIndex
  BY <1>3 DEF ListPendingForIndex, PendingRows, Types
<1>4. CASE UpsertMany
  BY <1>4 DEF UpsertMany, Rebuilt, BatchWritten, Types
<1>5. CASE RemoveMany
  BY <1>5 DEF RemoveMany, BatchWritten, Types
<1>6. CASE MarkReconciled
  BY <1>6 DEF MarkReconciled, Untouched, Types
<1>. QED
  BY <1>1, <1>2, <1>3, <1>4, <1>5, <1>6 DEF Reconcile

LEMMA TypesLoop ==
    ASSUME Types, CheckDue \/ FallbackIntervalPasses \/ ClaimDue \/ RemoveClaimed
                    \/ LeaseExpires \/ Restart
    PROVE  Types'
<1>. USE FaultType DEF tables, metadata, mutation, reading, FinishMutation, BeginMutation
<1>1. CASE CheckDue
  BY <1>1 DEF CheckDue, Types
<1>2. CASE FallbackIntervalPasses
  BY <1>2 DEF FallbackIntervalPasses, Types
<1>3. CASE ClaimDue
  BY <1>3 DEF ClaimDue, DueRows, PendingRows, Types
<1>4. CASE RemoveClaimed
  BY <1>4 DEF RemoveClaimed, Types
<1>5. CASE LeaseExpires
  BY <1>5 DEF LeaseExpires, Types
<1>6. CASE Restart
  BY <1>6 DEF Restart, Types
<1>. QED
  BY <1>1, <1>2, <1>3, <1>4, <1>5, <1>6

LEMMA TypesNext ==
    ASSUME Types, [Next]_vars
    PROVE  Types'
<1>1. CASE UNCHANGED vars
  BY <1>1 DEF vars, tables, metadata, mutation, reading, Types
<1>. QED
  BY <1>1, TypesRequest, TypesWrite, TypesWork, TypesReconcile, TypesLoop DEF Next

-----------------------------------------------------------------------------
(* The count in flight *)

\* A step that leaves the mutations alone, but for the loop's own.
LEMMA CountKept ==
    ASSUME CountIsRight, WorkerWorks, at' = at, inFlight' - Claiming' = inFlight - Claiming,
           inFlight' \in Int, loop = "working" => loop' = "working" \/ at[Worker] = "idle"
    PROVE  CountIsRight' /\ WorkerWorks'
<1>1. Begun' = Begun
  BY DEF Begun
<1>2. inFlight \in Int /\ Claiming \in Int /\ Claiming' \in Int
  BY BegunIsFinite DEF CountIsRight, Claiming
<1>3. CountIsRight'
  BY <1>1, <1>2, BegunIsFinite DEF CountIsRight
<1>4. WorkerWorks'
  BY DEF WorkerWorks
<1>. QED
  BY <1>3, <1>4

LEMMA CountBegin ==
    ASSUME Types, CountIsRight, WorkerWorks, NEW m \in Mutators, at[m] = "idle", Begin(m),
           loop' = loop, m = Worker => loop = "working"
    PROVE  CountIsRight' /\ WorkerWorks'
<1>1. Cardinality(Begun') = Cardinality(Begun) + 1
  BY OneMoreBegun DEF Begin
<1>2. CountIsRight'
  BY <1>1, BegunIsFinite DEF Begin, BeginMutation, CountIsRight, Claiming
<1>3. WorkerWorks'
  BY DEF Begin, Types, WorkerWorks
<1>. QED
  BY <1>2, <1>3

LEMMA CountWritten ==
    ASSUME Types, CountIsRight, WorkerWorks, NEW m \in Mutators, at[m] = "begun",
           NEW entries, Written(m, entries), loop' = loop
    PROVE  CountIsRight' /\ WorkerWorks'
<1>1. Begun' = Begun
  BY AsManyBegun DEF Written
<1>2. CountIsRight'
  BY <1>1 DEF Written, metadata, CountIsRight, Claiming
<1>3. WorkerWorks'
  BY DEF Written, Types, WorkerWorks
<1>. QED
  BY <1>2, <1>3

LEMMA CountFinish ==
    ASSUME Types, CountIsRight, WorkerWorks, NEW m \in Mutators, at[m] # "idle",
           at' = [at EXCEPT ![m] = "idle"], NEW err \in BOOLEAN, FinishMutation(err),
           m = Worker => loop' = "waiting", m # Worker => loop' = loop
    PROVE  CountIsRight' /\ WorkerWorks'
<1>1. Cardinality(Begun') = Cardinality(Begun) - 1
  BY OneLessBegun
<1>2. Claiming' = Claiming
  BY DEF WorkerWorks, Claiming
<1>3. Claiming \in Int
  BY DEF Claiming
<1>4. CountIsRight'
  BY <1>1, <1>2, <1>3, BegunIsFinite DEF FinishMutation, CountIsRight
<1>5. WorkerWorks'
  BY DEF Types, WorkerWorks, Mutators
<1>. QED
  BY <1>4, <1>5

LEMMA CountNext ==
    ASSUME Types, CountIsRight, WorkerWorks, [Next]_vars
    PROVE  CountIsRight' /\ WorkerWorks'
<1>0. Worker \in Mutators /\ Worker \notin Requests /\ inFlight \in Int
  BY IndexAssumption, BegunIsFinite DEF Mutators, CountIsRight, Claiming
<1>1. ASSUME NEW q \in Requests, Request(q) PROVE CountIsRight' /\ WorkerWorks'
  <2>0. q \in Mutators /\ q # Worker
    BY <1>0 DEF Mutators
  <2>1. CASE BeginRequest(q)
    BY <2>0, <2>1, CountBegin DEF BeginRequest
  <2>2. CASE CommitRequest(q)
    BY <2>0, <2>2, CountWritten DEF CommitRequest
  <2>3. CASE RefuseRequest(q)
    BY <2>0, <2>3, CountFinish DEF RefuseRequest, GivenUp
  <2>4. CASE FinishRequest(q)
    <3>1. failed[q] \in BOOLEAN
      BY <2>0 DEF Types
    <3>. QED
      BY <2>0, <2>4, <3>1, CountFinish DEF FinishRequest, Finished
  <2>. QED
    BY <1>1, <2>1, <2>2, <2>3, <2>4 DEF Request
<1>2. ASSUME NEW m \in Mutators, WriteEntry(m) PROVE CountIsRight' /\ WorkerWorks'
  BY <1>0, <1>2, CountKept DEF WriteEntry, Claiming
<1>3. CASE Work
  <2>1. CASE GiveUpEarly
    BY <1>0, <2>1, CountKept DEF GiveUpEarly, Rest, metadata, mutation, Claiming
  <2>2. CASE BeginWork
    BY <1>0, <2>2, CountBegin DEF BeginWork
  <2>3. CASE CommitWork
    <3>1. PICK entries : Written(Worker, entries)
      BY <2>3 DEF CommitWork
    <3>. QED
      BY <1>0, <2>3, <3>1, CountWritten DEF CommitWork
  <2>4. CASE LoseWork
    BY <1>0, <2>4, CountFinish DEF LoseWork, GivenUp, Rest
  <2>5. CASE FinishWork
    <3>1. failed[Worker] \in BOOLEAN
      BY <1>0 DEF Types
    <3>. QED
      BY <1>0, <2>5, <3>1, CountFinish DEF FinishWork, Finished, Rest
  <2>. QED
    BY <1>3, <2>1, <2>2, <2>3, <2>4, <2>5 DEF Work
<1>. USE DEF FinishMutation, BeginMutation, metadata, mutation, Claiming
<1>4. CASE CheckDue
  BY <1>0, <1>4, CountKept DEF CheckDue
<1>5. CASE ClaimDue
  BY <1>0, <1>5, CountKept DEF ClaimDue
<1>6. CASE RemoveClaimed
  BY <1>0, <1>6, CountKept DEF RemoveClaimed
<1>7. CASE FallbackIntervalPasses \/ LeaseExpires \/ UNCHANGED vars
  BY <1>0, <1>7, CountKept DEF FallbackIntervalPasses, LeaseExpires, vars
<1>8. CASE StartReconcile \/ Reconcile
  <2>1. inFlight' = inFlight /\ at' = at /\ loop # "working"
    BY <1>8 DEF StartReconcile, Reconcile, AllIDs, ListPendingForIndex, UpsertMany,
       RemoveMany, MarkReconciled, ReconcileFails, MarkDirty, BatchWritten
  <2>2. loop \notin {"claiming", "unindexing"} /\ loop' \notin {"claiming", "unindexing"}
    BY <1>8 DEF StartReconcile, Reconcile, AllIDs, ListPendingForIndex, UpsertMany,
       RemoveMany, MarkReconciled, ReconcileFails, Forget
  <2>. QED
    BY <1>0, <2>1, <2>2, CountKept
<1>9. CASE Restart
  <2>1. Begun' = {}
    BY <1>9 DEF Restart, Begun
  <2>. QED
    BY <1>0, <1>9, <2>1, FS_EmptySet DEF Restart, CountIsRight, WorkerWorks
<1>. QED
  BY <1>1, <1>2, <1>3, <1>4, <1>5, <1>6, <1>7, <1>8, <1>9 DEF Next

-----------------------------------------------------------------------------
(* The tables at rest *)

LEMMA RestsCommitRequest ==
    ASSUME Types, Rests, NEW q \in Requests, CommitRequest(q)
    PROVE  Rests'
<1>1. PICK opened \in { r \in Rows : row[r] \in {"absent", "pending", "cancelled"} }
                        \union {Nil},
           withdrawn \in IF PendingRows = {} THEN {Nil} ELSE PendingRows :
        /\ row' = [ r \in Rows |-> IF r = opened THEN "pending"
                                   ELSE IF r = withdrawn THEN "cancelled" ELSE row[r] ]
        /\ active' = (opened # Nil)
  BY DEF CommitRequest
<1>2. \A r \in Rows : row[r] = "pending" => r = withdrawn
  BY DEF Rests, OnePending, PendingRows
<1>3. \A r \in Rows : row'[r] = "pending" => r = opened
  BY <1>1, <1>2
<1>4. OnePending'
  BY <1>3 DEF OnePending
<1>5. EndedHasNone'
  BY <1>1, <1>3, IndexAssumption DEF EndedHasNone, PendingRows
<1>6. LeasedArePending'
  BY DEF CommitRequest, LeasedArePending
<1>. QED
  BY <1>4, <1>5, <1>6 DEF Rests

LEMMA RestsCommitWork ==
    ASSUME Types, Rests, CommitWork
    PROVE  Rests'
<1>1. batch \in Rows /\ row[batch] = "pending" /\ active
  BY DEF CommitWork, OwnsRow, Rests, LeasedArePending, PendingRows
<1>2. \A r \in Rows : row[r] = "pending" => r = batch
  BY <1>1 DEF Rests, OnePending
<1>3. leased' = {}
  BY <1>2 DEF CommitWork, Rests, LeasedArePending, PendingRows
<1>4. \/ row' = row /\ active' = active
      \/ row' = [row EXCEPT ![batch] = "done"] /\ active' = FALSE
      \/ \E next \in Rows : /\ row' = [row EXCEPT ![batch] = "done", ![next] = "pending"]
                            /\ active' = active
  BY DEF CommitWork
<1>5. OnePending'
  BY <1>2, <1>4 DEF OnePending, Types
<1>6. EndedHasNone'
  BY <1>1, <1>2, <1>4 DEF EndedHasNone, PendingRows, Types
<1>. QED
  BY <1>3, <1>5, <1>6 DEF Rests, LeasedArePending

LEMMA RestsNext ==
    ASSUME Types, Rests, [Next]_vars
    PROVE  Rests'
<1>1. CASE UNCHANGED <<row, active>> /\ leased' \subseteq PendingRows
  BY <1>1 DEF Rests, OnePending, EndedHasNone, LeasedArePending, PendingRows
<1>. USE DEF tables, Rests, LeasedArePending
<1>2. ASSUME NEW q \in Requests, Request(q) PROVE Rests'
  BY <1>1, <1>2, RestsCommitRequest
     DEF Request, BeginRequest, RefuseRequest, FinishRequest, Finished
<1>3. ASSUME NEW m \in Mutators, WriteEntry(m) PROVE Rests'
  BY <1>1, <1>3 DEF WriteEntry
<1>4. CASE Work
  BY <1>1, <1>4, RestsCommitWork
     DEF Work, GiveUpEarly, BeginWork, LoseWork, FinishWork, Finished
<1>5. CASE StartReconcile \/ Reconcile
  BY <1>1, <1>5 DEF StartReconcile, Reconcile, AllIDs, ListPendingForIndex, UpsertMany,
     RemoveMany, MarkReconciled
<1>6. CASE ClaimDue
  BY <1>1, <1>6 DEF ClaimDue, DueRows
<1>7. CASE \/ CheckDue \/ FallbackIntervalPasses \/ RemoveClaimed \/ LeaseExpires
           \/ Restart \/ UNCHANGED vars
  BY <1>1, <1>7 DEF CheckDue, FallbackIntervalPasses, RemoveClaimed, LeaseExpires,
     Restart, vars
<1>. QED
  BY <1>2, <1>3, <1>4, <1>5, <1>6, <1>7 DEF Next

-----------------------------------------------------------------------------
(* What reconciliation has read *)

LEMMA ReadNext ==
    ASSUME DInv, Types', CountIsRight', [Next]_vars
    PROVE  ReadIsCurrent'
<1>0. Worker \in Mutators /\ Requests \subseteq Mutators
  BY DEF Mutators
\* Whoever writes has begun a mutation, or makes the version move.
<1>1. ASSUME NEW m \in Mutators, at'[m] # "idle" PROVE ReadIsCurrent'
  <2>1. m \in Begun'
    BY <1>1 DEF Begun
  <2>2. IsFiniteSet(Begun') /\ Cardinality(Begun') \in Nat
    <3>1. IsFiniteSet(Mutators)
      BY IndexAssumption, FS_AddElement DEF Mutators
    <3>. QED
      BY <3>1, FS_Subset, FS_CardinalityType DEF Begun
  <2>3. Cardinality(Begun') # 0
    BY <2>1, <2>2, FS_EmptySet
  <2>4. inFlight' # 0
    BY <2>2, <2>3 DEF CountIsRight, Claiming
  <2>. QED
    BY <2>4 DEF ReadIsCurrent
<1>2. ASSUME moved' = TRUE PROVE ReadIsCurrent'
  BY <1>2 DEF ReadIsCurrent
<1>. USE DEF FinishMutation, BeginMutation
<1>3. ASSUME NEW q \in Requests, Request(q) PROVE ReadIsCurrent'
  <2>1. CASE CommitRequest(q)
    <3>1. at' = [at EXCEPT ![q] = "writing"]
      BY <2>1 DEF CommitRequest, Written
    <3>2. at'[q] # "idle"
      BY <1>0, <3>1 DEF DInv, Types
    <3>. QED
      BY <1>0, <1>1, <3>2
  <2>2. CASE BeginRequest(q) \/ RefuseRequest(q) \/ FinishRequest(q)
    BY <1>2, <2>2 DEF BeginRequest, RefuseRequest, FinishRequest, Begin, GivenUp, Finished
  <2>. QED
    BY <1>3, <2>1, <2>2 DEF Request
<1>4. ASSUME NEW m \in Mutators, WriteEntry(m) PROVE ReadIsCurrent'
  BY <1>2, <1>4 DEF WriteEntry
<1>5. CASE Work
  <2>1. CASE CommitWork
    <3>1. at' = [at EXCEPT ![Worker] = "writing"]
      BY <2>1 DEF CommitWork, Written
    <3>2. at'[Worker] # "idle"
      BY <1>0, <3>1 DEF DInv, Types
    <3>. QED
      BY <1>0, <1>1, <3>2
  <2>2. CASE GiveUpEarly
    BY <2>2 DEF GiveUpEarly, Rest, ReadIsCurrent
  <2>3. CASE BeginWork \/ LoseWork \/ FinishWork
    BY <1>2, <2>3 DEF BeginWork, LoseWork, FinishWork, Begin, GivenUp, Finished
  <2>. QED
    BY <1>5, <2>1, <2>2, <2>3 DEF Work
<1>6. CASE CheckDue \/ ClaimDue \/ RemoveClaimed
  <2>1. loop' \in {"waiting", "claiming", "unindexing", "working"}
    BY <1>6 DEF CheckDue, ClaimDue, RemoveClaimed
  <2>. QED
    BY <2>1 DEF ReadIsCurrent
<1>7. CASE StartReconcile
  BY <1>7 DEF StartReconcile, ReadIsCurrent
<1>. USE DEF tables, metadata, mutation, reading
<1>8. CASE Reconcile
  <2>1. CASE loop' = "waiting"
    BY <2>1 DEF ReadIsCurrent
  <2>2. CASE AllIDs /\ loop' = "reading"
    BY <2>2 DEF AllIDs, ReconcileFails, Forget, ReadIsCurrent, DInv
  <2>3. CASE ListPendingForIndex /\ loop' = "upserting"
    <3>1. listed' = PendingRows
      BY <2>3 DEF ListPendingForIndex, Forget, DInv, Rests, EndedHasNone
    <3>. QED
      BY <2>3, <3>1 DEF ListPendingForIndex, Forget, ReadIsCurrent, DInv, PendingRows
  <2>4. CASE UpsertMany /\ loop' = "removing"
    BY <2>4 DEF UpsertMany, Rebuilt, BatchWritten, ReconcileFails, Forget, ReadIsCurrent,
       DInv, PendingRows
  <2>5. CASE RemoveMany /\ loop' = "marking"
    BY <2>5 DEF RemoveMany, BatchWritten, ReconcileFails, Forget, ReadIsCurrent,
       DInv, PendingRows
  <2>. QED
    BY <1>8, <2>1, <2>2, <2>3, <2>4, <2>5 DEF Reconcile, AllIDs, ListPendingForIndex,
       UpsertMany, RemoveMany, MarkReconciled, ReconcileFails, Forget
<1>9. CASE Restart
  BY <1>2, <1>9 DEF Restart
<1>10. CASE FallbackIntervalPasses \/ LeaseExpires \/ UNCHANGED vars
  BY <1>10 DEF FallbackIntervalPasses, LeaseExpires, vars, ReadIsCurrent, DInv, PendingRows
<1>. QED
  BY <1>3, <1>4, <1>5, <1>6, <1>7, <1>8, <1>9, <1>10 DEF Next

-----------------------------------------------------------------------------
(* Theorems *)

LEMMA DInvInit == Init => DInv
<1>. SUFFICES ASSUME Init PROVE DInv
  OBVIOUS
<1>1. Types
  BY TypesInit
<1>2. Begun = {}
  BY DEF Init, Begun
<1>3. CountIsRight
  BY <1>2, FS_EmptySet DEF Init, CountIsRight, Claiming
<1>4. WorkerWorks
  BY DEF Init, WorkerWorks, Mutators
<1>5. Rests
  BY DEF Init, Rests, OnePending, EndedHasNone, LeasedArePending
<1>6. ReadIsCurrent
  BY DEF Init, ReadIsCurrent
<1>. QED
  BY <1>1, <1>3, <1>4, <1>5, <1>6 DEF DInv

LEMMA DInvNext == DInv /\ [Next]_vars => DInv'
  BY TypesNext, CountNext, RestsNext, ReadNext DEF DInv

\* DInv holds in every state.
LEMMA Invariance == Spec => []DInv
  BY DInvInit, DInvNext, PTL DEF Spec

\* Every variable of the due index keeps its type, and the mutations counted in flight
\* are those begun, whatever failed or restarted.
THEOREM TypeCorrect == Spec => []TypeOK
<1>1. DInv => TypeOK
  BY DEF DInv, Types, CountIsRight, Begun, Claiming, TypeOK
<1>. QED
  BY <1>1, Invariance, PTL

LEMMA BelievedWhenExact ==
    ASSUME DInv, [Next]_vars, degraded, ~degraded'
    PROVE  index' = PendingRows'
<1>1. \A err : ~(degraded' = (degraded \/ err))
  OBVIOUS
<1>2. MarkReconciled
  BY <1>1 DEF Next, vars, Request, BeginRequest, CommitRequest, RefuseRequest, FinishRequest,
     Begin, Written, GivenUp, Finished, FinishMutation, BeginMutation, WriteEntry, CheckDue,
     FallbackIntervalPasses, ClaimDue, RemoveClaimed, Work, GiveUpEarly, BeginWork,
     CommitWork, LoseWork, FinishWork, LeaseExpires, StartReconcile, Reconcile, AllIDs,
     ListPendingForIndex, UpsertMany, RemoveMany, ReconcileFails, MarkDirty, BatchWritten,
     Restart, metadata, tables, mutation, reading
<1>3. loop = "marking" /\ ~moved /\ inFlight = 0
  BY <1>2 DEF MarkReconciled, Untouched
<1>. QED
  BY <1>2, <1>3 DEF DInv, ReadIsCurrent, MarkReconciled, PendingRows, tables

\* A reconciliation makes the index trusted only when it holds exactly the pending
\* rows, however many requests committed, wrote or failed around it.
THEOREM ReconciliationIsExact == Spec => ReconciledIndexIsExact
<1>1. DInv /\ [Next]_vars => (degraded /\ ~degraded' => index' = PendingRows')
  BY BelievedWhenExact
<1>. QED
  BY <1>1, Invariance, PTL DEF Spec, ReconciledIndexIsExact

-----------------------------------------------------------------------------
(* ReminderIndex: the invariant *)

\* A request that is not done has an index write left.
WritesWait == \A q \in Requests : writes[q] # Nil => writes[q].todo # <<>>

RiTypes == Ri!TypeOK /\ WritesWait

\* What the reconciliation of p has read is still so, as long as nothing disturbed it.
ReadIsStill(p) ==
    /\ scheduler[p] \in {"reading", "upserting"} =>
          idsIndexed[p] = { id \in Ids : scores[id] # Nil }
    /\ scheduler[p] \in {"upserting", "removing"} => idsListed[p] = Ri!Schedule
    /\ scheduler[p] = "removing" =>
          \A id \in Ids :
              /\ idsListed[p][id] # Nil => scores[id] = idsListed[p][id]
              /\ idsListed[p][id] = Nil /\ scores[id] # Nil => id \in idsIndexed[p]

ReadsAreStill == \A p \in Processes : ~ disturbed[p] => ReadIsStill(p)

RiInv == RiTypes /\ ReadsAreStill

-----------------------------------------------------------------------------
(* ReminderIndex: the types *)

LEMMA RiConstants ==
    /\ 1 \in Times /\ Times \subseteq Nat /\ Nil \notin Nat
    /\ Nil \notin Ids /\ Nil \notin Processes
    /\ MaxEdits \in Nat /\ MaxFaultsOfReminders \in Nat
<1>1. Ri!Cardinality(Times) = Cardinality(Times) /\ (Ri!IsFiniteSet(Times) <=> IsFiniteSet(Times))
  BY DEF Ri!Cardinality, Cardinality, Ri!IsFiniteSet, IsFiniteSet
<1>2. Cardinality(Times) \in Nat /\ Times = 1..Cardinality(Times) /\ Times # {}
  BY <1>1, ReminderBounds, FS_CardinalityType DEF Ri!IndexAssumption
<1>. QED
  BY <1>2, ReminderBounds DEF Ri!IndexAssumption

LEMMA RiInitially == Ri!Init => RiInv
<1>. SUFFICES ASSUME Ri!Init PROVE RiInv
  OBVIOUS
<1>1. Ri!NewRow(1) \in Ri!Row
  BY RiConstants DEF Ri!NewRow, Ri!Row
<1>2. [ Ri!NewRow(1) EXCEPT !.status = "absent" ] \in Ri!Row
  BY <1>1 DEF Ri!Row
<1>3. Ri!TypeOK
  BY <1>2, RiConstants DEF Ri!Init, Ri!TypeOK
<1>. QED
  BY <1>3 DEF Ri!Init, RiInv, RiTypes, WritesWait, ReadsAreStill, ReadIsStill

\* What a request sends is a write, or two.
LEMMA RiWrites ==
    ASSUME NEW p \in Processes, NEW id \in Ids, NEW old \in Ids, NEW due \in Times \union {Nil}
    PROVE  /\ [ process |-> p, todo |-> << [ id |-> id, at |-> due ] >> ] \in Ri!Write
           /\ [ process |-> p, todo |-> << [ id |-> id, at |-> due ], [ id |-> old, at |-> Nil ] >> ]
                 \in Ri!Write
<1>1. [ id |-> id, at |-> due ] \in Ri!Entry /\ [ id |-> old, at |-> Nil ] \in Ri!Entry
  BY DEF Ri!Entry
<1>2. /\ << [ id |-> id, at |-> due ] >> \in Seq(Ri!Entry)
      /\ << [ id |-> id, at |-> due ], [ id |-> old, at |-> Nil ] >> \in Seq(Ri!Entry)
  BY <1>1
<1>. QED
  BY <1>2 DEF Ri!Write

\* A row that is rewritten field by field stays a row.
LEMMA RiRows ==
    ASSUME rowOfReminder \in [ Ids -> Ri!Row ], NEW id
    PROVE  /\ \A due \in Times : Ri!NewRow(due) \in Ri!Row
           /\ \A status \in {"absent", "pending", "sent", "closed"} :
                 [ rowOfReminder EXCEPT ![id].status = status ] \in [ Ids -> Ri!Row ]
           /\ \A due \in Times : [ rowOfReminder EXCEPT ![id].at = due ] \in [ Ids -> Ri!Row ]
           /\ \A p \in Processes \union {Nil} :
                 [ rowOfReminder EXCEPT ![id].claim = p ] \in [ Ids -> Ri!Row ]
           /\ \A p \in Processes :
                 [ rowOfReminder EXCEPT ![id].claim = p, ![id].stale = FALSE ] \in [ Ids -> Ri!Row ]
           /\ [ rowOfReminder EXCEPT ![id].stale = TRUE ] \in [ Ids -> Ri!Row ]
  BY DEF Ri!Row, Ri!NewRow

\* A request changes rows and leaves writes behind.
LEMMA RiRequestTypes ==
    ASSUME RiTypes, NEW q \in Requests, NEW p \in Processes, NEW entries,
           [ process |-> p, todo |-> entries ] \in Ri!Write, entries # <<>>,
           Ri!Request(q, p, entries), rowOfReminder' \in [ Ids -> Ri!Row ]
    PROVE  RiTypes'
<1>. USE DEF RiTypes, Ri!TypeOK, Ri!Request, Ri!Disturb, Ri!trust, Ri!reading
<1>1. edits' \in 0..MaxEdits
  BY RiConstants
<1>2. writes' \in [ Requests -> Ri!Write \union {Nil} ]
  OBVIOUS
<1>3. WritesWait'
  BY DEF WritesWait
<1>. QED
  BY <1>1, <1>2, <1>3

LEMMA RiRequests ==
    ASSUME RiTypes, NEW q \in Requests, NEW p \in Processes, NEW id \in Ids,
           \/ \E due \in Times : Ri!Create(q, p, id, due) \/ Ri!Update(q, p, id, due)
           \/ Ri!Close(q, p, id)
    PROVE  RiTypes'
<1>1. rowOfReminder \in [ Ids -> Ri!Row ] /\ "closed" \in {"absent", "pending", "sent", "closed"}
  BY DEF RiTypes, Ri!TypeOK
<1>2. ASSUME NEW due \in Times, Ri!Create(q, p, id, due) PROVE RiTypes'
  <2>1. [ rowOfReminder EXCEPT ![id] = Ri!NewRow(due) ] \in [ Ids -> Ri!Row ]
    BY <1>1, RiRows
  <2>2. ASSUME NEW old \in Ids
        PROVE  [ rowOfReminder EXCEPT ![id] = Ri!NewRow(due), ![old].status = "closed" ]
                  \in [ Ids -> Ri!Row ]
    BY <2>1, RiRows DEF Ri!Row
  <2>3. CASE /\ rowOfReminder' = [ rowOfReminder EXCEPT ![id] = Ri!NewRow(due) ]
             /\ Ri!Request(q, p, << [ id |-> id, at |-> due ] >>)
    BY <2>1, <2>3, RiWrites, RiRequestTypes
  <2>4. ASSUME NEW old \in Ids,
               rowOfReminder' = [ rowOfReminder EXCEPT ![id] = Ri!NewRow(due), ![old].status = "closed" ],
               Ri!Request(q, p, << [ id |-> id, at |-> due ], [ id |-> old, at |-> Nil ] >>)
        PROVE  RiTypes'
    BY <2>2, <2>4, RiWrites, RiRequestTypes
  <2>. QED
    BY <1>2, <2>3, <2>4 DEF Ri!Create, Ri!PendingIds
<1>3. ASSUME NEW due \in Times, Ri!Update(q, p, id, due) PROVE RiTypes'
  BY <1>1, <1>3, RiRows, RiWrites, RiRequestTypes DEF Ri!Update
<1>4. CASE Ri!Close(q, p, id)
  BY <1>1, <1>4, RiRows, RiWrites, RiRequestTypes DEF Ri!Close
<1>. QED
  BY <1>2, <1>3, <1>4

\* A write to the index, made or not, leaves scores.
LEMMA RiScores ==
    ASSUME scores \in [ Ids -> Times \union {Nil} ], NEW id
    PROVE  \A due \in Times \union {Nil} : [ scores EXCEPT ![id] = due ] \in [ Ids -> Times \union {Nil} ]
  OBVIOUS

LEMMA RiWriteIndex ==
    ASSUME RiTypes, NEW q \in Requests, Ri!WriteIndex(q)
    PROVE  RiTypes'
<1>. USE DEF RiTypes
<1>. DEFINE w == writes[q]
            entry == Head(w.todo)
<1>1. w \in Ri!Write /\ w.todo \in Seq(Ri!Entry) /\ w.todo # <<>> /\ w.process \in Processes
  BY DEF Ri!WriteIndex, Ri!TypeOK, WritesWait, Ri!Write
<1>2. entry \in Ri!Entry
  BY <1>1
<1>3. [ scores EXCEPT ![entry.id] = entry.at ] \in [ Ids -> Times \union {Nil} ]
  BY <1>2 DEF Ri!TypeOK, Ri!Entry
<1>4. scores' \in [ Ids -> Times \union {Nil} ]
  BY <1>3 DEF Ri!WriteIndex, Ri!TypeOK
<1>5. Ri!Left(q) = Nil \/ (Ri!Left(q) \in Ri!Write /\ Ri!Left(q).todo # <<>>)
  <2>1. CASE Len(w.todo) = 1
    BY <2>1 DEF Ri!Left
  <2>2. CASE Len(w.todo) # 1
    <3>1. Tail(w.todo) \in Seq(Ri!Entry) /\ Tail(w.todo) # <<>>
      <4>1. Tail(w.todo) \in Seq(Ri!Entry) /\ Len(Tail(w.todo)) = Len(w.todo) - 1
        BY <1>1, HeadTailProperties
      <4>2. Len(w.todo) \in Nat /\ Len(Tail(w.todo)) # 0
        BY <1>1, <2>2, <4>1, LenProperties
      <4>. QED
        BY <4>1, <4>2, EmptySeq
    <3>2. Ri!Left(q) = [ w EXCEPT !.todo = Tail(w.todo) ]
      BY <2>2 DEF Ri!Left
    <3>. QED
      BY <1>1, <3>1, <3>2 DEF Ri!Write
  <2>. QED
    BY <2>1, <2>2
<1>6. writes' = [ writes EXCEPT ![q] = Ri!Left(q) ]
  BY DEF Ri!WriteIndex
<1>7. writes' \in [ Requests -> Ri!Write \union {Nil} ] /\ WritesWait'
  BY <1>5, <1>6 DEF Ri!TypeOK, WritesWait
<1>8. dirty' \in [ Processes -> BOOLEAN ] /\ disturbed' \in [ Processes -> BOOLEAN ]
  BY DEF Ri!WriteIndex, Ri!TypeOK, Ri!MarkDirty, Ri!Disturb
<1>9. edits' \in 0..MaxEdits /\ faultsOfReminders' \in 0..MaxFaultsOfReminders
  BY RiConstants DEF Ri!WriteIndex, Ri!TypeOK, Ri!Fault, Ri!bounds
<1>. QED
  BY <1>4, <1>7, <1>8, <1>9 DEF Ri!WriteIndex, Ri!TypeOK, Ri!reading

LEMMA RiFaults ==
    ASSUME RiTypes, Ri!Fault \/ UNCHANGED Ri!bounds
    PROVE  edits' \in 0..MaxEdits /\ faultsOfReminders' \in 0..MaxFaultsOfReminders
  BY RiConstants DEF RiTypes, Ri!TypeOK, Ri!Fault, Ri!bounds

\* The steps of a loop between its claims.
LEMMA RiChecks ==
    ASSUME RiTypes, NEW p \in Processes, Ri!CheckDueSource(p) \/ Ri!Recheck(p)
    PROVE  RiTypes'
<1>1. Ri!Fault \/ UNCHANGED Ri!bounds
  BY DEF Ri!CheckDueSource, Ri!Recheck
<1>2. edits' \in 0..MaxEdits /\ faultsOfReminders' \in 0..MaxFaultsOfReminders
  BY <1>1, RiFaults
<1>3. UNCHANGED <<now, rowOfReminder, scores, claimed, idsIndexed, idsListed, writes>>
  BY DEF Ri!CheckDueSource, Ri!Recheck, Ri!Distrust, Ri!BeginReconcile, Ri!Believe, Ri!state,
         Ri!reading
<1>4. /\ dirty' \in [ Processes -> BOOLEAN ] /\ distrusted' \in [ Processes -> BOOLEAN ]
      /\ allowed' \in [ Processes -> BOOLEAN ]
  BY DEF RiTypes, Ri!TypeOK, Ri!CheckDueSource, Ri!Recheck, Ri!Distrust, Ri!Believe, Ri!MarkDirty
<1>5. /\ urgent' \in [ Processes -> BOOLEAN ] /\ disturbed' \in [ Processes -> BOOLEAN ]
  BY DEF RiTypes, Ri!TypeOK, Ri!CheckDueSource, Ri!Recheck, Ri!Distrust, Ri!BeginReconcile,
         Ri!reading
<1>6. PICK place \in {"waiting", "claiming", "listing"} :
         scheduler' = [ scheduler EXCEPT ![p] = place ] \/ UNCHANGED scheduler
  BY DEF Ri!CheckDueSource, Ri!Recheck, Ri!Distrust, Ri!BeginReconcile, Ri!Believe, Ri!Goto
<1>. QED
  BY <1>2, <1>3, <1>4, <1>5, <1>6 DEF RiTypes, Ri!TypeOK, WritesWait

\* A claim, and what is done with it.
LEMMA RiClaims ==
    ASSUME RiTypes, NEW p \in Processes,
           \/ Ri!ClaimDueForNotification(p) \/ Ri!Send(p) \/ Ri!MarkNotificationSent(p)
           \/ Ri!ReleaseNotificationClaim(p) \/ Ri!RemoveDelivered(p)
    PROVE  RiTypes'
<1>1. Ri!Fault \/ UNCHANGED Ri!bounds
  BY DEF Ri!ClaimDueForNotification, Ri!Send, Ri!MarkNotificationSent,
         Ri!ReleaseNotificationClaim, Ri!RemoveDelivered
<1>2. edits' \in 0..MaxEdits /\ faultsOfReminders' \in 0..MaxFaultsOfReminders
  BY <1>1, RiFaults
<1>3. /\ UNCHANGED <<now, distrusted, allowed, urgent, idsIndexed, idsListed, writes>>
      /\ dirty' = dirty \/ Ri!MarkDirty(p)
      /\ UNCHANGED disturbed \/ Ri!Disturb
  BY DEF Ri!ClaimDueForNotification, Ri!Send, Ri!MarkNotificationSent,
         Ri!ReleaseNotificationClaim, Ri!RemoveDelivered, Ri!trust, Ri!reading
<1>4. rowOfReminder' \in [ Ids -> Ri!Row ]
  <2>1. rowOfReminder \in [ Ids -> Ri!Row ] /\ "sent" \in {"absent", "pending", "sent", "closed"}
    BY DEF RiTypes, Ri!TypeOK
  <2>2. PICK id :
           \/ UNCHANGED rowOfReminder
           \/ rowOfReminder' = [ rowOfReminder EXCEPT ![id].claim = p, ![id].stale = FALSE ]
           \/ rowOfReminder' = [ rowOfReminder EXCEPT ![id].status = "sent" ]
           \/ rowOfReminder' = [ rowOfReminder EXCEPT ![id].claim = Nil ]
    BY DEF Ri!ClaimDueForNotification, Ri!Send, Ri!MarkNotificationSent,
           Ri!ReleaseNotificationClaim, Ri!RemoveDelivered, Ri!state
  <2>3. CASE rowOfReminder' = [ rowOfReminder EXCEPT ![id].claim = p, ![id].stale = FALSE ]
    BY <2>1, <2>3, RiRows
  <2>4. CASE rowOfReminder' = [ rowOfReminder EXCEPT ![id].status = "sent" ]
    BY <2>1, <2>4, RiRows
  <2>5. CASE rowOfReminder' = [ rowOfReminder EXCEPT ![id].claim = Nil ]
    BY <2>1, <2>5, RiRows
  <2>. QED
    BY <2>1, <2>2, <2>3, <2>4, <2>5
<1>5. scores' \in [ Ids -> Times \union {Nil} ]
  <2>1. UNCHANGED scores \/ scores' = [ scores EXCEPT ![claimed[p]] = Nil ]
    BY DEF Ri!ClaimDueForNotification, Ri!Send, Ri!MarkNotificationSent,
           Ri!ReleaseNotificationClaim, Ri!RemoveDelivered, Ri!state
  <2>. QED
    BY <2>1 DEF RiTypes, Ri!TypeOK
<1>6. PICK place \in {"sending", "waiting", "marking", "releasing", "unindexing"} :
         Ri!Goto(p, place)
  BY DEF Ri!ClaimDueForNotification, Ri!Send, Ri!MarkNotificationSent,
         Ri!ReleaseNotificationClaim, Ri!RemoveDelivered, Ri!Rest
<1>7. claimed' \in [ Processes -> Ids \union {Nil} ]
  BY DEF RiTypes, Ri!TypeOK, Ri!ClaimDueForNotification, Ri!Send, Ri!MarkNotificationSent,
         Ri!ReleaseNotificationClaim, Ri!RemoveDelivered, Ri!Rest
<1>8. dirty' \in [ Processes -> BOOLEAN ] /\ disturbed' \in [ Processes -> BOOLEAN ]
  BY <1>3 DEF RiTypes, Ri!TypeOK, Ri!MarkDirty, Ri!Disturb
<1>. QED
  BY <1>2, <1>3, <1>4, <1>5, <1>6, <1>7, <1>8 DEF RiTypes, Ri!TypeOK, WritesWait, Ri!Goto

\* The steps of a reconciliation.
LEMMA RiReconciles ==
    ASSUME RiTypes, NEW p \in Processes,
           \/ Ri!StartReconcile(p) \/ Ri!AllIDs(p) \/ Ri!ListPendingForNotification(p)
           \/ Ri!UpsertMany(p) \/ Ri!RemoveMany(p)
    PROVE  RiTypes'
<1>. USE DEF Ri!StartReconcile, Ri!AllIDs, Ri!ListPendingForNotification, Ri!UpsertMany,
             Ri!RemoveMany
<1>1. Ri!Fault \/ UNCHANGED Ri!bounds
  BY DEF Ri!ReconcileFails
<1>2. edits' \in 0..MaxEdits /\ faultsOfReminders' \in 0..MaxFaultsOfReminders
  BY <1>1, RiFaults
<1>3. UNCHANGED <<now, rowOfReminder, allowed, claimed, writes>>
  BY DEF Ri!state, Ri!trust
<1>4. scores' \in [ Ids -> Times \union {Nil} ]
  <2>1. \/ UNCHANGED scores
        \/ \E some \in SUBSET Ids : scores' = Ri!Scored(some, idsListed[p])
        \/ \E some \in SUBSET Ids : scores' = Ri!Without(some)
    BY DEF Ri!state, Ri!StaleIds, RiTypes, Ri!TypeOK
  <2>. QED
    BY <2>1 DEF RiTypes, Ri!TypeOK, Ri!Scored, Ri!Without
<1>5. PICK place \in {"listing", "reading", "upserting", "removing", "rechecking", "claiming",
                      "waiting"} : Ri!Goto(p, place)
  BY DEF Ri!BeginReconcile, Ri!ReconcileFails
<1>6. dirty' \in [ Processes -> BOOLEAN ] /\ distrusted' \in [ Processes -> BOOLEAN ]
  BY DEF RiTypes, Ri!TypeOK, Ri!ReconcileFails, Ri!MarkDirty, Ri!trust
<1>7. disturbed' \in [ Processes -> BOOLEAN ]
  BY DEF RiTypes, Ri!TypeOK, Ri!BeginReconcile, Ri!DisturbOthers
<1>8. /\ urgent' \in [ Processes -> BOOLEAN ] /\ idsIndexed' \in [ Processes -> SUBSET Ids ]
      /\ idsListed' \in [ Processes -> [ Ids -> Times \union {Nil} ] ]
  <2>1. Ri!Schedule \in [ Ids -> Times \union {Nil} ]
    BY DEF RiTypes, Ri!TypeOK, Ri!Schedule, Ri!Row
  <2>2. [ id \in Ids |-> Nil ] \in [ Ids -> Times \union {Nil} ]
    OBVIOUS
  <2>3. \/ UNCHANGED urgent
        \/ \E atOnce \in BOOLEAN : urgent' = [ urgent EXCEPT ![p] = atOnce ]
    BY DEF Ri!BeginReconcile, Ri!ReconcileFails, Ri!ForgetRead, Ri!reading
  <2>4. \/ UNCHANGED idsIndexed
        \/ \E ids \in SUBSET Ids : idsIndexed' = [ idsIndexed EXCEPT ![p] = ids ]
    BY DEF Ri!BeginReconcile, Ri!ReconcileFails, Ri!ForgetRead, Ri!reading
  <2>5. \/ UNCHANGED idsListed
        \/ idsListed' = [ idsListed EXCEPT ![p] = Ri!Schedule ]
        \/ idsListed' = [ idsListed EXCEPT ![p] = [ id \in Ids |-> Nil ] ]
    BY DEF Ri!BeginReconcile, Ri!ReconcileFails, Ri!ForgetRead, Ri!reading
  <2>. HIDE DEF Ri!StartReconcile, Ri!AllIDs, Ri!ListPendingForNotification, Ri!UpsertMany,
                Ri!RemoveMany
  <2>6. urgent' \in [ Processes -> BOOLEAN ]
    BY <2>3 DEF RiTypes, Ri!TypeOK
  <2>7. idsIndexed' \in [ Processes -> SUBSET Ids ]
    BY <2>4 DEF RiTypes, Ri!TypeOK
  <2>8. idsListed' \in [ Processes -> [ Ids -> Times \union {Nil} ] ]
    BY <2>1, <2>2, <2>5 DEF RiTypes, Ri!TypeOK
  <2>. QED
    BY <2>6, <2>7, <2>8
<1>. QED
  BY <1>2, <1>3, <1>4, <1>5, <1>6, <1>7, <1>8 DEF RiTypes, Ri!TypeOK, WritesWait, Ri!Goto

\* A process dies, time passes.
LEMMA RiSurroundings ==
    ASSUME RiTypes,
           \/ \E p \in Processes : Ri!Crash(p) \/ Ri!FallbackIntervalPasses(p)
           \/ \E id \in Ids : Ri!LeaseExpires(id)
           \/ Ri!Tick
    PROVE  RiTypes'
<1>1. ASSUME NEW p \in Processes, Ri!Crash(p) PROVE RiTypes'
  <2>1. edits' \in 0..MaxEdits /\ faultsOfReminders' \in 0..MaxFaultsOfReminders
    BY <1>1, RiFaults DEF Ri!Crash
  <2>2. writes' \in [ Requests -> Ri!Write \union {Nil} ] /\ WritesWait'
    BY <1>1 DEF RiTypes, Ri!TypeOK, WritesWait, Ri!Crash
  <2>3. /\ urgent' \in [ Processes -> BOOLEAN ] /\ idsIndexed' \in [ Processes -> SUBSET Ids ]
        /\ idsListed' \in [ Processes -> [ Ids -> Times \union {Nil} ] ]
    BY <1>1 DEF RiTypes, Ri!TypeOK, Ri!Crash, Ri!ForgetRead
  <2>. QED
    BY <1>1, <2>1, <2>2, <2>3 DEF RiTypes, Ri!TypeOK, Ri!Crash, Ri!Goto, Ri!Disturb, Ri!state
<1>2. ASSUME NEW p \in Processes, Ri!FallbackIntervalPasses(p) PROVE RiTypes'
  BY <1>2 DEF RiTypes, Ri!TypeOK, WritesWait, Ri!FallbackIntervalPasses, Ri!state, Ri!reading,
              Ri!bounds
<1>3. ASSUME NEW id \in Ids, Ri!LeaseExpires(id) PROVE RiTypes'
  <2>1. edits' \in 0..MaxEdits /\ faultsOfReminders' \in 0..MaxFaultsOfReminders
    BY <1>3, RiFaults DEF Ri!LeaseExpires
  <2>2. rowOfReminder' \in [ Ids -> Ri!Row ]
    BY <1>3, RiRows DEF RiTypes, Ri!TypeOK, Ri!LeaseExpires
  <2>. QED
    BY <1>3, <2>1, <2>2 DEF RiTypes, Ri!TypeOK, WritesWait, Ri!LeaseExpires, Ri!trust, Ri!reading
<1>4. CASE Ri!Tick
  BY <1>4 DEF RiTypes, Ri!TypeOK, WritesWait, Ri!Tick, Ri!state, Ri!trust, Ri!reading, Ri!bounds
<1>. QED
  BY <1>1, <1>2, <1>3, <1>4

LEMMA RiTypesKept == RiTypes /\ [Ri!Next]_(Ri!vars) => RiTypes'
<1>. SUFFICES ASSUME RiTypes, [Ri!Next]_(Ri!vars) PROVE RiTypes'
  OBVIOUS
<1>1. CASE UNCHANGED Ri!vars
  BY <1>1 DEF RiTypes, Ri!TypeOK, WritesWait, Ri!vars, Ri!state, Ri!trust, Ri!reading, Ri!bounds
<1>2. CASE Ri!Next
  BY <1>2, RiRequests, RiWriteIndex, RiChecks, RiClaims, RiReconciles, RiSurroundings
     DEF Ri!Next, Ri!Proceed
<1>. QED
  BY <1>1, <1>2

-----------------------------------------------------------------------------
(* ReminderIndex: what a reconciliation has read *)

\* A step that leaves a reconciliation, the index and the schedule as they are.
LEMMA RiStill ==
    ASSUME ReadsAreStill, NEW p \in Processes, ~ disturbed'[p] => ~ disturbed[p],
           ~ disturbed'[p] => scores' = scores /\ Ri!Schedule' = Ri!Schedule,
           \/ scheduler'[p] \notin {"reading", "upserting", "removing"}
           \/ /\ scheduler'[p] = scheduler[p]
              /\ idsIndexed'[p] = idsIndexed[p] /\ idsListed'[p] = idsListed[p]
    PROVE  ~ disturbed'[p] => ReadIsStill(p)'
  BY DEF ReadsAreStill, ReadIsStill

\* A claim, its loss and its release change nothing the schedule shows.
LEMMA RiSchedule ==
    ASSUME Ri!TypeOK,
           \A id \in Ids : /\ rowOfReminder'[id].status = rowOfReminder[id].status
                           /\ rowOfReminder'[id].at = rowOfReminder[id].at
    PROVE  Ri!Schedule' = Ri!Schedule
  BY DEF Ri!Schedule, Ri!Pending

\* Whatever writes a row's status or an index entry outside a reconciliation disturbs all.
LEMMA RiDisturbers ==
    ASSUME ReadsAreStill, Ri!TypeOK,
           \/ \E q \in Requests, p \in Processes, id \in Ids :
                 \/ \E due \in Times : Ri!Create(q, p, id, due) \/ Ri!Update(q, p, id, due)
                 \/ Ri!Close(q, p, id)
           \/ \E q \in Requests : Ri!WriteIndex(q)
           \/ \E p \in Processes : Ri!RemoveDelivered(p) \/ Ri!Crash(p)
    PROVE  ReadsAreStill'
<1>1. Ri!Disturb
  BY DEF Ri!Create, Ri!Update, Ri!Close, Ri!Request, Ri!WriteIndex, Ri!RemoveDelivered, Ri!Crash
<1>. QED
  BY <1>1 DEF Ri!Disturb, ReadsAreStill

\* The loop of p moves to a place outside its reconciliation; the others stay.
LEMMA RiQuiet ==
    ASSUME ReadsAreStill, Ri!TypeOK, NEW p \in Processes,
           NEW place \in {"starting", "waiting", "claiming", "sending", "marking", "releasing",
                          "unindexing", "listing", "rechecking"},
           Ri!Goto(p, place) \/ UNCHANGED scheduler,
           UNCHANGED <<idsIndexed, idsListed, scores>>, Ri!Schedule' = Ri!Schedule,
           \A o \in Processes : o # p \/ scheduler'[p] # "listing" =>
              (~ disturbed'[o] => ~ disturbed[o])
    PROVE  ReadsAreStill'
<1>. SUFFICES ASSUME NEW o \in Processes, ~ disturbed'[o] PROVE ReadIsStill(o)'
  BY DEF ReadsAreStill
<1>1. CASE scheduler'[o] \notin {"reading", "upserting", "removing"}
  BY <1>1 DEF ReadIsStill
<1>2. CASE scheduler'[o] \in {"reading", "upserting", "removing"}
  <2>1. scheduler'[o] = scheduler[o]
    BY <1>2 DEF Ri!Goto, Ri!TypeOK
  <2>2. o # p \/ scheduler'[p] # "listing"
    BY <1>2
  <2>. QED
    BY <2>1, <2>2, RiStill
<1>. QED
  BY <1>1, <1>2

LEMMA RiLoopReads ==
    ASSUME ReadsAreStill, Ri!TypeOK, NEW p \in Processes,
           \/ Ri!CheckDueSource(p) \/ Ri!Recheck(p) \/ Ri!ClaimDueForNotification(p)
           \/ Ri!Send(p) \/ Ri!MarkNotificationSent(p) \/ Ri!ReleaseNotificationClaim(p)
           \/ Ri!StartReconcile(p) \/ Ri!FallbackIntervalPasses(p)
    PROVE  ReadsAreStill'
<1>1. PICK place \in {"starting", "waiting", "claiming", "sending", "marking", "releasing",
                      "unindexing", "listing", "rechecking"} :
         Ri!Goto(p, place) \/ UNCHANGED scheduler
  BY DEF Ri!CheckDueSource, Ri!Recheck, Ri!ClaimDueForNotification, Ri!Send,
         Ri!MarkNotificationSent, Ri!ReleaseNotificationClaim, Ri!StartReconcile,
         Ri!FallbackIntervalPasses, Ri!Believe, Ri!Distrust, Ri!BeginReconcile, Ri!Rest
<1>2. UNCHANGED <<idsIndexed, idsListed, scores>>
  BY DEF Ri!CheckDueSource, Ri!Recheck, Ri!ClaimDueForNotification, Ri!Send,
         Ri!MarkNotificationSent, Ri!ReleaseNotificationClaim, Ri!StartReconcile,
         Ri!FallbackIntervalPasses, Ri!Believe, Ri!Distrust, Ri!BeginReconcile,
         Ri!state, Ri!reading
<1>3. CASE Ri!MarkNotificationSent(p)
  <2>1. CASE Ri!Disturb
    BY <2>1 DEF Ri!Disturb, ReadsAreStill
  <2>2. CASE UNCHANGED <<rowOfReminder, disturbed>>
    <3>1. Ri!Schedule' = Ri!Schedule
      BY <2>2, RiSchedule
    <3>. QED
      BY <1>1, <1>2, <2>2, <3>1, RiQuiet
  <2>. QED
    BY <1>3, <2>1, <2>2 DEF Ri!MarkNotificationSent
<1>4. CASE ~ Ri!MarkNotificationSent(p)
  <2>1. Ri!Schedule' = Ri!Schedule
    <3>1. PICK id :
             \/ UNCHANGED rowOfReminder
             \/ rowOfReminder' = [ rowOfReminder EXCEPT ![id].claim = p, ![id].stale = FALSE ]
             \/ rowOfReminder' = [ rowOfReminder EXCEPT ![id].claim = Nil ]
      BY <1>4 DEF Ri!CheckDueSource, Ri!Recheck, Ri!ClaimDueForNotification, Ri!Send,
             Ri!ReleaseNotificationClaim, Ri!StartReconcile, Ri!FallbackIntervalPasses, Ri!state
    <3>2. ASSUME NEW i \in Ids
          PROVE  /\ rowOfReminder'[i].status = rowOfReminder[i].status
                 /\ rowOfReminder'[i].at = rowOfReminder[i].at
      <4>1. rowOfReminder \in [ Ids -> Ri!Row ] /\ rowOfReminder[i] \in Ri!Row
        BY DEF Ri!TypeOK
      <4>2. \/ rowOfReminder'[i] = rowOfReminder[i]
            \/ rowOfReminder'[i] = [ rowOfReminder[i] EXCEPT !.claim = p, !.stale = FALSE ]
            \/ rowOfReminder'[i] = [ rowOfReminder[i] EXCEPT !.claim = Nil ]
        BY <3>1, <4>1
      <4>. QED
        BY <4>1, <4>2 DEF Ri!Row
    <3>. QED
      BY <3>2, RiSchedule
  <2>2. CASE scheduler'[p] = "listing" /\ \A o \in Processes \ {p} : disturbed'[o] = disturbed[o]
    BY <1>1, <1>2, <2>1, <2>2, RiQuiet
  <2>3. CASE UNCHANGED disturbed
    BY <1>1, <1>2, <2>1, <2>3, RiQuiet
  <2>. QED
    BY <1>4, <2>2, <2>3
       DEF Ri!CheckDueSource, Ri!Recheck, Ri!ClaimDueForNotification, Ri!Send, Ri!TypeOK,
           Ri!ReleaseNotificationClaim, Ri!StartReconcile, Ri!FallbackIntervalPasses,
           Ri!Distrust, Ri!BeginReconcile, Ri!Goto
<1>. QED
  BY <1>3, <1>4

\* The two reads of a reconciliation, made or failed.
LEMMA RiReads ==
    ASSUME ReadsAreStill, Ri!TypeOK, NEW p \in Processes,
           Ri!AllIDs(p) \/ Ri!ListPendingForNotification(p)
    PROVE  ReadsAreStill'
<1>. SUFFICES ASSUME NEW o \in Processes, ~ disturbed'[o] PROVE ReadIsStill(o)'
  BY DEF ReadsAreStill
<1>1. UNCHANGED <<rowOfReminder, scores, disturbed>> /\ Ri!Schedule' = Ri!Schedule
  BY DEF Ri!AllIDs, Ri!ListPendingForNotification, Ri!state, Ri!Schedule, Ri!Pending
<1>2. CASE o # p
  <2>1. /\ scheduler'[o] = scheduler[o]
        /\ idsIndexed'[o] = idsIndexed[o] /\ idsListed'[o] = idsListed[o]
    BY <1>2 DEF Ri!AllIDs, Ri!ListPendingForNotification, Ri!ReconcileFails, Ri!ForgetRead,
                Ri!Goto, Ri!TypeOK
  <2>. QED
    BY <1>1, <2>1, RiStill
<1>3. CASE o = p /\ scheduler'[p] \notin {"reading", "upserting"}
  BY <1>3 DEF Ri!AllIDs, Ri!ListPendingForNotification, Ri!ReconcileFails, Ri!Goto, Ri!TypeOK,
              ReadIsStill
<1>4. CASE o = p /\ scheduler'[p] = "reading"
  <2>1. idsIndexed'[p] = { id \in Ids : scores[id] # Nil }
    BY <1>4 DEF Ri!AllIDs, Ri!ListPendingForNotification, Ri!ReconcileFails, Ri!Goto, Ri!TypeOK
  <2>. QED
    BY <1>1, <1>4, <2>1 DEF ReadIsStill
<1>5. CASE o = p /\ scheduler'[p] = "upserting"
  <2>1. /\ scheduler[p] = "reading" /\ idsIndexed'[p] = idsIndexed[p]
        /\ idsListed'[p] = Ri!Schedule
    BY <1>5 DEF Ri!AllIDs, Ri!ListPendingForNotification, Ri!ReconcileFails, Ri!Goto, Ri!TypeOK
  <2>. QED
    BY <1>1, <1>5, <2>1 DEF ReadIsStill, ReadsAreStill
<1>. QED
  BY <1>2, <1>3, <1>4, <1>5

\* The two writes of a reconciliation disturb the others.
LEMMA RiRebuilds ==
    ASSUME ReadsAreStill, Ri!TypeOK, NEW p \in Processes, Ri!UpsertMany(p) \/ Ri!RemoveMany(p)
    PROVE  ReadsAreStill'
<1>. SUFFICES ASSUME NEW o \in Processes, ~ disturbed'[o] PROVE ReadIsStill(o)'
  BY DEF ReadsAreStill
<1>1. o = p /\ ~ disturbed[p]
  BY DEF Ri!UpsertMany, Ri!RemoveMany, Ri!DisturbOthers
<1>2. UNCHANGED rowOfReminder /\ Ri!Schedule' = Ri!Schedule
  BY DEF Ri!UpsertMany, Ri!RemoveMany, Ri!Schedule, Ri!Pending
<1>3. CASE scheduler'[p] \notin {"reading", "upserting", "removing"}
  BY <1>1, <1>3 DEF ReadIsStill
<1>4. CASE scheduler'[p] \in {"reading", "upserting", "removing"}
  <2>1. /\ scheduler[p] = "upserting" /\ scheduler'[p] = "removing"
        /\ scores' = Ri!Scored(Ids, idsListed[p])
        /\ idsIndexed' = idsIndexed /\ idsListed' = idsListed
    BY <1>4 DEF Ri!UpsertMany, Ri!RemoveMany, Ri!ReconcileFails, Ri!Goto, Ri!TypeOK, Ri!reading
  <2>2. idsIndexed[p] = { id \in Ids : scores[id] # Nil } /\ idsListed[p] = Ri!Schedule
    BY <1>1, <2>1 DEF ReadsAreStill, ReadIsStill
  <2>. QED
    BY <1>1, <1>2, <2>1, <2>2 DEF ReadIsStill, Ri!Scored
<1>. QED
  BY <1>3, <1>4

LEMMA RiReadsKept == RiTypes /\ ReadsAreStill /\ [Ri!Next]_(Ri!vars) => ReadsAreStill'
<1>. SUFFICES ASSUME RiTypes, Ri!TypeOK, ReadsAreStill, [Ri!Next]_(Ri!vars)
              PROVE  ReadsAreStill'
  BY DEF RiTypes
<1>1. CASE UNCHANGED Ri!vars
  BY <1>1 DEF ReadsAreStill, ReadIsStill, Ri!Schedule, Ri!Pending, Ri!vars, Ri!state, Ri!reading
<1>2. ASSUME NEW id \in Ids, Ri!LeaseExpires(id) PROVE ReadsAreStill'
  <2>1. Ri!Schedule' = Ri!Schedule
    BY <1>2, RiSchedule DEF Ri!LeaseExpires, Ri!TypeOK, Ri!Row
  <2>. QED
    BY <1>2, <2>1 DEF Ri!LeaseExpires, Ri!reading, ReadsAreStill, ReadIsStill
<1>3. CASE Ri!Tick
  BY <1>3 DEF Ri!Tick, Ri!state, Ri!reading, ReadsAreStill, ReadIsStill, Ri!Schedule, Ri!Pending
<1>. QED
  BY <1>1, <1>2, <1>3, RiDisturbers, RiLoopReads, RiReads, RiRebuilds DEF Ri!Next, Ri!Proceed

LEMMA RiNext == RiInv /\ [Ri!Next]_(Ri!vars) => RiInv'
  BY RiTypesKept, RiReadsKept DEF RiInv

-----------------------------------------------------------------------------
(* ReminderIndex and the two together *)

LEMMA RiExact ==
    ASSUME RiInv, [Ri!Next]_(Ri!vars), NEW p \in Processes,
           scheduler[p] = "removing", ~ disturbed[p],
           scheduler'[p] = "rechecking" \/ (scheduler'[p] = "waiting" /\ ~ distrusted'[p])
    PROVE  scores' = Ri!Schedule
<1>1. Ri!TypeOK /\ ReadIsStill(p)
  BY DEF RiInv, RiTypes, ReadsAreStill
<1>2. Ri!RemoveMany(p) /\ scores' = Ri!Without(Ri!StaleIds(p))
  <2>1. Ri!RemoveMany(p)
    <3>1. scheduler'[p] # scheduler[p] /\ scheduler'[p] # "starting"
      OBVIOUS
    <3>2. CASE \/ \E q \in Requests, o \in Processes, id \in Ids :
                    \/ \E due \in Times : Ri!Create(q, o, id, due) \/ Ri!Update(q, o, id, due)
                    \/ Ri!Close(q, o, id)
               \/ \E q \in Requests : Ri!WriteIndex(q)
               \/ \E o \in Processes : Ri!FallbackIntervalPasses(o)
               \/ \E id \in Ids : Ri!LeaseExpires(id)
               \/ Ri!Tick \/ UNCHANGED Ri!vars
      BY <3>1, <3>2 DEF Ri!Create, Ri!Update, Ri!Close, Ri!Request, Ri!WriteIndex,
         Ri!FallbackIntervalPasses, Ri!LeaseExpires, Ri!Tick, Ri!vars
    <3>3. ASSUME NEW o \in Processes,
                 Ri!CheckDueSource(o) \/ Ri!StartReconcile(o) \/ Ri!Proceed(o) \/ Ri!Crash(o)
          PROVE  o = p
      <4>1. (\E place : Ri!Goto(o, place)) \/ UNCHANGED scheduler
        BY <3>3 DEF Ri!Proceed, Ri!CheckDueSource, Ri!Distrust, Ri!Believe, Ri!BeginReconcile,
           Ri!Recheck, Ri!ClaimDueForNotification, Ri!Rest, Ri!Send, Ri!MarkNotificationSent,
           Ri!ReleaseNotificationClaim, Ri!RemoveDelivered, Ri!StartReconcile, Ri!AllIDs,
           Ri!ListPendingForNotification, Ri!UpsertMany, Ri!RemoveMany, Ri!ReconcileFails, Ri!Crash
      <4>. QED
        BY <1>1, <3>1, <4>1 DEF Ri!Goto, Ri!TypeOK
    <3>4. ~ (Ri!CheckDueSource(p) \/ Ri!StartReconcile(p) \/ Ri!Crash(p))
      BY <1>1, <3>1 DEF Ri!CheckDueSource, Ri!StartReconcile, Ri!Crash, Ri!Goto, Ri!TypeOK
    <3>5. Ri!Proceed(p) => Ri!RemoveMany(p)
      BY DEF Ri!Proceed, Ri!Recheck, Ri!ClaimDueForNotification, Ri!Send, Ri!MarkNotificationSent,
         Ri!ReleaseNotificationClaim, Ri!RemoveDelivered, Ri!AllIDs,
         Ri!ListPendingForNotification, Ri!UpsertMany
    <3>. QED
      BY <3>2, <3>3, <3>4, <3>5 DEF Ri!Next
  <2>. QED
    BY <1>1, <2>1 DEF Ri!RemoveMany, Ri!ReconcileFails, Ri!Goto, Ri!TypeOK
<1>3. idsListed[p] = Ri!Schedule
  BY <1>1 DEF ReadIsStill
<1>4. ASSUME NEW id \in Ids
      PROVE  (IF id \in Ri!StaleIds(p) THEN Nil ELSE scores[id]) = idsListed[p][id]
  BY <1>1 DEF ReadIsStill, Ri!StaleIds
<1>. QED
  BY <1>2, <1>3, <1>4 DEF Ri!Without, Ri!Schedule

\* A reconciliation of the reminders' index that nothing disturbed leaves exactly the
\* pending reminders in it, each at its time, whatever failed, crashed or was overwritten
\* before.
THEOREM QuietReconciliationsAreExact == Ri!Spec => QuietReconciliationIsExact
<1>1. RiInv /\ [Ri!Next]_(Ri!vars) =>
         \A p \in Processes :
            scheduler[p] = "removing" /\ ~ disturbed[p]
              /\ (scheduler'[p] = "rechecking" \/ (scheduler'[p] = "waiting" /\ ~ distrusted'[p]))
              => scores' = Ri!Schedule
  BY RiExact
<1>. QED
  BY <1>1, RiInitially, RiNext, PTL
     DEF Ri!Spec, QuietReconciliationIsExact, Ri!QuietReconciliationIsExact

\* Each variable of either index keeps its type, the mutations counted in flight included.
THEOREM TypesCorrect == PartsSpec => []TypesOK
<1>. DEFINE PInv == (part = "messages" => DInv) /\ (part = "reminders" => RiInv)
<1>1. PartsInit => PInv
  BY DInvInit, RiInitially DEF PartsInit
<1>2. PInv /\ [PartsNext]_<<part, vars, ofRi>> => PInv'
  <2>. SUFFICES ASSUME PInv, [PartsNext]_<<part, vars, ofRi>> PROVE PInv'
    OBVIOUS
  <2>1. UNCHANGED ofRi => UNCHANGED Ri!vars
    BY DEF ofRi, Ri!vars, Ri!state, Ri!trust, Ri!reading, Ri!bounds
  <2>. QED
    BY <2>1, DInvNext, RiNext DEF PartsNext
<1>3. PInv => TypesOK
  BY DEF TypesOK, RiInv, RiTypes, DInv, Types, CountIsRight, Begun, Claiming, TypeOK
<1>. QED
  BY <1>1, <1>2, <1>3, PTL DEF PartsSpec

=============================================================================
