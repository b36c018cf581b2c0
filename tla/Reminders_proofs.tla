--------------------------- MODULE Reminders_proofs ---------------------------
(* Proofs of the safety of Reminders, for any number of processes, creations and
   deletions, any batch size and any lease.                                *)
EXTENDS Reminders, SequenceTheorems, FiniteSetTheorems, TLAPS

\* A row that was never inserted has no content.
AbsentIsEmpty == \A r \in Ids : rows[r].status = "ABSENT" => rows[r] = NoReminder

\* A creation's id is its own and not inserted yet; its snapshot shows keyed rows.
CreationsAreFresh ==
    \A u \in Creators :
        /\ creating[u].phase # "none" => rows[creating[u].id].status = "ABSENT"
        /\ \A v \in Creators \ {u} :
              creating[u].phase # "none" => creating[v].id # creating[u].id
        /\ creating[u].seen \subseteq {r \in Keyed : rows[r].status # "ABSENT"}

\* A deletion has read a row that exists, and decided a status that is not PENDING.
DeletionsAreDecided ==
    \A u \in Deleters : deleting[u].id # Nil =>
        /\ rows[deleting[u].id].status # "ABSENT"
        /\ deleting[u].status \in {"SENT", "COMPLETED", "CANCELLED"}

\* ux_reminders_pending_replace_key
OnePendingPerKey == \A r, s \in LivePending : r = s

\* The inductive invariant.
RInv == TypeOK /\ AbsentIsEmpty /\ CreationsAreFresh /\ DeletionsAreDecided /\ OnePendingPerKey

-----------------------------------------------------------------------------
(* What the operators return *)

\* A row not inserted is a reminder, and so is a new one.
LEMMA NewReminderType ==
    /\ NoReminder \in Reminder /\ NoReminder.status = "ABSENT" /\ ~NoReminder.deleted
    /\ \A at \in Nat : /\ NewReminder(at) \in Reminder
                       /\ NewReminder(at).status = "PENDING" /\ ~NewReminder(at).deleted
                       /\ NewReminder(at).at = at
  BY DEF NoReminder, NewReminder, Reminder, Statuses

\* What statements write into a row leaves a reminder.
LEMMA RowType ==
    ASSUME NEW row \in Reminder
    PROVE  /\ MarkedSent(row) \in Reminder
           /\ [row EXCEPT !.claim = Nil] \in Reminder
           /\ \A t \in Nat : [row EXCEPT !.claim = t] \in Reminder /\ [row EXCEPT !.at = t] \in Reminder
           /\ \A s \in Statuses \union {"ABSENT"} :
                 /\ [row EXCEPT !.status = s] \in Reminder
                 /\ [row EXCEPT !.status = s, !.deleted = TRUE] \in Reminder
  BY DEF Reminder, MarkedSent, Statuses

\* An UPDATE of one row
LEMMA OneRow ==
    ASSUME rows \in [Ids -> Reminder], NEW r \in Ids, NEW row \in Reminder,
           rows' = [rows EXCEPT ![r] = row]
    PROVE  /\ rows' \in [Ids -> Reminder] /\ rows'[r] = row
           /\ \A s \in Ids \ {r} : rows'[s] = rows[s]
  OBVIOUS

\* What statements write into the record of a creation leaves one.
LEMMA CreationType ==
    /\ NoCreation \in Creation /\ NoCreation.phase = "none" /\ NoCreation.id = Nil
    /\ NoCreation.seen = {}
    /\ \A r \in Ids, t \in Nat :
          [NoCreation EXCEPT !.phase = "reading", !.id = r, !.at = t] \in Creation
    /\ \A c \in Creation :
          /\ \A S \in SUBSET Ids : [c EXCEPT !.phase = "writing", !.seen = S] \in Creation
          /\ [c EXCEPT !.phase = "reading", !.seen = {}, !.retried = TRUE] \in Creation
  BY DEF NoCreation, Creation

\* A batch is a sequence of distinct due reminders.
LEMMA BatchType ==
    ASSUME NEW due \in SUBSET Ids, NEW todo \in Batches(due), due # {}
    PROVE  /\ todo \in Seq(Ids) /\ todo # << >>
           /\ \A i \in 1..Len(todo) : todo[i] \in due
           /\ \A i, j \in 1..Len(todo) : i # j => todo[i] # todo[j]
           /\ DOMAIN todo = 1..Len(todo)
<1> DEFINE size == IF Cardinality(due) < BatchSize THEN Cardinality(due) ELSE BatchSize
<1>1. IsFiniteSet(due)
  BY FS_Subset, ReminderAssumption
<1>2. Cardinality(due) \in Nat /\ Cardinality(due) # 0
  BY <1>1, FS_CardinalityType, FS_EmptySet
<1>3. size \in Nat \ {0}
  BY <1>2, ReminderAssumption
<1>4. /\ todo \in [1..size -> due]
      /\ \A i, j \in 1..size : i < j => todo[i] # todo[j]
  BY DEF Batches
<1> HIDE DEF size
<1>5. todo \in Seq(Ids) /\ Len(todo) = size
  BY <1>3, <1>4
<1>6. \A i, j \in 1..size : i # j => todo[i] # todo[j]
  BY <1>3, <1>4
<1> QED BY <1>3, <1>4, <1>5, <1>6

\* The next reminder of a batch, or none.
LEMMA NextReminderMoves ==
    ASSUME TypeOK, NEW p \in Processes, pc[p] # "idle", NextReminder(p)
    PROVE  /\ pc' \in [Processes -> {"idle", "delivering", "marking", "releasing"}]
           /\ batch' \in [Processes -> [tick : Nat, todo : Seq(Ids)]]
           /\ \A q \in Processes \ {p} : pc'[q] = pc[q] /\ batch'[q] = batch[q]
           /\ \/ pc'[p] = "idle" /\ batch'[p] = NoBatch
              \/ /\ pc'[p] = "delivering" /\ batch'[p].tick = batch[p].tick
                 /\ batch'[p].todo = Tail(batch[p].todo) /\ batch'[p].todo # << >>
<1>1. batch[p] \in [tick : Nat, todo : Seq(Ids)] /\ batch[p].todo # << >>
  BY DEF TypeOK
<1>2. Tail(batch[p].todo) \in Seq(Ids)
  BY <1>1, HeadTailProperties
<1>3. NoBatch \in [tick : Nat, todo : Seq(Ids)]
  BY DEF NoBatch
<1> QED BY <1>1, <1>2, <1>3 DEF NextReminder, TypeOK

\* The reminder a process works on.
LEMMA CurrentType ==
    ASSUME TypeOK, NEW p \in Processes, pc[p] # "idle"
    PROVE  Current(p) \in Ids
  BY HeadTailProperties DEF TypeOK, Current

-----------------------------------------------------------------------------
(* Type correctness, one lemma per kind of step *)

\* Nothing has happened at first.
LEMMA InitRInv == Init => RInv
<1> SUFFICES ASSUME Init PROVE RInv
  OBVIOUS
<1> USE NewReminderType, ReminderAssumption DEF Init
<1>1. TypeOK
  BY DEF TypeOK, Creation, NoCreation, NoDeletion, NoBatch, Statuses
<1>2. AbsentIsEmpty /\ CreationsAreFresh /\ DeletionsAreDecided /\ OnePendingPerKey
  BY DEF AbsentIsEmpty, CreationsAreFresh, DeletionsAreDecided, OnePendingPerKey,
         NoCreation, NoDeletion, LivePending, Pending
<1> QED BY <1>1, <1>2 DEF RInv

\* A poll
LEMMA ClaimType ==
    ASSUME TypeOK, NEW p \in Processes, ClaimDueForNotification(p)
    PROVE  TypeOK'
<1>1. PICK tick \in 0..now, locked \in SUBSET Lockable : Claim(p, tick, locked)
  BY DEF ClaimDueForNotification
<1> DEFINE due == {r \in Ids \ locked : Due(r, tick)}
<1>2. PICK todo \in Batches(due) :
        /\ rows' = [ r \in Ids |-> IF r \in {todo[i] : i \in DOMAIN todo}
                                   THEN [rows[r] EXCEPT !.claim = tick] ELSE rows[r] ]
        /\ batch' = [batch EXCEPT ![p] = [tick |-> tick, todo |-> todo]]
  BY <1>1 DEF Claim
<1>3. due \in SUBSET Ids /\ due # {} /\ pc' = [pc EXCEPT ![p] = "delivering"]
      /\ UNCHANGED <<now, accepted, creating, deleting, faults, edits>>
  BY <1>1 DEF Claim
<1> HIDE DEF due
<1>4. todo \in Seq(Ids) /\ todo # << >>
  BY <1>2, <1>3, BatchType
<1>5. tick \in Nat
  BY DEF TypeOK
<1>6. rows' \in [Ids -> Reminder]
  BY <1>2, <1>5, RowType DEF TypeOK
<1> QED BY <1>2, <1>3, <1>4, <1>5, <1>6 DEF TypeOK

\* A step of a delivery
LEMMA DeliveryType ==
    ASSUME TypeOK, NEW p \in Processes,
           Deliver(p) \/ SendFails(p) \/ MarkFails(p) \/ ReleaseFails(p) \/ Crash(p)
    PROVE  TypeOK'
<1> USE DEF TypeOK
<1>1. pc[p] # "idle" /\ Current(p) \in Ids
  BY CurrentType DEF Deliver, TargetFails, BridgeAccepts, MarkNotificationSent,
     ReleaseNotificationClaim, SendFails, MarkFails, ReleaseFails, Crash
<1>2. ASSUME Fault PROVE faults' \in 0..MaxFaults
  BY <1>2, ReminderAssumption DEF Fault
<1>3. CASE TargetFails(p)
  BY <1>3 DEF TargetFails, Goto
<1>4. CASE BridgeAccepts(p)
  BY <1>1, <1>4 DEF BridgeAccepts, Goto, Taken
<1>5. CASE SendFails(p)
  <2>1. Taken(Current(p)) \in [Ids -> Nat]
    BY <1>1 DEF Taken
  <2>2. accepted' \in [Ids -> Nat]
    BY <1>5, <2>1 DEF SendFails
  <2> QED BY <1>1, <1>2, <1>5, <2>2 DEF SendFails, Goto
<1>6. CASE MarkNotificationSent(p)
  <2>1. rows' \in [Ids -> Reminder]
    <3>1. rows[Current(p)] \in Reminder /\ rows \in [Ids -> Reminder]
      BY <1>1
    <3>2. MarkedSent(rows[Current(p)]) \in Reminder
      BY <3>1, RowType
    <3>3. rows' = [rows EXCEPT ![Current(p)] = MarkedSent(rows[Current(p)])] \/ rows' = rows
      BY <1>6 DEF MarkNotificationSent
    <3> QED BY <1>1, <3>1, <3>2, <3>3, OneRow
  <2> QED BY <1>1, <1>6, <2>1, NextReminderMoves DEF MarkNotificationSent, NoBatch
<1>7. CASE ReleaseNotificationClaim(p)
  <2>1. rows' \in [Ids -> Reminder]
    <3>1. rows[Current(p)] \in Reminder /\ rows \in [Ids -> Reminder]
      BY <1>1
    <3>2. [rows[Current(p)] EXCEPT !.claim = Nil] \in Reminder
      BY <3>1, RowType
    <3>3. rows' = [rows EXCEPT ![Current(p)] = [rows[Current(p)] EXCEPT !.claim = Nil]] \/ rows' = rows
      BY <1>7 DEF ReleaseNotificationClaim
    <3> QED BY <1>1, <3>1, <3>2, <3>3, OneRow
  <2> QED BY <1>1, <1>7, <2>1, NextReminderMoves DEF ReleaseNotificationClaim, NoBatch
<1>8. CASE MarkFails(p) \/ ReleaseFails(p)
  <2>1. NextReminder(p) /\ faults' \in 0..MaxFaults /\ pc[p] # "idle"
        /\ UNCHANGED <<now, rows, accepted, creating, deleting, edits>>
    BY <1>1, <1>2, <1>8 DEF MarkFails, ReleaseFails
  <2> QED BY <2>1, NextReminderMoves DEF NoBatch
<1>9. CASE Crash(p)
  BY <1>2, <1>9 DEF Crash, NoBatch
<1> QED BY <1>3, <1>4, <1>5, <1>6, <1>7, <1>8, <1>9 DEF Deliver

\* A transaction of CreateReplacing writes reminders.
LEMMA ReplacedType ==
    ASSUME TypeOK, NEW u \in Creators
    PROVE  Replaced(u) \in [Ids -> Reminder]
<1>1. creating[u].at \in Nat /\ rows \in [Ids -> Reminder]
  BY DEF TypeOK, Creation
<1>2. NewReminder(creating[u].at) \in Reminder
  BY <1>1, NewReminderType
<1>3. "CANCELLED" \in Statuses /\ "COMPLETED" \in Statuses
  BY DEF Statuses
<1> QED BY <1>1, <1>2, <1>3, RowType DEF Replaced

\* A step of a request
LEMMA RequestType ==
    ASSUME TypeOK, RequestStep
    PROVE  TypeOK'
<1> USE ReminderAssumption
<1>a. "CANCELLED" \in Statuses /\ "COMPLETED" \in Statuses /\ Times \subseteq Nat
  BY DEF Statuses
<1>1. CASE \E r \in Ids, at \in Times : CreatePlain(r, at)
  BY <1>1, NewReminderType DEF CreatePlain, TypeOK
<1>2. CASE \E r \in Ids, at \in Times : UpdatePending(r, at)
  <2>1. rows' \in [Ids -> Reminder]
    <3>1. PICK r \in Ids, at \in Times : rows' = [rows EXCEPT ![r] = [rows[r] EXCEPT !.at = at]]
      BY <1>2 DEF UpdatePending
    <3>2. rows[r] \in Reminder /\ rows \in [Ids -> Reminder]
      BY DEF TypeOK
    <3>3. [rows[r] EXCEPT !.at = at] \in Reminder
      BY <1>a, <3>2, RowType
    <3> QED BY <3>1, <3>2, <3>3, OneRow
  <2>2. edits' \in 0..MaxEdits /\ UNCHANGED <<now, accepted, pc, batch, creating, deleting, faults>>
    BY <1>2 DEF UpdatePending, TypeOK
  <2> QED BY <2>1, <2>2 DEF TypeOK
<1>3. CASE \E r \in Ids : Complete(r)
  <2>1. rows' \in [Ids -> Reminder]
    <3>1. PICK r \in Ids : rows' = [rows EXCEPT ![r] = [rows[r] EXCEPT !.status = "COMPLETED"]]
      BY <1>3 DEF Complete
    <3>2. rows[r] \in Reminder /\ rows \in [Ids -> Reminder]
      BY DEF TypeOK
    <3>3. [rows[r] EXCEPT !.status = "COMPLETED"] \in Reminder
      BY <1>a, <3>2, RowType
    <3> QED BY <3>1, <3>2, <3>3, OneRow
  <2> QED BY <1>3, <2>1 DEF Complete, TypeOK
<1>4. CASE \E u \in Creators, r \in Ids, at \in Times : BeginReplacing(u, r, at)
  <2>1. PICK u \in Creators, r \in Ids, at \in Times : BeginReplacing(u, r, at)
    BY <1>4
  <2>2. /\ creating' \in [Creators -> Creation]
        /\ \A v \in Creators : creating'[v].phase # "none" => creating'[v].id \in Keyed
    BY <1>a, <2>1, CreationType DEF BeginReplacing, TypeOK, NoCreation
  <2> QED BY <2>1, <2>2 DEF BeginReplacing, TypeOK
<1>5. CASE \E u \in Creators : ReadMatching(u)
  <2>1. PICK u \in Creators : ReadMatching(u)
    BY <1>5
  <2>2. creating' = [creating EXCEPT ![u] = [creating[u] EXCEPT !.phase = "writing", !.seen = {r \in Keyed : Unfinished(r)}]]
    BY <2>1 DEF ReadMatching
  <2>3. /\ creating' \in [Creators -> Creation]
        /\ \A v \in Creators : creating'[v].phase # "none" => creating'[v].id \in Keyed
    <3>1. {r \in Keyed : Unfinished(r)} \in SUBSET Ids /\ creating[u] \in Creation
      BY DEF TypeOK
    <3> DEFINE new == [creating[u] EXCEPT !.phase = "writing", !.seen = {r \in Keyed : Unfinished(r)}]
    <3>2. new \in Creation
      BY <3>1, CreationType
    <3>3. new.id = creating[u].id /\ creating[u].id \in Keyed
      BY <2>1, <3>1 DEF ReadMatching, TypeOK, Creation
    <3> HIDE DEF new
    <3> QED BY <2>2, <3>2, <3>3 DEF new, TypeOK
  <2> QED BY <2>1, <2>3 DEF ReadMatching, TypeOK
<1>6. CASE \E u \in Creators : CreationEnds(u) \/ CreationFails(u)
  <2>1. PICK u \in Creators : CreationEnds(u) \/ CreationFails(u)
    BY <1>6
  <2>2. \/ EndCreation(u)
        \/ creating[u].phase = "writing" /\ creating' = [creating EXCEPT ![u] =
              [creating[u] EXCEPT !.phase = "reading", !.seen = {}, !.retried = TRUE]]
    BY <2>1 DEF CreationEnds, CreationFails, KeepExisting, Replace, ReplaceConflicts
  <2>3. /\ creating' \in [Creators -> Creation]
        /\ \A v \in Creators : creating'[v].phase # "none" => creating'[v].id \in Keyed
    <3>1. CASE EndCreation(u)
      BY <3>1, CreationType DEF EndCreation, TypeOK
    <3>2. CASE ~EndCreation(u)
      <4> DEFINE new == [creating[u] EXCEPT !.phase = "reading", !.seen = {}, !.retried = TRUE]
      <4>1. creating[u] \in Creation
        BY DEF TypeOK
      <4>2. new \in Creation
        BY <4>1, CreationType
      <4>3. new.id = creating[u].id /\ creating[u].id \in Keyed /\ creating' = [creating EXCEPT ![u] = new]
        BY <2>2, <3>2, <4>1 DEF TypeOK, Creation
      <4> HIDE DEF new
      <4> QED BY <4>2, <4>3 DEF TypeOK
    <3> QED BY <3>1, <3>2
  <2>4. rows' \in [Ids -> Reminder] /\ faults' \in 0..MaxFaults
    BY <2>1, ReplacedType
       DEF CreationEnds, CreationFails, KeepExisting, Replace, ReplaceConflicts, Fault, TypeOK
  <2> QED BY <2>1, <2>3, <2>4
          DEF CreationEnds, CreationFails, KeepExisting, Replace, ReplaceConflicts, TypeOK
<1>7. CASE \E u \in Deleters, r \in Ids : ReadForDeletion(u, r)
  BY <1>7 DEF ReadForDeletion, NoDeletion, Reminder, Statuses, TypeOK
<1>8. CASE \E u \in Deleters : SoftDelete(u)
  <2>1. rows' \in [Ids -> Reminder]
    <3>1. PICK u \in Deleters : SoftDelete(u)
      BY <1>8
    <3> DEFINE r == deleting[u].id
               row == [rows[r] EXCEPT !.status = deleting[u].status, !.deleted = TRUE]
    <3>2. r \in Ids /\ deleting[u].status \in Statuses \union {"ABSENT"}
      BY <3>1 DEF SoftDelete, TypeOK
    <3>3. rows[r] \in Reminder /\ rows \in [Ids -> Reminder]
      BY <3>2 DEF TypeOK
    <3>4. row \in Reminder
      BY <3>2, <3>3, RowType
    <3>5. rows' = [rows EXCEPT ![r] = row] \/ rows' = rows
      BY <3>1 DEF SoftDelete
    <3> HIDE DEF r, row
    <3> QED BY <3>2, <3>3, <3>4, <3>5, OneRow
  <2> QED BY <1>8, <2>1 DEF SoftDelete, NoDeletion, TypeOK
<1> QED BY <1>1, <1>2, <1>3, <1>4, <1>5, <1>6, <1>7, <1>8 DEF RequestStep

\* Every step keeps the types.
LEMMA TypeStep == TypeOK /\ [Next]_vars => TypeOK'
<1> SUFFICES ASSUME TypeOK, [Next]_vars PROVE TypeOK'
  OBVIOUS
<1>1. CASE Tick
  BY <1>1, ReminderAssumption DEF Tick, TypeOK
<1>2. CASE SchedulerStep
  BY <1>2, ClaimType, DeliveryType DEF SchedulerStep
<1>3. CASE RequestStep
  BY <1>3, RequestType
<1>4. CASE UNCHANGED vars
  BY <1>4 DEF vars, TypeOK
<1> QED BY <1>1, <1>2, <1>3, <1>4 DEF Next

-----------------------------------------------------------------------------
(* What a step may do to a row *)

\* An existing row that is not deleted goes forward, and never back to PENDING.
GoesForward(r) ==
    /\ Live(r) /\ rows[r].status # "ABSENT" /\ rows'[r].status # "ABSENT"
    /\ Pending(r)' => Pending(r)
    /\ ~rows'[r].deleted => Rank[rows[r].status] <= Rank[rows'[r].status]
    /\ rows[r].status # "PENDING" => rows'[r].at = rows[r].at

Inserted(r) == rows[r].status = "ABSENT" /\ \E at \in Nat : rows'[r] = NewReminder(at)

\* No row is inserted.
NoInsertion == \A r \in Ids : rows'[r] = rows[r] \/ GoesForward(r)

\* The order of statuses
LEMMA RankValues ==
    /\ Rank["ABSENT"] = 0 /\ Rank["PENDING"] = 1 /\ Rank["SENT"] = 2
    /\ Rank["COMPLETED"] = 3 /\ Rank["CANCELLED"] = 3
  BY DEF Rank

\* A poll stamps pending rows.
LEMMA ClaimRows ==
    ASSUME RInv, NEW p \in Processes, ClaimDueForNotification(p)
    PROVE  NoInsertion
<1>1. PICK tick \in 0..now, locked \in SUBSET Lockable : Claim(p, tick, locked)
  BY DEF ClaimDueForNotification
<1> DEFINE due == {r \in Ids \ locked : Due(r, tick)}
<1>2. PICK todo \in Batches(due) :
        rows' = [ r \in Ids |-> IF r \in {todo[i] : i \in DOMAIN todo}
                                THEN [rows[r] EXCEPT !.claim = tick] ELSE rows[r] ]
  BY <1>1 DEF Claim
<1>3. due \in SUBSET Ids /\ due # {}
  BY <1>1 DEF Claim
<1>4. {todo[i] : i \in DOMAIN todo} \subseteq due
  <2> HIDE DEF due
  <2> QED BY <1>2, <1>3, BatchType
<1>5. ASSUME NEW r \in Ids, rows'[r] # rows[r]
      PROVE  Pending(r) /\ rows'[r] = [rows[r] EXCEPT !.claim = tick]
  BY <1>2, <1>4, <1>5 DEF Due
<1>6. rows \in [Ids -> Reminder]
  BY DEF RInv, TypeOK
<1>7. ASSUME NEW r \in Ids, rows'[r] # rows[r] PROVE GoesForward(r)
  <2>1. /\ rows'[r].status = rows[r].status /\ rows'[r].deleted = rows[r].deleted
        /\ rows'[r].at = rows[r].at
    <3>1. rows[r] \in Reminder /\ rows'[r] = [rows[r] EXCEPT !.claim = tick]
      BY <1>5, <1>6, <1>7
    <3> QED BY ONLY <3>1 DEF Reminder
  <2>2. Pending(r)
    BY <1>5, <1>7
  <2> QED BY <2>1, <2>2, RankValues DEF GoesForward, Pending, Live
<1> QED BY <1>7 DEF NoInsertion

\* A delivery marks or releases a pending row.
LEMMA DeliveryRows ==
    ASSUME RInv, NEW p \in Processes,
           Deliver(p) \/ SendFails(p) \/ MarkFails(p) \/ ReleaseFails(p) \/ Crash(p)
    PROVE  NoInsertion
<1>1. rows \in [Ids -> Reminder] /\ TypeOK
  BY DEF RInv, TypeOK
<1>2. CASE MarkNotificationSent(p) /\ OwnClaim(p, Current(p))
  <2>1. Current(p) \in Ids /\ Pending(Current(p))
    BY <1>1, <1>2, CurrentType DEF MarkNotificationSent, OwnClaim
  <2>2. /\ rows'[Current(p)].status = "SENT" /\ ~rows'[Current(p)].deleted
        /\ rows'[Current(p)].at = rows[Current(p)].at
        /\ \A r \in Ids \ {Current(p)} : rows'[r] = rows[r]
    BY <1>1, <1>2, <2>1 DEF MarkNotificationSent, MarkedSent, Reminder, Pending, Live
  <2> QED BY <2>1, <2>2, RankValues DEF NoInsertion, GoesForward, Pending, Live
<1>3. CASE ReleaseNotificationClaim(p) /\ OwnClaim(p, Current(p))
  <2>1. Current(p) \in Ids /\ Pending(Current(p))
    BY <1>1, <1>3, CurrentType DEF ReleaseNotificationClaim, OwnClaim
  <2>2. /\ rows'[Current(p)].status = "PENDING" /\ ~rows'[Current(p)].deleted
        /\ \A r \in Ids \ {Current(p)} : rows'[r] = rows[r]
    BY <1>1, <1>3, <2>1 DEF ReleaseNotificationClaim, Reminder, Pending, Live
  <2> QED BY <2>1, <2>2, RankValues DEF NoInsertion, GoesForward, Pending, Live
<1>4. CASE rows' = rows
  BY <1>4 DEF NoInsertion
<1> QED BY <1>2, <1>3, <1>4 DEF Deliver, TargetFails, BridgeAccepts, MarkNotificationSent,
        ReleaseNotificationClaim, SendFails, MarkFails, ReleaseFails, Crash

\* Completing, moving and deleting
LEMMA ChangeRows ==
    ASSUME RInv,
           \/ \E r \in Ids : Complete(r) \/ \E at \in Times : UpdatePending(r, at)
           \/ \E u \in Deleters : SoftDelete(u)
    PROVE  NoInsertion
<1>1. rows \in [Ids -> Reminder] /\ TypeOK
  BY DEF RInv, TypeOK
<1>2. CASE \E r \in Ids : Complete(r)
  <2>1. PICK r \in Ids : Complete(r)
    BY <1>2
  <2>2. /\ rows'[r].status = "COMPLETED" /\ rows'[r].at = rows[r].at
        /\ \A s \in Ids \ {r} : rows'[s] = rows[s]
    BY <1>1, <2>1 DEF Complete, Reminder
  <2> QED BY <2>1, <2>2, RankValues DEF Complete, NoInsertion, GoesForward, Pending, Live, Unfinished
<1>3. CASE \E r \in Ids, at \in Times : UpdatePending(r, at)
  <2>1. PICK r \in Ids, at \in Times : UpdatePending(r, at)
    BY <1>3
  <2>2. /\ rows'[r].status = rows[r].status /\ rows'[r].deleted = rows[r].deleted
        /\ \A s \in Ids \ {r} : rows'[s] = rows[s]
    BY <1>1, <2>1 DEF UpdatePending, Reminder
  <2> QED BY <2>1, <2>2, RankValues DEF UpdatePending, NoInsertion, GoesForward, Pending, Live
<1>4. CASE \E u \in Deleters : SoftDelete(u)
  <2>1. PICK u \in Deleters : SoftDelete(u)
    BY <1>4
  <2> DEFINE r == deleting[u].id
  <2>2. r \in Ids /\ r # Nil
    BY <1>1, <2>1 DEF SoftDelete, TypeOK
  <2>3. rows[r].status # "ABSENT" /\ deleting[u].status \in {"SENT", "COMPLETED", "CANCELLED"}
    BY <2>2 DEF RInv, DeletionsAreDecided
  <2>4. CASE Live(r)
    <3>1. /\ rows'[r].status = deleting[u].status /\ rows'[r].deleted
          /\ rows'[r].at = rows[r].at
          /\ \A s \in Ids \ {r} : rows'[s] = rows[s]
      BY <1>1, <2>1, <2>2, <2>4 DEF SoftDelete, Reminder
    <3> HIDE DEF r
    <3> QED BY <2>2, <2>3, <2>4, <3>1 DEF NoInsertion, GoesForward, Pending, Live
  <2>5. CASE ~Live(r)
    BY <2>1, <2>5 DEF SoftDelete, NoInsertion
  <2> QED BY <2>4, <2>5
<1> QED BY <1>2, <1>3, <1>4

\* A replacement cancels the pending rows and completes the sent ones it found.
LEMMA ReplaceRows ==
    ASSUME RInv, NEW u \in Creators, Replace(u)
    PROVE  /\ creating[u].id \in Keyed /\ Inserted(creating[u].id)
           /\ rows'[creating[u].id] = NewReminder(creating[u].at) /\ creating[u].at \in Nat
           /\ \A r \in Ids \ {creating[u].id} : rows'[r] = rows[r] \/ GoesForward(r)
           /\ \A r \in PendingSeen(u) : r # creating[u].id /\ rows'[r].deleted
           /\ \A r \in SentSeen(u) : ~Unfinished(r)'
<1>1. /\ rows \in [Ids -> Reminder] /\ Keyed \subseteq Ids /\ creating[u] \in Creation
      /\ creating[u].id \in Keyed /\ creating[u].phase # "none"
  BY ReminderAssumption DEF RInv, TypeOK, Replace
<1>2. creating[u].at \in Nat /\ creating[u].seen \subseteq Ids
  BY <1>1 DEF Creation
<1>3. rows[creating[u].id].status = "ABSENT"
  BY <1>1 DEF RInv, CreationsAreFresh
<1>4. rows'[creating[u].id] = NewReminder(creating[u].at)
  <2>1. creating[u].id \notin PendingSeen(u) /\ creating[u].id \notin SentSeen(u) /\ creating[u].id \in Ids
    BY <1>1, <1>3 DEF PendingSeen, SentSeen, Pending
  <2> QED BY <2>1 DEF Replace, Replaced
<1>5. ASSUME NEW r \in PendingSeen(u)
      PROVE  /\ r \in Ids /\ r # creating[u].id /\ rows'[r].deleted /\ GoesForward(r)
  <2>1. r \in Ids /\ Pending(r) /\ r # creating[u].id
    BY <1>2, <1>3, <1>5 DEF PendingSeen, Pending
  <2>2. rows'[r] = [rows[r] EXCEPT !.status = "CANCELLED", !.deleted = TRUE]
    <3>1. r \notin SentSeen(u)
      BY <2>1 DEF SentSeen, Pending
    <3> QED BY <1>5, <2>1, <3>1 DEF Replace, Replaced
  <2>3. rows'[r].status = "CANCELLED" /\ rows'[r].deleted
    BY <1>1, <2>1, <2>2 DEF Reminder
  <2> QED BY <2>1, <2>3 DEF GoesForward, Pending, Live
<1>6. ASSUME NEW r \in SentSeen(u)
      PROVE  r \in Ids /\ r # creating[u].id /\ ~Unfinished(r)' /\ GoesForward(r)
  <2>1. r \in Ids /\ Live(r) /\ rows[r].status = "SENT" /\ r # creating[u].id
    BY <1>2, <1>3, <1>6 DEF SentSeen, Unfinished
  <2>2. r \notin PendingSeen(u)
    BY <2>1 DEF PendingSeen, Pending
  <2>3. rows'[r] = [rows[r] EXCEPT !.status = "COMPLETED"]
    BY <1>6, <2>1, <2>2 DEF Replace, Replaced
  <2>4. rows'[r].status = "COMPLETED" /\ rows'[r].at = rows[r].at /\ rows'[r].deleted = rows[r].deleted
    BY <1>1, <2>1, <2>3 DEF Reminder
  <2> QED BY <2>1, <2>4, RankValues DEF GoesForward, Pending, Live, Unfinished
<1>7. ASSUME NEW r \in Ids \ {creating[u].id}, r \notin PendingSeen(u), r \notin SentSeen(u)
      PROVE  rows'[r] = rows[r]
  BY <1>7 DEF Replace, Replaced
<1> QED BY <1>1, <1>2, <1>3, <1>4, <1>5, <1>6, <1>7 DEF Inserted

\* Whatever happens, a row stays, is inserted or goes forward.
LEMMA RowsMove ==
    ASSUME RInv, [Next]_vars, NEW r \in Ids
    PROVE  rows'[r] = rows[r] \/ GoesForward(r) \/ Inserted(r)
<1>1. CASE rows' = rows
  BY <1>1
<1>2. CASE SchedulerStep
  BY <1>2, ClaimRows, DeliveryRows DEF SchedulerStep, NoInsertion
<1>3. CASE \E s \in Ids, at \in Times : CreatePlain(s, at)
  <2>1. PICK s \in Ids, at \in Times : CreatePlain(s, at)
    BY <1>3
  <2>2. at \in Nat /\ rows \in [Ids -> Reminder]
    BY ReminderAssumption DEF RInv, TypeOK
  <2> QED BY <2>1, <2>2 DEF CreatePlain, Unused, Inserted
<1>4. CASE \E u \in Creators : Replace(u)
  BY <1>4, ReplaceRows
<1>5. CASE \/ \E s \in Ids : Complete(s) \/ \E at \in Times : UpdatePending(s, at)
           \/ \E u \in Deleters : SoftDelete(u)
  BY <1>5, ChangeRows DEF NoInsertion
<1> QED BY <1>1, <1>2, <1>3, <1>4, <1>5
    DEF Next, Tick, RequestStep, CreationEnds, KeepExisting, ReplaceConflicts, CreationFails,
        BeginReplacing, ReadMatching, ReadForDeletion, vars

-----------------------------------------------------------------------------
(* The invariant, part by part *)

\* Steps by what they do to the tables and to the creations
LEMMA StepKinds ==
    ASSUME RInv, [Next]_vars
    PROVE  \/ NoInsertion /\ UNCHANGED creating
           \/ \E r \in Ids, at \in Times : CreatePlain(r, at)
           \/ \E u \in Creators, r \in Ids, at \in Times : BeginReplacing(u, r, at)
           \/ \E u \in Creators : ReadMatching(u)
           \/ \E u \in Creators : Replace(u)
           \/ \E u \in Creators : KeepExisting(u) \/ ReplaceConflicts(u) \/ CreationFails(u)
<1>1. CASE SchedulerStep
  <2>1. NoInsertion
    BY <1>1, ClaimRows, DeliveryRows DEF SchedulerStep
  <2> QED BY <1>1, <2>1
      DEF SchedulerStep, ClaimDueForNotification, Claim, Deliver, TargetFails, BridgeAccepts,
          MarkNotificationSent, ReleaseNotificationClaim, SendFails, MarkFails, ReleaseFails, Crash
<1>2. CASE \/ \E r \in Ids : Complete(r) \/ \E at \in Times : UpdatePending(r, at)
           \/ \E u \in Deleters : SoftDelete(u)
  <2>1. NoInsertion
    BY <1>2, ChangeRows
  <2> QED BY <1>2, <2>1 DEF Complete, UpdatePending, SoftDelete
<1>3. CASE UNCHANGED <<rows, creating>>
  BY <1>3 DEF NoInsertion
<1> QED BY <1>1, <1>2, <1>3 DEF Next, Tick, RequestStep, CreationEnds, ReadForDeletion, vars

\* A creation keeps its id until it ends.
LEMMA FreshStep ==
    ASSUME RInv, [Next]_vars
    PROVE  CreationsAreFresh'
<1>1. /\ rows \in [Ids -> Reminder] /\ Keyed \subseteq Ids /\ creating \in [Creators -> Creation]
      /\ Nil \notin Ids /\ TypeOK /\ CreationsAreFresh
      /\ \A u \in Creators : creating[u].phase # "none" => creating[u].id \in Keyed
  BY ReminderAssumption DEF RInv, TypeOK
<1>2. \A u \in Creators : creating[u].seen \subseteq Keyed
  BY <1>1 DEF CreationsAreFresh
<1>3. ASSUME NEW r \in Ids, rows[r].status # "ABSENT" PROVE rows'[r].status # "ABSENT"
  BY <1>3, RowsMove DEF GoesForward, Inserted
<1>4. CASE NoInsertion /\ UNCHANGED creating
  <2>1. ASSUME NEW r \in Ids, rows[r].status = "ABSENT" PROVE rows'[r].status = "ABSENT"
    BY <1>4, <2>1 DEF NoInsertion, GoesForward
  <2> QED BY <1>1, <1>2, <1>3, <1>4, <2>1 DEF CreationsAreFresh
<1>5. CASE \E r \in Ids, at \in Times : CreatePlain(r, at)
  <2>1. PICK r \in Ids, at \in Times : CreatePlain(r, at)
    BY <1>5
  <2>2. \A s \in Ids \ {r} : rows'[s] = rows[s]
    BY <1>1, <2>1 DEF CreatePlain
  <2>3. \A u \in Creators : creating[u].id # r
    BY <2>1 DEF CreatePlain, Unused
  <2> QED BY <1>1, <1>2, <1>3, <2>1, <2>2, <2>3 DEF CreationsAreFresh, CreatePlain
<1>6. CASE \E u \in Creators, r \in Ids, at \in Times : BeginReplacing(u, r, at)
  <2>1. PICK u \in Creators, r \in Ids, at \in Times : BeginReplacing(u, r, at)
    BY <1>6
  <2>2. /\ creating'[u].id = r /\ creating'[u].seen = {} /\ rows' = rows
        /\ \A v \in Creators \ {u} : creating'[v] = creating[v]
    BY <1>1, <2>1 DEF BeginReplacing, NoCreation
  <2>3. rows[r].status = "ABSENT" /\ \A v \in Creators : creating[v].id # r
    BY <2>1 DEF BeginReplacing, Unused
  <2> QED BY <1>1, <2>2, <2>3 DEF CreationsAreFresh
<1>7. CASE \E u \in Creators : ReadMatching(u)
  <2>1. PICK u \in Creators : ReadMatching(u)
    BY <1>7
  <2>2. /\ creating'[u].id = creating[u].id /\ creating'[u].seen = {r \in Keyed : Unfinished(r)}
        /\ creating[u].phase # "none" /\ rows' = rows
        /\ \A v \in Creators \ {u} : creating'[v] = creating[v]
    BY <1>1, <2>1 DEF ReadMatching, Creation
  <2>3. \A r \in Keyed : Unfinished(r) => rows[r].status # "ABSENT"
    BY DEF Unfinished
  <2> QED BY <1>1, <2>2, <2>3 DEF CreationsAreFresh
<1>8. CASE \E u \in Creators : Replace(u)
  <2>1. PICK u \in Creators : Replace(u)
    BY <1>8
  <2>2. /\ creating'[u].phase = "none" /\ creating'[u].seen = {} /\ creating'[u].id = Nil
        /\ creating[u].phase # "none"
        /\ \A v \in Creators \ {u} : creating'[v] = creating[v]
    BY <1>1, <2>1 DEF Replace, EndCreation, NoCreation
  <2>3. ASSUME NEW v \in Creators \ {u}, creating[v].phase # "none"
        PROVE  rows'[creating[v].id].status = "ABSENT"
    <3>1. creating[v].id \in Ids /\ creating[v].id # creating[u].id /\ rows[creating[v].id].status = "ABSENT"
      BY <1>1, <2>2, <2>3 DEF CreationsAreFresh
    <3> QED BY <2>1, <3>1, ReplaceRows DEF GoesForward
  <2> QED BY <1>1, <1>2, <1>3, <2>2, <2>3 DEF CreationsAreFresh
<1>9. CASE \E u \in Creators : KeepExisting(u) \/ ReplaceConflicts(u) \/ CreationFails(u)
  <2>1. PICK u \in Creators : KeepExisting(u) \/ ReplaceConflicts(u) \/ CreationFails(u)
    BY <1>9
  <2>2. /\ creating[u].phase # "none" /\ rows' = rows
        /\ \A v \in Creators \ {u} : creating'[v] = creating[v]
        /\ creating'[u].seen = {}
        /\ \/ creating'[u].id = Nil /\ creating'[u].phase = "none"
           \/ creating'[u].id = creating[u].id
    BY <1>1, <2>1 DEF KeepExisting, ReplaceConflicts, CreationFails, EndCreation, NoCreation, Creation
  <2> QED BY <1>1, <2>2 DEF CreationsAreFresh
<1> QED BY <1>4, <1>5, <1>6, <1>7, <1>8, <1>9, StepKinds

\* A row a deletion has read stays inserted.
LEMMA DecidedStep ==
    ASSUME RInv, [Next]_vars
    PROVE  DeletionsAreDecided'
<1>1. rows \in [Ids -> Reminder] /\ TypeOK /\ Nil \notin Ids
  BY ReminderAssumption DEF RInv, TypeOK
<1>2. ASSUME NEW r \in Ids, rows[r].status # "ABSENT" PROVE rows'[r].status # "ABSENT"
  BY <1>2, RowsMove DEF GoesForward, Inserted
<1>3. CASE UNCHANGED deleting
  <2> SUFFICES ASSUME NEW u \in Deleters, deleting[u].id # Nil
               PROVE  /\ rows'[deleting[u].id].status # "ABSENT"
                      /\ deleting[u].status \in {"SENT", "COMPLETED", "CANCELLED"}
    BY <1>3 DEF DeletionsAreDecided
  <2>1. deleting[u].id \in Ids
    BY <1>1 DEF TypeOK
  <2> QED BY <1>2, <2>1 DEF RInv, DeletionsAreDecided
<1>4. CASE \E u \in Deleters, r \in Ids : ReadForDeletion(u, r)
  <2>1. PICK u \in Deleters, r \in Ids : ReadForDeletion(u, r)
    BY <1>4
  <2>2. /\ deleting'[u].id = r /\ rows' = rows
        /\ deleting'[u].status = IF Pending(r) THEN "CANCELLED" ELSE rows[r].status
        /\ \A v \in Deleters \ {u} : deleting'[v] = deleting[v]
    BY <1>1, <2>1 DEF ReadForDeletion, TypeOK
  <2>3. rows[r].status # "ABSENT" /\ Live(r) /\ rows[r].status \in Statuses \union {"ABSENT"}
    BY <1>1, <2>1 DEF ReadForDeletion, Reminder
  <2>4. deleting'[u].status \in {"SENT", "COMPLETED", "CANCELLED"}
    BY <2>2, <2>3 DEF Pending, Statuses
  <2> QED BY <2>2, <2>3, <2>4 DEF DeletionsAreDecided, RInv
<1>5. CASE \E u \in Deleters : SoftDelete(u)
  <2>1. PICK u \in Deleters : SoftDelete(u)
    BY <1>5
  <2>2. deleting'[u].id = Nil /\ \A v \in Deleters \ {u} : deleting'[v] = deleting[v]
    BY <1>1, <2>1 DEF SoftDelete, NoDeletion, TypeOK
  <2> SUFFICES ASSUME NEW v \in Deleters \ {u}, deleting[v].id # Nil
               PROVE  /\ rows'[deleting[v].id].status # "ABSENT"
                      /\ deleting[v].status \in {"SENT", "COMPLETED", "CANCELLED"}
    BY <2>2 DEF DeletionsAreDecided
  <2>3. deleting[v].id \in Ids
    BY <1>1 DEF TypeOK
  <2> QED BY <1>2, <2>3 DEF RInv, DeletionsAreDecided
<1> QED BY <1>3, <1>4, <1>5
    DEF Next, Tick, SchedulerStep, RequestStep, ClaimDueForNotification, Claim, Deliver, TargetFails,
        BridgeAccepts, MarkNotificationSent, ReleaseNotificationClaim, SendFails, MarkFails,
        ReleaseFails, Crash, CreatePlain, UpdatePending, Complete, BeginReplacing, ReadMatching,
        CreationEnds, KeepExisting, Replace, ReplaceConflicts, CreationFails, vars

\* After a replacement its reminder is the only pending one of the key.
LEMMA ReplacementIsAlone ==
    ASSUME RInv, NEW u \in Creators, Replace(u)
    PROVE  LivePending' = {creating[u].id}
<1>1. PICK new \in Keyed : new = creating[u].id
  BY ReplaceRows
<1>2. Keyed \subseteq Ids /\ creating[u].at \in Nat /\ rows'[new] = NewReminder(creating[u].at)
  BY <1>1, ReplaceRows, ReminderAssumption
<1>3. Pending(new)'
  <2>1. rows'[new].status = "PENDING" /\ ~rows'[new].deleted
    BY <1>2, NewReminderType
  <2> QED BY <2>1 DEF Pending, Live
<1>4. ASSUME NEW r \in Keyed, r # new, Pending(r)' PROVE FALSE
  <2>1. Pending(r)
    BY <1>1, <1>2, <1>4, ReplaceRows DEF GoesForward, Pending, Live
  <2>2. r \in PendingSeen(u)
    BY <2>1 DEF Replace, ViolatesIndex
  <2> QED BY <1>4, <2>2, ReplaceRows DEF Pending, Live
<1>5. LivePending' = {new}
  BY <1>3, <1>4 DEF LivePending, Pending, Live
<1> QED BY <1>1, <1>5

\* The unique index holds.
LEMMA OnePendingStep ==
    ASSUME RInv, [Next]_vars
    PROVE  OnePendingPerKey'
<1>1. Keyed \subseteq Ids /\ OnePendingPerKey /\ rows \in [Ids -> Reminder]
  BY ReminderAssumption DEF RInv, TypeOK
<1>2. CASE NoInsertion
  <2>1. \A r \in Ids : Pending(r)' => Pending(r)
    BY <1>2 DEF NoInsertion, GoesForward, Pending, Live
  <2> QED BY <1>1, <2>1 DEF OnePendingPerKey, LivePending
<1>3. CASE \E r \in Ids, at \in Times : CreatePlain(r, at)
  <2>1. \A s \in Keyed : rows'[s] = rows[s]
    BY <1>1, <1>3 DEF CreatePlain
  <2> QED BY <1>1, <2>1 DEF OnePendingPerKey, LivePending, Pending, Live
<1>4. CASE \E u \in Creators : Replace(u)
  BY <1>4, ReplacementIsAlone DEF OnePendingPerKey
<1>5. CASE rows' = rows
  BY <1>1, <1>5 DEF OnePendingPerKey, LivePending, Pending, Live
<1> QED BY <1>2, <1>3, <1>4, <1>5, StepKinds
    DEF BeginReplacing, ReadMatching, KeepExisting, ReplaceConflicts, CreationFails

\* The invariant is inductive.
LEMMA RInvStep == RInv /\ [Next]_vars => RInv'
<1> SUFFICES ASSUME RInv, [Next]_vars PROVE RInv'
  OBVIOUS
<1>1. TypeOK'
  BY TypeStep DEF RInv
<1>2. AbsentIsEmpty'
  <2> SUFFICES ASSUME NEW r \in Ids, rows'[r].status = "ABSENT" PROVE rows'[r] = NoReminder
    BY DEF AbsentIsEmpty
  <2>1. rows'[r] = rows[r]
    BY RowsMove, NewReminderType DEF GoesForward, Inserted
  <2> QED BY <2>1 DEF RInv, AbsentIsEmpty
<1> QED BY <1>1, <1>2, FreshStep, DecidedStep, OnePendingStep DEF RInv

-----------------------------------------------------------------------------

\* No step takes a reminder back: what users see of it only goes forward.
LEMMA ForwardStep == RInv /\ [Next]_vars => [\A r \in Ids :
          LET old == rows[r]  new == rows'[r]
          IN  /\ old.deleted => new = old
              /\ ~new.deleted => Rank[old.status] <= Rank[new.status]
              /\ old.status \in {"SENT", "COMPLETED", "CANCELLED"} => new.at = old.at ]_rows
<1> SUFFICES ASSUME RInv, [Next]_vars, NEW r \in Ids
             PROVE  /\ rows[r].deleted => rows'[r] = rows[r]
                    /\ ~rows'[r].deleted => Rank[rows[r].status] <= Rank[rows'[r].status]
                    /\ rows[r].status \in {"SENT", "COMPLETED", "CANCELLED"} => rows'[r].at = rows[r].at
  OBVIOUS
<1>1. rows[r] \in Reminder
  BY DEF RInv, TypeOK
<1>2. CASE rows'[r] = rows[r]
  <2>1. Rank[rows[r].status] <= Rank[rows[r].status]
    BY <1>1, RankValues DEF Reminder, Statuses
  <2> QED BY <1>2, <2>1
<1>3. CASE GoesForward(r)
  BY <1>3 DEF GoesForward, Live
<1>4. CASE Inserted(r)
  BY <1>4, NewReminderType, RankValues DEF Inserted, RInv, AbsentIsEmpty
<1> QED BY <1>2, <1>3, <1>4, RowsMove

\* The latest of the keyed reminders wins: step lemma.
LEMMA LatestStep ==
    ASSUME RInv, [Next]_vars, NEW u \in Creators, Succeeds(u)
    PROVE  \E winner \in Keyed :
              /\ LivePending' = {winner}
              /\ rows'[winner].at >= creating[u].at
              /\ rows'[winner].at > creating[u].at => rows' = rows
              /\ \A r \in LivePending : rows'[winner].at >= rows[r].at
              /\ winner = creating[u].id =>
                    \A r \in creating[u].seen \ {winner} :
                        Unfinished(r)' => rows'[r].at > rows'[winner].at
<1>1. /\ rows \in [Ids -> Reminder] /\ Keyed \subseteq Ids /\ creating[u] \in Creation
      /\ creating[u].seen \subseteq Keyed /\ creating[u].at \in Nat
  BY ReminderAssumption DEF RInv, TypeOK, CreationsAreFresh, Creation
<1>2. CASE KeepExisting(u)
  <2>1. PICK later \in PendingSeen(u) : rows[later].at > creating[u].at
    BY <1>2 DEF KeepExisting, LaterPending
  <2>2. later \in LivePending /\ LivePending = {later}
    BY <1>1, <2>1 DEF PendingSeen, LivePending, RInv, OnePendingPerKey
  <2>3. rows' = rows /\ LivePending' = LivePending
    BY <1>2 DEF KeepExisting, LivePending, Pending, Live
  <2>4. rows[creating[u].id].status = "ABSENT" /\ rows[later].status = "PENDING"
    BY <1>2, <2>2 DEF KeepExisting, RInv, CreationsAreFresh, LivePending, Pending
  <2>5. rows[later].at \in Nat
    BY <1>1, <2>2 DEF LivePending, Reminder
  <2>6. later \in Keyed /\ later # creating[u].id
    BY <2>2, <2>4 DEF LivePending
  <2> QED BY <1>1, <2>1, <2>2, <2>3, <2>5, <2>6
<1>3. CASE Replace(u)
  <2> DEFINE new == creating[u].id
  <2>1. new \in Keyed /\ LivePending' = {new} /\ rows'[new].at = creating[u].at
    BY <1>3, ReplaceRows, ReplacementIsAlone, NewReminderType
  <2>2. ASSUME NEW r \in LivePending PROVE creating[u].at >= rows[r].at
    <3>1. r \in PendingSeen(u) /\ rows[r].at \in Nat
      BY <1>1, <1>3, <2>2 DEF LivePending, Replace, ViolatesIndex, Reminder
    <3> QED BY <1>1, <1>3, <3>1 DEF Replace, LaterPending
  <2>3. ASSUME NEW r \in creating[u].seen \ {new}, Unfinished(r)'
        PROVE  rows'[r].at > creating[u].at
    <3>1. r \in Ids /\ r \in Keyed /\ ~Pending(r)' /\ rows[r].status # "ABSENT"
      BY <1>1, <2>1, <2>3 DEF LivePending, RInv, CreationsAreFresh
    <3>2. r \notin PendingSeen(u) /\ r \notin SentSeen(u)
      BY <1>3, <2>3, ReplaceRows DEF Unfinished, Live
    <3>3. rows'[r] = rows[r]
      BY <1>3, <2>3, <3>1, <3>2 DEF Replace, Replaced
    <3>4. Unfinished(r) /\ rows[r].status = "SENT" /\ rows[r].at \in Nat
      BY <1>1, <2>3, <3>1, <3>3 DEF Unfinished, Pending, Live, Reminder
    <3>5. ~(rows[r].at <= creating[u].at)
      BY <2>3, <3>2, <3>4 DEF SentSeen
    <3> QED BY <1>1, <3>3, <3>4, <3>5
  <2> HIDE DEF new
  <2>4. creating[u].at >= creating[u].at /\ ~(creating[u].at > creating[u].at)
    BY <1>1
  <2> QED BY <2>1, <2>2, <2>3, <2>4
<1> QED BY <1>2, <1>3 DEF Succeeds

\* The types hold in every reachable state.
THEOREM TypeCorrect == Spec => []TypeOK
<1>1. RInv => TypeOK
  BY DEF RInv
<1> QED BY <1>1, InitRInv, RInvStep, PTL DEF Spec

\* The property HistoryMovesForward: no mark, release, replacement, update or
\* deletion, however late, takes back what was decided about a reminder.
THEOREM MovesForward == Spec => HistoryMovesForward
<1>1. RInv /\ [Next]_vars => [\A r \in Ids :
          LET old == rows[r]  new == rows'[r]
          IN  /\ old.deleted => new = old
              /\ ~new.deleted => Rank[old.status] <= Rank[new.status]
              /\ old.status \in {"SENT", "COMPLETED", "CANCELLED"} => new.at = old.at ]_rows
  BY ForwardStep
<1> QED BY <1>1, InitRInv, RInvStep, PTL DEF Spec, HistoryMovesForward

\* The property LatestWins: whatever two creations of one key have read, the
\* one that succeeds leaves one pending reminder, the latest.
THEOREM LatestReminderWins == Spec => LatestWins
<1>1. RInv /\ [Next]_vars => [\A u \in Creators : Succeeds(u) =>
          \E winner \in Keyed :
              /\ LivePending' = {winner}
              /\ rows'[winner].at >= creating[u].at
              /\ rows'[winner].at > creating[u].at => rows' = rows
              /\ \A r \in LivePending : rows'[winner].at >= rows[r].at
              /\ winner = creating[u].id =>
                    \A r \in creating[u].seen \ {winner} :
                        Unfinished(r)' => rows'[r].at > rows'[winner].at ]_vars
  BY LatestStep
<1> QED BY <1>1, InitRInv, RInvStep, PTL DEF Spec, LatestWins

-----------------------------------------------------------------------------
(* Who holds a reminder: while processes finish their batches before the claims go
   stale, no reminder is in the hands of two of them. *)

\* What is left of the batch of a process
Hand(p) == {batch[p].todo[i] : i \in 1..Len(batch[p].todo)}

Marking(r) == \E p \in Processes : pc[p] = "marking" /\ Current(p) = r

InSomeHand(r) == \E p \in Processes : r \in Hand(p)

\* A reminder is in one batch at most, and there once.
HandsDisjoint ==
    /\ \A p \in Processes : pc[p] = "idle" => batch[p] = NoBatch
    /\ \A p \in Processes : \A i, j \in 1..Len(batch[p].todo) :
          i # j => batch[p].todo[i] # batch[p].todo[j]
    /\ \A p, q \in Processes : p # q => Hand(p) \cap Hand(q) = {}

\* As long as it is pending it carries the stamp of the batch, which is not stale.
HandsStamped ==
    /\ \A p \in Processes : \A r \in Hand(p) :
          rows[r].status # "ABSENT" /\ (Pending(r) => rows[r].claim = batch[p].tick)
    /\ \A p \in Processes : pc[p] # "idle" => ~Stale(p, now)

\* What may still be sent has been sent once per failure at most; only the one
\* that waits for its mark is a notification ahead.
Budget ==
    /\ \A r \in Ids : rows[r].status = "ABSENT" => accepted[r] = 0
    /\ \A r \in Ids : accepted[r] <= 1 + faults
    /\ \A r \in Ids : (Pending(r) \/ InSomeHand(r)) /\ ~Marking(r) => accepted[r] <= faults

HInv == RInv /\ HandsDisjoint /\ HandsStamped /\ Budget

-----------------------------------------------------------------------------
(* What steps do to the hands *)

\* What statements leave of a claim: a row that is pending afterwards was pending
\* with the same claim, or is new.
ClaimKept(r) ==
    Pending(r)' => \/ Pending(r) /\ rows'[r].claim = rows[r].claim
                   \/ rows[r].status = "ABSENT"

\* The current reminder is in hand.
LEMMA CurrentInHand ==
    ASSUME TypeOK, NEW p \in Processes, pc[p] # "idle"
    PROVE  Current(p) \in Hand(p) /\ Current(p) \in Ids /\ Current(p) = batch[p].todo[1]
           /\ 1 \in 1..Len(batch[p].todo)
<1>1. batch[p].todo \in Seq(Ids) /\ batch[p].todo # << >>
  BY DEF TypeOK
<1>2. Len(batch[p].todo) \in Nat /\ Len(batch[p].todo) # 0
  BY <1>1, EmptySeq, LenProperties
<1>3. Current(p) = batch[p].todo[1] /\ Current(p) \in Ids
  BY <1>1, HeadTailProperties DEF Current
<1> QED BY <1>2, <1>3 DEF Hand

\* Reminders in hand are reminders.
LEMMA HandType ==
    ASSUME TypeOK, NEW p \in Processes
    PROVE  Hand(p) \subseteq Ids
<1>1. batch[p].todo \in Seq(Ids)
  BY DEF TypeOK
<1> QED BY <1>1, ElementOfSeq DEF Hand

\* Going on to the next reminder drops the current one, for good.
LEMMA HandShrinks ==
    ASSUME TypeOK, HandsDisjoint, NEW p \in Processes, pc[p] # "idle", NextReminder(p)
    PROVE  /\ HandsDisjoint'
           /\ \A q \in Processes : Hand(q)' \subseteq Hand(q)
           /\ \A q \in Processes : Current(p) \notin Hand(q)'
           /\ \A q \in Processes : pc'[q] # "idle" => pc[q] # "idle" /\ batch'[q].tick = batch[q].tick
           /\ \A q \in Processes : pc'[q] = "marking" => pc[q] = "marking" /\ Current(q)' = Current(q) /\ q # p
           /\ \A q \in Processes \ {p} : pc'[q] = pc[q] /\ batch'[q] = batch[q]
<1> DEFINE old == batch[p].todo
<1>1. /\ \A q \in Processes \ {p} : pc'[q] = pc[q] /\ batch'[q] = batch[q]
      /\ \/ pc'[p] = "idle" /\ batch'[p] = NoBatch
         \/ /\ pc'[p] = "delivering" /\ batch'[p].tick = batch[p].tick
            /\ batch'[p].todo = Tail(old) /\ batch'[p].todo # << >>
  BY NextReminderMoves
<1>2. old \in Seq(Ids) /\ old # << >> /\ Current(p) = old[1]
  BY CurrentInHand DEF TypeOK
<1>3. /\ Len(old) \in Nat \ {0} /\ Len(Tail(old)) = Len(old) - 1
      /\ \A i \in 1..Len(Tail(old)) : Tail(old)[i] = old[i + 1]
  BY <1>2, HeadTailProperties, EmptySeq, LenProperties
<1>4. \A i, j \in 1..Len(old) : i # j => old[i] # old[j]
  BY DEF HandsDisjoint
<1> DEFINE new == batch'[p].todo
<1>5. /\ \A i \in 1..Len(new) : i + 1 \in 1..Len(old) /\ i + 1 # 1 /\ new[i] = old[i + 1]
      /\ Len(new) \in Nat
  <2>1. CASE batch'[p] = NoBatch
    <3>1. Len(new) = 0 /\ 1..0 = {}
      BY <2>1 DEF NoBatch
    <3> QED BY <3>1
  <2>2. CASE new = Tail(old)
    BY <1>3, <2>2
  <2> QED BY <1>1, <2>1, <2>2
<1>6. \A i, j \in 1..Len(new) : i # j => new[i] # new[j]
  BY <1>4, <1>5
<1>7. Hand(p)' \subseteq Hand(p)
  BY <1>5 DEF Hand
<1>8. Current(p) \notin Hand(p)'
  <2>1. 1 \in 1..Len(old)
    BY <1>3
  <2> QED BY <1>2, <1>4, <1>5, <2>1 DEF Hand
<1>9. \A q \in Processes \ {p} : Hand(q)' = Hand(q) /\ Current(q)' = Current(q)
  BY <1>1 DEF Hand, Current
<1>10. \A q \in Processes \ {p} : Current(p) \notin Hand(q)'
  BY <1>9, CurrentInHand DEF HandsDisjoint
<1>11. \A q \in Processes : Hand(q)' \subseteq Hand(q)
  BY <1>7, <1>9
<1>12. HandsDisjoint'
  <2>1. \A q, s \in Processes : q # s => Hand(q)' \cap Hand(s)' = {}
    BY <1>11 DEF HandsDisjoint
  <2>2. \A q \in Processes : pc'[q] = "idle" => batch'[q] = NoBatch
    BY <1>1 DEF HandsDisjoint
  <2>3. \A q \in Processes : \A i, j \in 1..Len(batch'[q].todo) :
           i # j => batch'[q].todo[i] # batch'[q].todo[j]
    BY <1>1, <1>6 DEF HandsDisjoint
  <2> QED BY <2>1, <2>2, <2>3 DEF HandsDisjoint
<1> HIDE DEF new, old
<1> QED BY <1>1, <1>8, <1>9, <1>10, <1>11, <1>12

\* Rows once inserted stay inserted, and only new ones become pending.
LEMMA StaysInserted ==
    ASSUME HInv, [Next]_vars, NEW r \in Ids
    PROVE  /\ rows[r].status # "ABSENT" => rows'[r].status # "ABSENT"
           /\ Pending(r)' => Pending(r) \/ rows[r].status = "ABSENT"
<1>1. CASE rows'[r] = rows[r]
  BY <1>1 DEF Pending, Live
<1>2. CASE GoesForward(r) \/ Inserted(r)
  BY <1>2, NewReminderType DEF GoesForward, Inserted
<1> QED BY <1>1, <1>2, RowsMove DEF HInv

\* Steps that keep the invariant because hands at most shrink: what is needed of
\* a row, its counter and its mark
LEMMA HandsKept ==
    ASSUME HInv, [Next]_vars, HandsDisjoint',
           \A p \in Processes : Hand(p)' \subseteq Hand(p),
           \A p \in Processes : pc'[p] # "idle" =>
              pc[p] # "idle" /\ batch'[p].tick = batch[p].tick,
           now' = now,
           \A r \in Ids : InSomeHand(r)' => ClaimKept(r)
    PROVE  HandsStamped'
<1>1. ASSUME NEW p \in Processes, NEW r \in Hand(p)'
      PROVE  rows'[r].status # "ABSENT" /\ (Pending(r)' => rows'[r].claim = batch'[p].tick)
  <2>1. r \in Hand(p) /\ r \in Ids
    BY <1>1, HandType DEF HInv, RInv
  <2>2. pc'[p] # "idle"
    <3> SUFFICES ASSUME pc'[p] = "idle" PROVE FALSE
      OBVIOUS
    <3>1. batch'[p] = NoBatch
      BY DEF HandsDisjoint
    <3> QED BY <1>1, <3>1 DEF Hand, NoBatch
  <2>3. rows[r].status # "ABSENT" /\ (Pending(r) => rows[r].claim = batch[p].tick)
    BY <2>1 DEF HInv, HandsStamped
  <2>4. ClaimKept(r) /\ rows'[r].status # "ABSENT"
    BY <1>1, <2>1, <2>3, StaysInserted DEF InSomeHand
  <2> QED BY <2>2, <2>3, <2>4 DEF ClaimKept
<1>2. ASSUME NEW p \in Processes, pc'[p] # "idle" PROVE ~Stale(p, now)'
  BY <1>2 DEF HInv, HandsStamped, Stale
<1> QED BY <1>1, <1>2 DEF HandsStamped

\* ... and of the counters
LEMMA BudgetKept ==
    ASSUME HInv, [Next]_vars,
           \A p \in Processes : Hand(p)' \subseteq Hand(p),
           faults <= faults', accepted' = accepted,
           \A r \in Ids : Marking(r) =>
              Marking(r)' \/ faults' = faults + 1 \/ (~Pending(r)' /\ ~InSomeHand(r)')
    PROVE  Budget'
<1>1. /\ faults \in Nat /\ faults' \in Nat /\ accepted \in [Ids -> Nat]
  BY RInvStep, ReminderAssumption DEF HInv, RInv, TypeOK
<1>2. \A r \in Ids : /\ rows[r].status = "ABSENT" => accepted[r] = 0
                     /\ accepted[r] <= 1 + faults
                     /\ (Pending(r) \/ InSomeHand(r)) /\ ~Marking(r) => accepted[r] <= faults
  BY DEF HInv, Budget
<1>3. ASSUME NEW r \in Ids, rows'[r].status = "ABSENT" PROVE accepted'[r] = 0
  BY <1>2, <1>3, StaysInserted
<1>4. ASSUME NEW r \in Ids PROVE accepted'[r] <= 1 + faults'
  BY <1>1, <1>2
<1>5. ASSUME NEW r \in Ids, Pending(r)' \/ InSomeHand(r)', ~Marking(r)'
      PROVE  accepted'[r] <= faults'
  <2>1. Pending(r) \/ InSomeHand(r) \/ rows[r].status = "ABSENT"
    BY <1>5, StaysInserted DEF InSomeHand
  <2>2. ~Marking(r) \/ faults' = faults + 1
    BY <1>5
  <2>3. accepted[r] \in Nat
    BY <1>1
  <2> QED BY <1>1, <1>2, <2>1, <2>2, <2>3
<1> QED BY <1>3, <1>4, <1>5 DEF Budget

\* A request leaves the claims of the rows that stay pending alone.
LEMMA RequestClaims ==
    ASSUME HInv, RequestStep, NEW r \in Ids
    PROVE  ClaimKept(r)
<1>1. rows \in [Ids -> Reminder] /\ TypeOK
  BY DEF HInv, RInv, TypeOK
<1>2. CASE UNCHANGED rows
  BY <1>2 DEF ClaimKept, Pending, Live
<1>3. CASE \E s \in Ids, at \in Times : CreatePlain(s, at)
  BY <1>1, <1>3 DEF CreatePlain, Unused, ClaimKept, Pending, Live
<1>4. CASE \E s \in Ids, at \in Times : UpdatePending(s, at)
  <2>1. PICK s \in Ids, at \in Times : UpdatePending(s, at)
    BY <1>4
  <2>2. /\ rows'[s].status = rows[s].status /\ rows'[s].deleted = rows[s].deleted
        /\ rows'[s].claim = rows[s].claim
        /\ \A q \in Ids \ {s} : rows'[q] = rows[q]
    BY <1>1, <2>1 DEF UpdatePending, Reminder
  <2> QED BY <2>2 DEF ClaimKept, Pending, Live
<1>5. CASE \E s \in Ids : Complete(s)
  <2>1. PICK s \in Ids : Complete(s)
    BY <1>5
  <2>2. rows'[s].status = "COMPLETED" /\ \A q \in Ids \ {s} : rows'[q] = rows[q]
    BY <1>1, <2>1 DEF Complete, Reminder
  <2> QED BY <2>2 DEF ClaimKept, Pending, Live
<1>6. CASE \E u \in Deleters : SoftDelete(u)
  <2>1. PICK u \in Deleters : SoftDelete(u)
    BY <1>6
  <2>2. CASE rows' = rows
    BY <2>2 DEF ClaimKept, Pending, Live
  <2>3. CASE rows' # rows
    <3>1. PICK s \in Ids : s = deleting[u].id
      BY <1>1, <2>1 DEF SoftDelete, TypeOK
    <3>2. rows'[s].deleted /\ \A q \in Ids \ {s} : rows'[q] = rows[q]
      BY <1>1, <2>1, <2>3, <3>1 DEF SoftDelete, Reminder
    <3> QED BY <3>2 DEF ClaimKept, Pending, Live
  <2> QED BY <2>2, <2>3
<1>7. CASE \E u \in Creators : Replace(u)
  <2>1. PICK u \in Creators : Replace(u)
    BY <1>7
  <2>4. CASE r = creating[u].id
    <3>1. Inserted(creating[u].id)
      BY <2>1, ReplaceRows DEF HInv
    <3> QED BY <2>4, <3>1 DEF ClaimKept, Inserted
  <2>5. CASE r # creating[u].id /\ r \in PendingSeen(u)
    <3>1. rows'[r].deleted
      BY <2>1, <2>5, ReplaceRows DEF HInv
    <3> QED BY <3>1 DEF ClaimKept, Pending, Live
  <2>6. CASE r # creating[u].id /\ r \notin PendingSeen(u) /\ r \in SentSeen(u)
    <3>1. ~Unfinished(r)'
      BY <2>1, <2>6, ReplaceRows DEF HInv
    <3> QED BY <3>1 DEF ClaimKept, Pending, Unfinished, Live
  <2>7. CASE r # creating[u].id /\ r \notin PendingSeen(u) /\ r \notin SentSeen(u)
    <3>1. rows'[r] = rows[r]
      BY <2>1, <2>7 DEF Replace, Replaced
    <3> QED BY <3>1 DEF ClaimKept, Pending, Live
  <2> QED BY <2>4, <2>5, <2>6, <2>7
<1> QED BY <1>2, <1>3, <1>4, <1>5, <1>6, <1>7
    DEF RequestStep, CreationEnds, KeepExisting, ReplaceConflicts, CreationFails,
        BeginReplacing, ReadMatching, ReadForDeletion

\* A request
LEMMA RequestHands ==
    ASSUME HInv, RequestStep
    PROVE  HInv'
<1>1. RInv' /\ [Next]_vars
  BY RInvStep DEF HInv, Next
<1>2. UNCHANGED <<now, accepted, pc, batch>> /\ (faults' = faults \/ faults' = faults + 1)
  BY DEF RequestStep, CreatePlain, UpdatePending, Complete, BeginReplacing, ReadMatching,
         CreationEnds, KeepExisting, Replace, ReplaceConflicts, CreationFails, Fault,
         ReadForDeletion, SoftDelete
<1>3. \A r \in Ids : ClaimKept(r)
  BY RequestClaims
<1>4. \A p \in Processes : Hand(p)' = Hand(p)
  BY <1>2 DEF Hand
<1>5. HandsDisjoint'
  BY <1>2, <1>4 DEF HInv, HandsDisjoint
<1>6. HandsStamped'
  BY <1>1, <1>2, <1>3, <1>4, <1>5, HandsKept
<1>7. \A r \in Ids : Marking(r)' <=> Marking(r)
  BY <1>2 DEF Marking, Current
<1>8. faults <= faults'
  BY <1>2, ReminderAssumption DEF HInv, RInv, TypeOK
<1>9. Budget'
  BY <1>1, <1>2, <1>4, <1>7, <1>8, BudgetKept
<1> QED BY <1>1, <1>5, <1>6, <1>9 DEF HInv

\* Going on after a mark or a release: the row the process leaves behind is not
\* pending any more if it waited for its mark, or else this is a failure.
LEMMA LeavingHands ==
    ASSUME HInv, [Next]_vars, NEW p \in Processes, pc[p] # "idle", NextReminder(p),
           UNCHANGED <<now, accepted>>, faults' = faults \/ faults' = faults + 1,
           \A r \in Ids \ {Current(p)} : ClaimKept(r),
           pc[p] = "marking" => (\A r \in Ids : r = Current(p) => ~Pending(r)') \/ faults' = faults + 1
    PROVE  HInv'
<1>1. RInv' /\ TypeOK /\ HandsDisjoint
  BY RInvStep DEF HInv, RInv
<1>2. /\ HandsDisjoint'
      /\ \A q \in Processes : Hand(q)' \subseteq Hand(q)
      /\ \A q \in Processes : Current(p) \notin Hand(q)'
      /\ \A q \in Processes : pc'[q] # "idle" => pc[q] # "idle" /\ batch'[q].tick = batch[q].tick
      /\ \A q \in Processes \ {p} : pc'[q] = pc[q] /\ batch'[q] = batch[q]
  BY <1>1, HandShrinks
<1>3. HandsStamped'
  BY <1>2, HandsKept DEF InSomeHand
<1>4. ASSUME NEW r \in Ids, Marking(r)
      PROVE  Marking(r)' \/ faults' = faults + 1 \/ (~Pending(r)' /\ ~InSomeHand(r)')
  <2>1. PICK q \in Processes : pc[q] = "marking" /\ Current(q) = r
    BY <1>4 DEF Marking
  <2>2. CASE q # p
    BY <1>2, <2>1, <2>2 DEF Marking, Current
  <2>3. CASE q = p
    <3>1. PICK s \in Ids : s = Current(p) /\ s = r
      BY <2>1, <2>3
    <3>2. ~InSomeHand(s)'
      BY <1>2, <3>1 DEF InSomeHand
    <3> QED BY <2>1, <2>3, <3>1, <3>2
  <2> QED BY <2>2, <2>3
<1>5. Budget'
  <2>1. faults <= faults'
    BY ReminderAssumption DEF HInv, RInv, TypeOK
  <2> QED BY <1>2, <1>4, <2>1, BudgetKept
<1> QED BY <1>1, <1>2, <1>3, <1>5 DEF HInv

\* The statements that end the work on a reminder
LEMMA EndingHands ==
    ASSUME HInv, [Next]_vars, NEW p \in Processes,
           \/ MarkNotificationSent(p) \/ MarkFails(p)
           \/ ReleaseNotificationClaim(p) \/ ReleaseFails(p)
    PROVE  HInv'
<1>1. /\ pc[p] # "idle" /\ NextReminder(p) /\ UNCHANGED <<now, accepted>>
      /\ faults' = faults \/ faults' = faults + 1
  BY DEF MarkNotificationSent, MarkFails, ReleaseNotificationClaim, ReleaseFails, Fault
<1>2. TypeOK /\ rows \in [Ids -> Reminder]
  BY DEF HInv, RInv, TypeOK
<1>3. PICK c \in Ids : c = Current(p) /\ c \in Hand(p)
  BY <1>1, <1>2, CurrentInHand
<1>4. \A r \in Ids \ {c} : rows'[r] = rows[r]
  BY <1>2, <1>3 DEF MarkNotificationSent, MarkFails, ReleaseNotificationClaim, ReleaseFails
<1>5. \A r \in Ids \ {c} : ClaimKept(r)
  BY <1>4 DEF ClaimKept, Pending, Live
<1>6. ASSUME MarkNotificationSent(p) PROVE ~Pending(c)'
  <2>1. CASE OwnClaim(p, c)
    <3>1. rows'[c].status = "SENT"
      BY <1>2, <1>3, <1>6, <2>1 DEF MarkNotificationSent, MarkedSent, Reminder
    <3> QED BY <3>1 DEF Pending
  <2>2. CASE ~OwnClaim(p, c)
    <3>1. ~Pending(c)
      BY <1>3, <2>2 DEF OwnClaim, HInv, HandsStamped
    <3>2. rows' = rows
      BY <1>3, <1>6, <2>2 DEF MarkNotificationSent
    <3> QED BY <3>1, <3>2 DEF Pending, Live
  <2> QED BY <2>1, <2>2
<1>7. pc[p] = "marking" => ~Pending(c)' \/ faults' = faults + 1
  BY <1>6 DEF MarkFails, ReleaseNotificationClaim, ReleaseFails, Fault
<1> QED BY <1>1, <1>3, <1>5, <1>7, LeavingHands

\* The calls of the bridge
LEMMA SendingHands ==
    ASSUME HInv, [Next]_vars, NEW p \in Processes,
           TargetFails(p) \/ BridgeAccepts(p) \/ SendFails(p)
    PROVE  HInv'
<1>a. TypeOK /\ RInv'
  BY RInvStep DEF HInv, RInv
<1>1. /\ TypeOK /\ RInv' /\ faults \in Nat /\ accepted \in [Ids -> Nat]
      /\ pc \in [Processes -> {"idle", "delivering", "marking", "releasing"}]
  <2>1. faults \in Nat /\ accepted \in [Ids -> Nat]
        /\ pc \in [Processes -> {"idle", "delivering", "marking", "releasing"}]
    BY <1>a, ReminderAssumption DEF TypeOK
  <2> QED BY <1>a, <2>1
<1>2. /\ pc[p] = "delivering" /\ UNCHANGED <<now, rows, batch>>
      /\ pc'[p] \in {"marking", "releasing"} /\ \A q \in Processes \ {p} : pc'[q] = pc[q]
  BY <1>1 DEF TargetFails, BridgeAccepts, SendFails, Goto
<1>3. PICK c \in Ids : c = Current(p) /\ c \in Hand(p)
  BY <1>1, <1>2, CurrentInHand
<1>4. \A q \in Processes : Hand(q)' = Hand(q) /\ Current(q)' = Current(q)
  BY <1>2 DEF Hand, Current
<1>5. HandsDisjoint'
  BY <1>2, <1>4 DEF HInv, HandsDisjoint
<1>6. \A r \in Ids : ClaimKept(r)
  BY <1>2 DEF ClaimKept, Pending, Live
<1>7. HandsStamped'
  BY <1>2, <1>4, <1>5, <1>6, HandsKept
<1>8. ~Marking(c) /\ rows[c].status # "ABSENT"
  <2>1. ASSUME NEW q \in Processes, pc[q] = "marking", Current(q) = c PROVE FALSE
    BY <1>1, <1>2, <1>3, <2>1, CurrentInHand DEF HInv, HandsDisjoint
  <2> QED BY <1>3, <2>1 DEF Marking, HInv, HandsStamped
<1>9. \A r \in Ids : Marking(r) => Marking(r)'
  BY <1>2, <1>4 DEF Marking
<1>10. accepted[c] <= faults
  BY <1>3, <1>8 DEF HInv, Budget, InSomeHand
<1>11. Budget'
  <2>1. CASE TargetFails(p)
    <3>1. accepted' = accepted /\ faults' = faults /\ faults <= faults'
      BY <1>1, <2>1 DEF TargetFails
    <3> QED BY <1>4, <1>9, <3>1, BudgetKept
  <2>2. CASE BridgeAccepts(p)
    <3>1. /\ accepted' = [accepted EXCEPT ![c] = @ + 1] /\ faults' = faults
          /\ Marking(c)'
      BY <1>1, <1>3, <1>4, <2>2 DEF BridgeAccepts, Taken, Goto, Marking
    <3>2. \A r \in Ids \ {c} : accepted'[r] = accepted[r]
      BY <1>1, <3>1
    <3>3. accepted'[c] <= 1 + faults'
      BY <1>1, <1>10, <3>1
    <3>4. \A r \in Ids : Pending(r)' \/ InSomeHand(r)' => Pending(r) \/ InSomeHand(r)
      BY <1>2, <1>4 DEF Pending, Live, InSomeHand
    <3> QED BY <1>2, <1>8, <1>9, <3>1, <3>2, <3>3, <3>4 DEF HInv, Budget
  <2>3. CASE SendFails(p)
    <3>1. faults' = faults + 1 /\ (accepted' = accepted \/ accepted' = [accepted EXCEPT ![c] = @ + 1])
      BY <1>3, <2>3 DEF SendFails, Fault, Taken
    <3>2. \A r \in Ids : accepted'[r] <= faults'
      <4> TAKE r \in Ids
      <4>1. accepted[r] \in Nat /\ accepted[r] <= 1 + faults
        BY <1>1 DEF HInv, Budget
      <4>2. CASE accepted'[r] = accepted[r]
        BY <1>1, <3>1, <4>1, <4>2
      <4>3. CASE r = c /\ accepted'[r] = accepted[r] + 1
        BY <1>1, <1>10, <3>1, <4>1, <4>3
      <4> QED BY <1>1, <3>1, <4>2, <4>3
    <3>3. \A r \in Ids : rows'[r].status = "ABSENT" => accepted'[r] = 0
      BY <1>1, <1>2, <1>8, <3>1 DEF HInv, Budget
    <3>4. \A r \in Ids : accepted'[r] <= 1 + faults'
      <4> TAKE r \in Ids
      <4>1. accepted'[r] \in Nat /\ faults' \in Nat
        BY <1>1 DEF RInv, TypeOK
      <4> QED BY <3>2, <4>1
    <3> QED BY <3>2, <3>3, <3>4 DEF Budget
  <2> QED BY <2>1, <2>2, <2>3
<1> QED BY <1>1, <1>5, <1>7, <1>11 DEF HInv

\* A process without a batch holds nothing, and one that holds something works on it.
LEMMA IdleHoldsNothing ==
    ASSUME HandsDisjoint, NEW p \in Processes, pc[p] = "idle"
    PROVE  Hand(p) = {}
<1>1. batch[p].todo = << >>
  BY DEF HandsDisjoint, NoBatch
<1> QED BY <1>1 DEF Hand

\* A crash
LEMMA CrashHands ==
    ASSUME HInv, [Next]_vars, NEW p \in Processes, Crash(p)
    PROVE  HInv'
<1>1. /\ UNCHANGED <<now, rows, accepted>> /\ faults' = faults + 1
      /\ pc' = [pc EXCEPT ![p] = "idle"] /\ batch' = [batch EXCEPT ![p] = NoBatch]
  BY DEF Crash, Fault
<1>2. RInv' /\ TypeOK
  BY RInvStep DEF HInv, RInv
<1>3. /\ pc'[p] = "idle" /\ batch'[p] = NoBatch
      /\ \A q \in Processes \ {p} : pc'[q] = pc[q] /\ batch'[q] = batch[q]
  BY <1>1, <1>2 DEF TypeOK
<1>4. Hand(p)' = {} /\ \A q \in Processes \ {p} : Hand(q)' = Hand(q)
  BY <1>3 DEF Hand, NoBatch
<1>5. HandsDisjoint'
  <2>1. \A i, j \in 1..Len(batch'[p].todo) : i # j => batch'[p].todo[i] # batch'[p].todo[j]
    BY <1>3 DEF NoBatch
  <2>2. \A q, s \in Processes : q # s => Hand(q)' \cap Hand(s)' = {}
    BY <1>4 DEF HInv, HandsDisjoint
  <2> QED BY <1>3, <2>1, <2>2 DEF HInv, HandsDisjoint
<1>6. \A r \in Ids : ClaimKept(r)
  BY <1>1 DEF ClaimKept, Pending, Live
<1>7. HandsStamped'
  BY <1>1, <1>3, <1>4, <1>5, <1>6, HandsKept
<1>8. Budget'
  <2>1. faults <= faults'
    BY <1>1, <1>2, ReminderAssumption DEF TypeOK
  <2> QED BY <1>1, <1>4, <2>1, BudgetKept
<1> QED BY <1>2, <1>5, <1>7, <1>8 DEF HInv

\* A poll takes nothing that is in another hand and pending: its claim is not stale.
LEMMA ClaimHands ==
    ASSUME HInv, [Next]_vars, NEW p \in Processes, ClaimDueForNotification(p)
    PROVE  HInv'
<1>1. PICK tick \in 0..now, locked \in SUBSET Lockable : now <= tick + TickLag /\ Claim(p, tick, locked)
  BY DEF ClaimDueForNotification
<1> DEFINE due == {r \in Ids \ locked : Due(r, tick)}
<1>2. PICK todo \in Batches(due) :
        /\ rows' = [ r \in Ids |-> IF r \in {todo[i] : i \in DOMAIN todo}
                                   THEN [rows[r] EXCEPT !.claim = tick] ELSE rows[r] ]
        /\ batch' = [batch EXCEPT ![p] = [tick |-> tick, todo |-> todo]]
  BY <1>1 DEF Claim
<1>3. /\ due \in SUBSET Ids /\ due # {} /\ pc[p] = "idle" /\ pc' = [pc EXCEPT ![p] = "delivering"]
      /\ UNCHANGED <<now, accepted, faults>> /\ \A r \in due : Due(r, tick)
  BY <1>1 DEF Claim
<1> HIDE DEF due
<1>4. /\ todo \in Seq(Ids) /\ \A i \in 1..Len(todo) : todo[i] \in due
      /\ \A i, j \in 1..Len(todo) : i # j => todo[i] # todo[j]
      /\ DOMAIN todo = 1..Len(todo)
  BY <1>2, <1>3, BatchType
<1> DEFINE taken == {todo[i] : i \in 1..Len(todo)}
<1>a. RInv' /\ TypeOK /\ HandsDisjoint
  BY RInvStep DEF HInv, RInv
<1>5. /\ RInv' /\ TypeOK /\ HandsDisjoint /\ rows \in [Ids -> Reminder] /\ now \in Nat
      /\ \A q \in Processes : batch[q].tick \in Nat
  <2>1. rows \in [Ids -> Reminder] /\ now \in Nat /\ \A q \in Processes : batch[q].tick \in Nat
    BY <1>a, ReminderAssumption DEF TypeOK
  <2> QED BY <1>a, <2>1
<1>6. /\ pc'[p] = "delivering" /\ batch'[p].tick = tick /\ batch'[p].todo = todo
      /\ \A q \in Processes \ {p} : pc'[q] = pc[q] /\ batch'[q] = batch[q]
  BY <1>2, <1>3, <1>5 DEF TypeOK
<1>7. /\ Hand(p) = {} /\ Hand(p)' = taken /\ taken \subseteq due
      /\ \A q \in Processes \ {p} : Hand(q)' = Hand(q) /\ Current(q)' = Current(q)
  <2>1. Hand(p) = {}
    BY <1>3, <1>5, IdleHoldsNothing
  <2>2. Hand(p)' = taken
    BY <1>6 DEF Hand
  <2>3. taken \subseteq due
    BY <1>4
  <2>4. \A q \in Processes \ {p} : Hand(q)' = Hand(q) /\ Current(q)' = Current(q)
    BY <1>6 DEF Hand, Current
  <2> HIDE DEF taken
  <2> QED BY <2>1, <2>2, <2>3, <2>4
<1>8. ASSUME NEW q \in Processes, NEW r \in Hand(q), r \in due PROVE FALSE
  <2>1. pc[q] # "idle" /\ Pending(r) /\ rows[r].claim = batch[q].tick
    BY <1>3, <1>5, <1>8, IdleHoldsNothing DEF HInv, HandsStamped, Due
  <2>2. ~(batch[q].tick < now - Lease)
    BY <2>1 DEF HInv, HandsStamped, Stale
  <2>3. batch[q].tick < tick - Lease
    BY <1>3, <1>5, <1>8, <2>1, ReminderAssumption DEF Due
  <2> QED BY <1>5, <2>2, <2>3, ReminderAssumption
<1> HIDE DEF taken
<1>9. HandsDisjoint'
  <2>1. \A q, s \in Processes : q # s => Hand(q)' \cap Hand(s)' = {}
    BY <1>5, <1>7, <1>8 DEF HandsDisjoint
  <2>2. \A q \in Processes : pc'[q] = "idle" => batch'[q] = NoBatch
    BY <1>5, <1>6 DEF HandsDisjoint
  <2>3. \A q \in Processes : \A i, j \in 1..Len(batch'[q].todo) :
           i # j => batch'[q].todo[i] # batch'[q].todo[j]
    <3>1. ASSUME NEW q \in Processes \ {p}
          PROVE  \A i, j \in 1..Len(batch'[q].todo) : i # j => batch'[q].todo[i] # batch'[q].todo[j]
      BY <1>5, <1>6, <3>1 DEF HandsDisjoint
    <3>2. \A i, j \in 1..Len(batch'[p].todo) : i # j => batch'[p].todo[i] # batch'[p].todo[j]
      BY <1>4, <1>6
    <3> QED BY <3>1, <3>2
  <2> QED BY <2>1, <2>2, <2>3 DEF HandsDisjoint
<1>10. /\ \A r \in Ids \ taken : rows'[r] = rows[r]
       /\ \A r \in taken : /\ rows'[r].claim = tick /\ rows'[r].status = rows[r].status
                           /\ rows'[r].deleted = rows[r].deleted
  <2>1. taken = {todo[i] : i \in DOMAIN todo} /\ taken \subseteq Ids
    BY <1>3, <1>4, <1>7 DEF taken
  <2>2. \A r \in Ids : rows[r] \in Reminder
    BY <1>5
  <2> HIDE DEF taken
  <2>3. \A r \in Ids : rows'[r] = IF r \in taken THEN [rows[r] EXCEPT !.claim = tick] ELSE rows[r]
    BY <1>2, <2>1
  <2> QED BY <2>1, <2>2, <2>3 DEF Reminder
<1>11. \A r \in Ids : Pending(r)' <=> Pending(r)
  BY <1>10 DEF Pending, Live
<1>12. HandsStamped'
  <2>1. ~Stale(p, now)'
    <3>1. TickLag \in Nat /\ Lease \in Nat /\ TickLag <= Lease
      BY ReminderAssumption
    <3> QED BY <1>1, <1>3, <1>5, <1>6, <3>1 DEF Stale
  <2>2. ASSUME NEW q \in Processes \ {p}, pc'[q] # "idle" PROVE ~Stale(q, now)'
    BY <1>3, <1>6, <2>2 DEF HInv, HandsStamped, Stale
  <2>3. ASSUME NEW r \in Hand(p)'
        PROVE  rows'[r].status # "ABSENT" /\ rows'[r].claim = batch'[p].tick
    BY <1>3, <1>6, <1>7, <1>10, <2>3 DEF Due, Pending
  <2>4. ASSUME NEW q \in Processes \ {p}, NEW r \in Hand(q)'
        PROVE  rows'[r].status # "ABSENT" /\ (Pending(r)' => rows'[r].claim = batch'[q].tick)
    <3>1. r \in Ids /\ r \notin taken /\ r \in Hand(q)
      BY <1>5, <1>7, <1>8, <2>4, HandType
    <3>2. rows'[r] = rows[r] /\ (Pending(r)' <=> Pending(r)) /\ batch'[q] = batch[q]
      BY <1>6, <1>10, <1>11, <3>1
    <3> QED BY <3>1, <3>2 DEF HInv, HandsStamped
  <2> QED BY <2>1, <2>2, <2>3, <2>4 DEF HandsStamped
<1>13. Budget'
  <2>1. \A r \in Ids : Marking(r) => Marking(r)'
    BY <1>3, <1>6, <1>7 DEF Marking
  <2>2. faults <= faults'
    BY <1>3, <1>5, ReminderAssumption DEF TypeOK
  <2>3. \A r \in Ids : Pending(r)' \/ InSomeHand(r)' => Pending(r) \/ InSomeHand(r)
    BY <1>3, <1>7, <1>11 DEF InSomeHand, Due
  <2>4. \A r \in Ids : rows'[r].status = "ABSENT" => rows[r].status = "ABSENT"
    BY <1>10
  <2> QED BY <1>3, <2>1, <2>3, <2>4 DEF HInv, Budget
<1> QED BY <1>5, <1>9, <1>12, <1>13 DEF HInv

\* The clock waits for the batches.
LEMMA TickHands ==
    ASSUME HInv, Prompt, Tick
    PROVE  HInv'
<1>1. RInv'
  BY RInvStep DEF HInv, Next
<1>2. UNCHANGED <<rows, accepted, pc, batch, faults>> /\ now' = now + 1
  BY DEF Tick
<1>3. /\ \A p \in Processes : Hand(p)' = Hand(p)
      /\ \A r \in Ids : (Pending(r)' <=> Pending(r)) /\ (Marking(r)' <=> Marking(r))
  BY <1>2 DEF Hand, Pending, Live, Marking, Current
<1>4. \A p \in Processes : pc'[p] # "idle" => ~Stale(p, now)'
  BY <1>2 DEF Tick, Stale
<1>5. HandsDisjoint'
  BY <1>2, <1>3 DEF HInv, HandsDisjoint
<1>6. HandsStamped'
  <2>1. ASSUME NEW p \in Processes, NEW r \in Hand(p)'
        PROVE  rows'[r].status # "ABSENT" /\ (Pending(r)' => rows'[r].claim = batch'[p].tick)
    <3>1. r \in Hand(p) /\ (Pending(r)' <=> Pending(r))
      BY <1>2, <1>3, <2>1 DEF Pending, Live
    <3> QED BY <1>2, <3>1 DEF HInv, HandsStamped
  <2> QED BY <1>4, <2>1 DEF HandsStamped
<1>7. Budget'
  BY <1>2, <1>3 DEF HInv, Budget, InSomeHand
<1> QED BY <1>1, <1>5, <1>6, <1>7 DEF HInv

-----------------------------------------------------------------------------

\* All batches are empty at first.
LEMMA InitHands == Init => HInv
<1> SUFFICES ASSUME Init PROVE HInv
  OBVIOUS
<1>1. \A p \in Processes : pc[p] = "idle" /\ batch[p] = NoBatch /\ Len(batch[p].todo) = 0
  BY DEF Init, NoBatch
<1>2. \A p \in Processes : Hand(p) = {}
  BY <1>1 DEF Hand
<1>3. HandsDisjoint
  BY <1>1, <1>2 DEF HandsDisjoint
<1>4. HandsStamped
  BY <1>1, <1>2 DEF HandsStamped
<1>5. \A r \in Ids : accepted[r] = 0 /\ faults = 0
  BY DEF Init
<1> QED BY <1>3, <1>4, <1>5, InitRInv DEF HInv, Budget

\* The invariant is inductive while processes are prompt.
LEMMA HInvStep ==
    ASSUME HInv, Prompt, [Next]_vars
    PROVE  HInv'
<1>1. CASE Tick
  BY <1>1, TickHands
<1>2. CASE SchedulerStep
  BY <1>2, ClaimHands, SendingHands, EndingHands, CrashHands DEF SchedulerStep, Deliver
<1>3. CASE RequestStep
  BY <1>3, RequestHands
<1>4. CASE UNCHANGED vars
  <2>1. RInv'
    BY RInvStep DEF HInv
  <2>2. UNCHANGED <<now, rows, accepted, pc, batch, faults>>
    BY <1>4 DEF vars
  <2>3. /\ \A p \in Processes : Hand(p)' = Hand(p)
        /\ \A r \in Ids : (Pending(r)' <=> Pending(r)) /\ (Marking(r)' <=> Marking(r)) /\ ClaimKept(r)
    BY <2>2 DEF Hand, Pending, Live, Marking, Current, ClaimKept
  <2>4. HandsDisjoint'
    BY <2>2, <2>3 DEF HInv, HandsDisjoint
  <2>5. HandsStamped'
    BY <2>2, <2>3, <2>4, HandsKept
  <2>6. Budget'
    BY <2>2, <2>3 DEF HInv, Budget, InSomeHand
  <2> QED BY <2>1, <2>4, <2>5, <2>6 DEF HInv
<1> QED BY <1>1, <1>2, <1>3, <1>4 DEF Next

\* The property RepeatsNeedFaults: claims, marks and releases by the stamp keep
\* any number of processes from notifying of one reminder twice, unless a call
\* fails or a process dies, and then once more for each failure at most.
THEOREM RepeatsOnlyAfterFaults == Spec => []RepeatsNeedFaults
<1> DEFINE PInv == Prompt => HInv
<1>1. Init => PInv
  BY InitHands
<1>2. PInv /\ [Next]_vars => PInv'
  BY HInvStep
<1>3. PInv => RepeatsNeedFaults
  BY DEF HInv, Budget, RepeatsNeedFaults
<1> QED BY <1>1, <1>2, <1>3, PTL DEF Spec
===============================================================================
