------------------------------ MODULE Reminders ------------------------------
(***************************************************************************)
(* The reminders of one space, as                                          *)
(*   src/internal/services/reminder/{service,scheduler}.go                 *)
(*   src/internal/repositories/reminder/repository.go                      *)
(* create, replace, change, complete, delete, claim and deliver them.      *)
(*                                                                         *)
(* Unlike a scheduled message, a reminder is sent outside any transaction: *)
(* a process claims a batch by stamping it with its tick, calls the bridge *)
(* for one reminder after the other, and marks or releases each by the     *)
(* stamp.  Everything may happen to a row meanwhile.                       *)
(*                                                                         *)
(* A step is one SQL statement, one transaction or one answer of the       *)
(* bridge.  A replacement is two steps, because PostgreSQL chooses the     *)
(* rows of SELECT ... FOR UPDATE from a snapshot and looks again at each   *)
(* row it had to wait for.  notified_at is set together with SENT, and no  *)
(* row becomes PENDING again, so the status stands for both.               *)
(***************************************************************************)
EXTENDS Integers, Sequences, FiniteSets

CONSTANTS
    Processes,      \* server processes, each with one reminder scheduler
    Creators,       \* concurrent creations with a replace key
    Deleters,       \* concurrent deletions
    Ids,            \* ids of reminders
    Keyed,          \* those created with the space's replace key
    Undeliverable,  \* those no delivery target can be found for
    Times,          \* scheduled_at values users ask for
    BatchSize, Lease,
    TickLag,        \* how far the tick RunOnce is called with may lag the clock
    Prompt,         \* does a process finish its batch before the claims go stale
    Nil,
    MaxTime, MaxFaults, FaultsUntil, MaxEdits   \* bounds of the model

ASSUME ReminderAssumption ==
    /\ IsFiniteSet(Ids) /\ Keyed \subseteq Ids /\ Undeliverable \subseteq Ids /\ Times \subseteq Nat
    /\ BatchSize \in Nat \ {0} /\ Lease \in Nat \ {0} /\ TickLag \in 0..Lease
    /\ Prompt \in BOOLEAN /\ Nil \notin Nat /\ Nil \notin Ids
    /\ MaxTime \in Nat /\ MaxFaults \in Nat /\ FaultsUntil \in Nat /\ MaxEdits \in Nat

VARIABLES
    now,            \* the clock
    rows,           \* the table reminders; "ABSENT" is a row not inserted yet
    accepted,       \* how many notifications of each the bridge has taken
    pc,             \* where the scheduler of each process stands
    batch,          \* its tick, and what is left of its batch, the current one first
    creating,       \* what each keyed creation has read
    deleting,       \* the id and the status each deletion has read
    faults, edits   \* events used up so far, of MaxFaults and MaxEdits

vars == <<now, rows, accepted, pc, batch, creating, deleting, faults, edits>>

Statuses == {"PENDING", "SENT", "COMPLETED", "CANCELLED"}

Reminder ==
    [ status : Statuses \union {"ABSENT"}, at : Nat, claim : Nat \union {Nil},
      deleted : BOOLEAN ]

Creation ==
    [ phase : {"none", "reading", "writing"}, id : Ids \union {Nil}, at : Nat,
      seen : SUBSET Ids, retried : BOOLEAN ]

NoReminder == [ status |-> "ABSENT", at |-> 0, claim |-> Nil, deleted |-> FALSE ]

NewReminder(at) == [ NoReminder EXCEPT !.status = "PENDING", !.at = at ]

NoCreation == [ phase |-> "none", id |-> Nil, at |-> 0, seen |-> {}, retried |-> FALSE ]

NoDeletion == [ id |-> Nil, status |-> "ABSENT" ]

NoBatch == [ tick |-> 0, todo |-> << >> ]

\* Every statement of the repository adds "deleted_at IS NULL".
Live(r) == ~rows[r].deleted

Pending(r) == Live(r) /\ rows[r].status = "PENDING"

Unfinished(r) == Live(r) /\ rows[r].status \in {"PENDING", "SENT"}

Fault == faults < MaxFaults /\ now <= FaultsUntil /\ faults' = faults + 1

Init ==
    /\ now = 0
    /\ rows = [r \in Ids |-> NoReminder]
    /\ accepted = [r \in Ids |-> 0]
    /\ pc = [p \in Processes |-> "idle"]
    /\ batch = [p \in Processes |-> NoBatch]
    /\ creating = [u \in Creators |-> NoCreation]
    /\ deleting = [u \in Deleters |-> NoDeletion]
    /\ faults = 0 /\ edits = 0

-----------------------------------------------------------------------------
(* The scheduler of a process *)

\* Seeded fault: a claim is never taken over.
DueUnclaimed(r, tick) == Pending(r) /\ rows[r].at <= tick /\ rows[r].claim = Nil

\* Seeded fault: the claim of another process is not looked at.
DueThoughClaimed(r, tick) == Pending(r) /\ rows[r].at <= tick

Due(r, tick) ==
    /\ Pending(r)
    /\ rows[r].at <= tick
    /\ rows[r].claim # Nil => rows[r].claim < tick - Lease

\* ORDER BY scheduled_at LIMIT BatchSize
Batches(due) ==
    LET size == IF Cardinality(due) < BatchSize THEN Cardinality(due) ELSE BatchSize
        Taken(todo) == {todo[i] : i \in 1..size}
    IN  { todo \in [1..size -> due] :
            /\ \A i, j \in 1..size : i < j => todo[i] # todo[j] /\ rows[todo[i]].at <= rows[todo[j]].at
            /\ \A r \in due \ Taken(todo), i \in 1..size : rows[todo[i]].at <= rows[r].at }

\* Rows a transaction of CreateReplacing may have locked.
Lockable == UNION {creating[u].seen : u \in Creators}

\* ClaimDueForNotification: due rows but those skipped because they are locked
\* get the tick of RunOnce as their stamp.
Claim(p, tick, locked) ==
    LET due == {r \in Ids \ locked : Due(r, tick)}
    IN  /\ pc[p] = "idle" /\ due # {}
        /\ \E todo \in Batches(due) :
              /\ rows' = [ r \in Ids |->
                    IF r \in {todo[i] : i \in DOMAIN todo}
                    THEN [rows[r] EXCEPT !.claim = tick] ELSE rows[r] ]
              /\ batch' = [batch EXCEPT ![p] = [tick |-> tick, todo |-> todo]]
        /\ pc' = [pc EXCEPT ![p] = "delivering"]
        /\ UNCHANGED <<now, accepted, creating, deleting, faults, edits>>

\* A tick that waited in the ticker's channel while the last batch ran is late.
ClaimDueForNotification(p) ==
    \E tick \in 0..now, locked \in SUBSET Lockable :
        now <= tick + TickLag /\ Claim(p, tick, locked)

Current(p) == Head(batch[p].todo)

Goto(p, place) == pc' = [pc EXCEPT ![p] = place] /\ UNCHANGED batch

\* Seeded fault: the loop runs one reminder too far.
NextWithoutEnd(p) ==
    /\ pc' = [pc EXCEPT ![p] = "delivering"]
    /\ batch' = [batch EXCEPT ![p].todo = Tail(@)]

\* The loop of RunOnce goes on to the next reminder of the batch.
NextReminder(p) ==
    LET left == Tail(batch[p].todo)
    IN  /\ pc' = [pc EXCEPT ![p] = IF left = << >> THEN "idle" ELSE "delivering"]
        /\ batch' = [batch EXCEPT ![p] = IF left = << >> THEN NoBatch ELSE [@ EXCEPT !.todo = left]]

\* Seeded fault: mark and release do not look at the status.
OwnStamp(p, r) == Live(r) /\ rows[r].claim = batch[p].tick

\* The WHERE of MarkNotificationSent and ReleaseNotificationClaim.
OwnClaim(p, r) == Pending(r) /\ rows[r].claim = batch[p].tick

\* target
TargetFails(p) ==
    /\ pc[p] = "delivering" /\ Current(p) \in Undeliverable
    /\ Goto(p, "releasing")
    /\ UNCHANGED <<now, rows, accepted, creating, deleting, faults, edits>>

Taken(r) == [accepted EXCEPT ![r] = @ + 1]

\* The bridge takes the notification and says so.
BridgeAccepts(p) ==
    /\ pc[p] = "delivering" /\ Current(p) \notin Undeliverable
    /\ accepted' = Taken(Current(p))
    /\ Goto(p, "marking")
    /\ UNCHANGED <<now, rows, creating, deleting, faults, edits>>

\* Send returns an error; the bridge may have taken the notification all the same.
SendFails(p) ==
    /\ pc[p] = "delivering" /\ Current(p) \notin Undeliverable
    /\ Fault
    /\ accepted' \in {accepted, Taken(Current(p))}
    /\ Goto(p, "releasing")
    /\ UNCHANGED <<now, rows, creating, deleting, edits>>

MarkedSent(row) == [row EXCEPT !.status = "SENT", !.claim = Nil]

\* A conflict is logged and counts as delivered.
MarkNotificationSent(p) ==
    /\ pc[p] = "marking"
    /\ IF OwnClaim(p, Current(p))
       THEN rows' = [rows EXCEPT ![Current(p)] = MarkedSent(@)]
       ELSE UNCHANGED rows
    /\ NextReminder(p)
    /\ UNCHANGED <<now, accepted, creating, deleting, faults, edits>>

\* The statement fails and the claim stays until it is stale.  (A write that is
\* done although its answer is lost has the effect of the step that succeeds;
\* so it is for a release and a creation.)
MarkFails(p) ==
    /\ pc[p] = "marking"
    /\ Fault
    /\ NextReminder(p)
    /\ UNCHANGED <<now, rows, accepted, creating, deleting, edits>>

ReleaseNotificationClaim(p) ==
    /\ pc[p] = "releasing"
    /\ IF OwnClaim(p, Current(p))
       THEN rows' = [rows EXCEPT ![Current(p)].claim = Nil]
       ELSE UNCHANGED rows
    /\ NextReminder(p)
    /\ UNCHANGED <<now, accepted, creating, deleting, faults, edits>>

ReleaseFails(p) ==
    /\ pc[p] = "releasing"
    /\ Fault
    /\ NextReminder(p)
    /\ UNCHANGED <<now, rows, accepted, creating, deleting, edits>>

\* The process dies, or its context is cancelled.
Crash(p) ==
    /\ pc[p] # "idle"
    /\ Fault
    /\ pc' = [pc EXCEPT ![p] = "idle"]
    /\ batch' = [batch EXCEPT ![p] = NoBatch]
    /\ UNCHANGED <<now, rows, accepted, creating, deleting, edits>>

Deliver(p) ==
    \/ TargetFails(p) \/ BridgeAccepts(p)
    \/ MarkNotificationSent(p) \/ ReleaseNotificationClaim(p)

-----------------------------------------------------------------------------
(* Creation *)

Unused(r) == rows[r].status = "ABSENT" /\ \A u \in Creators : creating[u].id # r

\* Create without a replace key
CreatePlain(r, at) ==
    /\ r \notin Keyed /\ Unused(r)
    /\ rows' = [rows EXCEPT ![r] = NewReminder(at)]
    /\ UNCHANGED <<now, accepted, pc, batch, creating, deleting, faults, edits>>

\* CreateReplacing up to its transaction
BeginReplacing(u, r, at) ==
    /\ creating[u].phase = "none" /\ r \in Keyed /\ Unused(r)
    /\ creating' = [creating EXCEPT ![u] =
          [NoCreation EXCEPT !.phase = "reading", !.id = r, !.at = at]]
    /\ UNCHANGED <<now, rows, accepted, pc, batch, deleting, faults, edits>>

\* replaceOnce: the snapshot of SELECT ... FOR UPDATE
ReadMatching(u) ==
    /\ creating[u].phase = "reading"
    /\ creating' = [creating EXCEPT ![u].phase = "writing", ![u].seen = {r \in Keyed : Unfinished(r)}]
    /\ UNCHANGED <<now, rows, accepted, pc, batch, deleting, faults, edits>>

PendingSeen(u) == {r \in creating[u].seen : Pending(r)}

\* Seeded fault: sent rows are completed as the snapshot showed them.
SentOnceSeen(u) == {r \in creating[u].seen : rows[r].status = "SENT" /\ rows[r].at <= creating[u].at}

SentSeen(u) ==
    {r \in creating[u].seen :
        Unfinished(r) /\ rows[r].status = "SENT" /\ rows[r].at <= creating[u].at}

LaterPending(u) == \E r \in PendingSeen(u) : rows[r].at > creating[u].at

\* Seeded fault: there is no unique index.
NoIndex(u) == FALSE

\* ux_reminders_pending_replace_key meets a row the snapshot did not show.
ViolatesIndex(u) == \E r \in Keyed \ PendingSeen(u) : Pending(r)

\* The three statements: cancel, complete, insert.
Replaced(u) ==
    [ r \in Ids |->
        CASE r = creating[u].id    -> NewReminder(creating[u].at)
          [] r \in PendingSeen(u)  -> [rows[r] EXCEPT !.status = "CANCELLED", !.deleted = TRUE]
          [] r \in SentSeen(u)     -> [rows[r] EXCEPT !.status = "COMPLETED"]
          [] OTHER                 -> rows[r] ]

EndCreation(u) == creating' = [creating EXCEPT ![u] = NoCreation]

KeepExisting(u) ==
    /\ creating[u].phase = "writing" /\ LaterPending(u)
    /\ EndCreation(u)
    /\ UNCHANGED <<now, rows, accepted, pc, batch, deleting, faults, edits>>

Replace(u) ==
    /\ creating[u].phase = "writing" /\ ~LaterPending(u) /\ ~ViolatesIndex(u)
    /\ rows' = Replaced(u)
    /\ EndCreation(u)
    /\ UNCHANGED <<now, accepted, pc, batch, deleting, faults, edits>>

\* The insertion fails and the transaction rolls back.  CreateReplacing tries a
\* second time, then gives up with a conflict.
ReplaceConflicts(u) ==
    /\ creating[u].phase = "writing" /\ ~LaterPending(u) /\ ViolatesIndex(u)
    /\ IF creating[u].retried
       THEN EndCreation(u)
       ELSE creating' = [creating EXCEPT ![u].phase = "reading", ![u].seen = {}, ![u].retried = TRUE]
    /\ UNCHANGED <<now, rows, accepted, pc, batch, deleting, faults, edits>>

\* A statement fails or the request is cancelled; nothing is written.
CreationFails(u) ==
    /\ creating[u].phase # "none"
    /\ Fault
    /\ EndCreation(u)
    /\ UNCHANGED <<now, rows, accepted, pc, batch, deleting, edits>>

CreationEnds(u) == KeepExisting(u) \/ Replace(u) \/ ReplaceConflicts(u)

-----------------------------------------------------------------------------
(* Completion, change and deletion of a reminder.  Complete and Update read the
   status before their guarded UPDATE; the guard decides, whatever they read.  *)

\* Complete, CompleteUnfinished
Complete(r) ==
    /\ Unfinished(r)
    /\ rows' = [rows EXCEPT ![r].status = "COMPLETED"]
    /\ UNCHANGED <<now, accepted, pc, batch, creating, deleting, faults, edits>>

\* Update, UpdatePending: a new time leaves the claim as it is.
UpdatePending(r, at) ==
    /\ Pending(r)
    /\ edits < MaxEdits /\ edits' = edits + 1
    /\ rows' = [rows EXCEPT ![r].at = at]
    /\ UNCHANGED <<now, accepted, pc, batch, creating, deleting, faults>>

\* Delete reads the status and decides the new one.
ReadForDeletion(u, r) ==
    /\ deleting[u] = NoDeletion
    /\ Live(r) /\ rows[r].status # "ABSENT"
    /\ deleting' = [deleting EXCEPT ![u] =
          [ id |-> r, status |-> IF Pending(r) THEN "CANCELLED" ELSE rows[r].status ]]
    /\ UNCHANGED <<now, rows, accepted, pc, batch, creating, faults, edits>>

SoftDelete(u) ==
    /\ deleting[u] # NoDeletion
    /\ LET r == deleting[u].id
       IN  IF Live(r)
           THEN rows' = [rows EXCEPT ![r].status = deleting[u].status, ![r].deleted = TRUE]
           ELSE UNCHANGED rows
    /\ deleting' = [deleting EXCEPT ![u] = NoDeletion]
    /\ UNCHANGED <<now, accepted, pc, batch, creating, faults, edits>>

-----------------------------------------------------------------------------

Stale(p, t) == batch[p].tick < t - Lease

Tick ==
    /\ now < MaxTime
    /\ Prompt => \A p \in Processes : pc[p] # "idle" => ~Stale(p, now + 1)
    /\ now' = now + 1
    /\ UNCHANGED <<rows, accepted, pc, batch, creating, deleting, faults, edits>>

SchedulerStep ==
    \E p \in Processes :
        \/ ClaimDueForNotification(p) \/ Deliver(p)
        \/ SendFails(p) \/ MarkFails(p) \/ ReleaseFails(p) \/ Crash(p)

RequestStep ==
    \/ \E r \in Ids, at \in Times : CreatePlain(r, at) \/ UpdatePending(r, at)
    \/ \E r \in Ids : Complete(r)
    \/ \E u \in Creators, r \in Ids, at \in Times : BeginReplacing(u, r, at)
    \/ \E u \in Creators : ReadMatching(u) \/ CreationEnds(u) \/ CreationFails(u)
    \/ \E u \in Deleters, r \in Ids : ReadForDeletion(u, r)
    \/ \E u \in Deleters : SoftDelete(u)

Next == Tick \/ SchedulerStep \/ RequestStep

Spec == Init /\ [][Next]_vars

\* Time passes and calls return.  A row lock and the lag of a tick are short
\* against the time between polls, so polls that suffer from neither recur.
Fairness ==
    /\ SF_vars(Tick)
    /\ \A p \in Processes : SF_vars(Claim(p, now, {})) /\ WF_vars(Deliver(p))

FairSpec == Spec /\ Fairness

-----------------------------------------------------------------------------
(* Properties *)

\* Every variable has its type.
TypeOK ==
    /\ now \in 0..MaxTime
    /\ rows \in [Ids -> Reminder]
    /\ accepted \in [Ids -> Nat]
    /\ pc \in [Processes -> {"idle", "delivering", "marking", "releasing"}]
    /\ batch \in [Processes -> [tick : Nat, todo : Seq(Ids)]]
    /\ creating \in [Creators -> Creation]
    /\ deleting \in [Deleters -> [id : Ids \union {Nil}, status : Statuses \union {"ABSENT"}]]
    /\ faults \in 0..MaxFaults /\ edits \in 0..MaxEdits
    /\ \A p \in Processes : pc[p] # "idle" => batch[p].todo # << >>
    /\ \A u \in Creators : creating[u].phase # "none" => creating[u].id \in Keyed
    /\ \A u \in Deleters : deleting[u].id = Nil <=> deleting[u] = NoDeletion

\* While processes finish their batches in time, the bridge takes a second
\* notification of a reminder only after a failure, and one for each at most:
\* claims, marks and releases by the stamp keep two processes apart, through
\* changes, completions, replacements and deletions in the middle of a send.
RepeatsNeedFaults == Prompt => \A r \in Ids : accepted[r] <= 1 + faults

\* A reminder marked SENT is due: nobody is told of it before its time.
SentWasDue == \A r \in Ids : Live(r) /\ rows[r].status = "SENT" => rows[r].at <= now

Rank == [ABSENT |-> 0, PENDING |-> 1, SENT |-> 2, COMPLETED |-> 3, CANCELLED |-> 3]

\* What users see of a reminder only goes forward: a deleted one stays as it
\* is, a finished one is never reopened or moved to another time, and marks and
\* releases of slow processes do not undo what requests have decided.
HistoryMovesForward ==
    [][ \A r \in Ids :
          LET old == rows[r]  new == rows'[r]
          IN  /\ old.deleted => new = old
              /\ ~new.deleted => Rank[old.status] <= Rank[new.status]
              /\ old.status \in {"SENT", "COMPLETED", "CANCELLED"} => new.at = old.at ]_rows

LivePending == {r \in Keyed : Pending(r)}

\* The creation succeeds in this step; it neither conflicts nor fails.
Succeeds(u) == creating[u].phase = "writing" /\ (KeepExisting(u) \/ Replace(u))

\* "The latest event by scheduled_at wins": when a keyed creation succeeds, one
\* pending reminder of the key is left, the new one or a later one, and no
\* pending reminder was later than it, whatever the creation had read.  A new
\* one leaves open, of the reminders its snapshot showed, only later ones.
LatestWins ==
    [][ \A u \in Creators : Succeeds(u) =>
          \E winner \in Keyed :
              /\ LivePending' = {winner}
              /\ rows'[winner].at >= creating[u].at
              /\ rows'[winner].at > creating[u].at => rows' = rows
              /\ \A r \in LivePending : rows'[winner].at >= rows[r].at
              /\ winner = creating[u].id =>
                    \A r \in creating[u].seen \ {winner} :
                        Unfinished(r)' => rows'[r].at > rows'[winner].at ]_vars

\* A reminder that has a target and is due is notified, withdrawn or moved.
DueIsNotified ==
    \A r \in Ids \ Undeliverable :
        (Pending(r) /\ rows[r].at <= now) ~> ~(Pending(r) /\ rows[r].at <= now)

=============================================================================
