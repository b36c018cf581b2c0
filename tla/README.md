# A model of Family Assistant

TLA+ modules, TLC runs and TLAPS proofs about the Go server in `src/`. Family
Assistant keeps shared spaces for families: members talk to it over WhatsApp (through
an MCP server), and it stores activities, reminds people and sends scheduled messages
through a WhatsApp bridge. State is in PostgreSQL; Redis holds sessions, codes,
counters, caches and two indexes of due work. Several processes of the server may run
against the same stores, and each starts one reminder scheduler and one
scheduled-message scheduler.

The part where the program decides *whether a person receives a message once, twice or
never* comes first: scheduled messages with their calendar and due index, and reminders
with theirs. Around it are the parts that decide *who somebody is and what they may do*:
spaces with members and invitations, identities and links, accounts with their sessions,
mailed codes, permissions and limits; and one background job, the location catalogue.

## Files

| file | what it is |
|---|---|
| `Recurrence.tla` | calendar arithmetic: the next occurrence of a rule in a time zone |
| `MCRecurrence.tla` | the questions asked of it, against a definition that looks at every instant |
| `ScheduledMessages.tla` | one scheduled message: requests, schedulers, bridge, crashes |
| `MCScheduledMessages.tla`, `ScheduledMessages_*.cfg` | four runs of it |
| `DueIndex.tla` | the Redis index of due deliveries and its reconciliation |
| `Reminders.tla` | the reminders of a space: requests, schedulers, bridge, crashes |
| `MCReminders.tla`, `Reminders_*.cfg` | four runs of it |
| `ReminderIndex.tla` | the Redis index of pending reminders, with their times |
| `MCIndexes.tla`, `Indexes.cfg` | one run of both indexes |
| `Membership.tla` | shared spaces, members, invitations, with what each request reads first |
| `Belonging.tla` | what `Membership` promises people; it implements this |
| `MCMembership.tla`, `Membership.cfg` | its run |
| `Identity.tla` | accounts, external identities, link codes |
| `Directory.tla` | what `Identity` promises people; it implements this |
| `Accounts.tla` | one account: its row, sessions in Redis, revoked tokens |
| `Codes.tla` | one-time passwords and reset tokens with their counters |
| `LocationSync.tla` | jobs that import the location catalogue, and its cache |
| `Feedings.tla` | one activity that is a feeding: amounts, outcome, note |
| `MCComponents.tla`, `Components.cfg` | one run of `Accounts`, `Identity`, `Codes`, `LocationSync`, `Feedings` and `MCRecurrence` |
| `Access.tla` | roles, permissions, the permission cache and the role in the token |
| `Limiters.tla` | the limit on an address and the limit on logins |
| `MCUpkeep.tla`, `Upkeep.cfg` | one run of `Access` and `Limiters` |
| `Recurrence_proofs.tla` | the calendar search ends and is right, in any zone |
| `ScheduledMessages_proofs.tla` | types, one outstanding occurrence, current copies |
| `ScheduledMessages_send_proofs.tla` | what is true of a send, budgets of both kinds, final history |
| `Reminders_proofs.tla` | types, forward history, the latest of a key wins, repetition only after failures |
| `Indexes_proofs.tla` | types of both indexes, and when each is exact |
| `Membership_proofs.tla` | types, founders, one row per user, and the refinement of `Belonging` |
| `Components_proofs.tla` | safety of `Accounts`, of `Identity` with the refinement of `Directory`, of `Codes`, `LocationSync` and `Feedings`, and of the calendar search in the zone of the run; types of all |
| `Upkeep_proofs.tla` | types, the permission cache and the login limit |
| `PROJECT.json` | components, runs, mutants, the map to the source, hazards, findings |

A definition whose comment starts with *Seeded fault* is a plausible bug: it is used
only to show that a property would notice it, never by a specification.

## Inventory

### Scheduled messages

`services/scheduledmessage`, `repositories/scheduledmessage`, `domain/scheduledmessage`.

*State.* `scheduled_messages` (status, recurrence, start, next instant, mode) and
`scheduled_message_deliveries` (status, snapshot of the text, two attempt counters, next
attempt, lease token and end), unique per (schedule, scheduled_at). In memory, each
worker's copies of the two rows.

*Operations.* Create, Update, Cancel, Unsubscribe; ClaimDue, LoadClaimed,
ReserveGenerationAttempt, PersistGeneratedContent, ReserveDeliveryAttempt,
DispatchAndFinalize, RecordRetry, FinalizeOccurrence; BindCurrentGroup.

*Interaction.* A tick claims due rows under a lease and starts a goroutine per row. It
reads the claim without locks, may call the AI generator for up to its time-out, then
opens a transaction that locks space, schedule, delivery and target, **calls the bridge
while it holds the locks**, and finishes the occurrence in the same transaction.

*Hard.* Everything may change between the read and the write-back around an external
call; a lease may end during a call; a process may die after the bridge took the text
but before the commit; an update reuses or withdraws rows that a worker holds.

*Correct means.* One pending occurrence while active, none after; nothing leaves for
what has been withdrawn; every send is paid for by an attempt counted beforehand;
history never changes; what is due is decided.

### Recurrence calendar

`domain/scheduledmessage/recurrence.go`; no state. Skips whole periods from the start
date, then looks date by date for a wall-clock time that exists once. *Hard:* rounding
of the skip, local times that are missing or doubled. *Correct means:* the first future
occurrence, and an error only where the local time cannot be told.

### Due index of scheduled messages

`cache/scheduledmessage/redis_index.go` with the scheduler's loop. *State:* a sorted set
in Redis; in the process, a version, a count of mutations in flight and a degraded flag.
*Operations:* Upsert, Remove, HasDue, AllIDs, UpsertMany, RemoveMany, begin and finish
of a lifecycle mutation, ReconcileVersion, MarkReconciled. *Hard:* Redis and PostgreSQL
are written one after the other by many goroutines, and either write may fail.
*Correct means:* an index that is trusted misses no due row for longer than a
reconciliation, and a rebuilt one is believed only if nothing moved.

### Reminders, with their due index

`services/reminder`, `repositories/reminder`, `cache/reminder`. *State:* `reminders`
(status, time, replace key, notified and claim stamps); an index like the one above, with
a dirty and a reconciled version. *Operations:* Create, CreateReplacing, Complete, Update,
Delete; ClaimDueForNotification, MarkNotificationSent, ReleaseNotificationClaim.
*Interaction:* the send happens outside any transaction, between claim and mark. *Hard:*
an update, completion, deletion or replacement during a send; claims that go stale.
*Correct means:* one pending reminder per replace key, the latest; marked SENT only if
accepted; a due reminder is notified or withdrawn.

### Spaces, memberships, invitations

`services/space`, `services/invitation`, their repositories and the handlers of both.
*State:* `spaces`, `space_members`, `space_invitations`. *Operations:* create with owner,
update, archive, change a role, remove a member; invite, accept, revoke. *Hard:* the
services check the actor's membership outside the transaction that writes, so whoever was
an administrator at the check may be none at the write. *Correct means:* the founder stays
the one owner; a user has one row per space; an invitation lets in one person, once, while
it is open and its space is.

### Identity linking and onboarding

`services/identity`, `services/onboarding`, their repositories. *State:* `users`,
`external_identities`, `identity_link_tokens`. *Operations:* register from a chat, link by
a verified phone, issue and consume a code, revoke; registration on the web, edits and
deletion of accounts. *Hard:* the same code, name or phone used twice at the same time;
edits that save a whole row they read earlier. *Correct means:* a name leads to one account
at most, by one of three ways; a verified phone is one that was proven.

### Accounts, sessions, codes, password reset

`services/user`, `services/session`, `services/otp`, `services/reset`, their repositories,
`middlewares/auth.go`. *State:* the row of the user; in Redis a key per session, two per
pair of tokens, a set of sessions per user, codes with cooldowns and counters; a table of
revoked tokens. *Operations:* log in, refresh, log out, revoke sessions, change and reset
passwords, delete; send and verify codes. *Hard:* each operation is several Redis commands.
*Correct means:* a token is renewed once; an ended session stays ended; a code is compared
a bounded number of times, and so are mails sent.

### Roles, permissions and their cache

`services/role`, `services/permission`, `cache/permission`, `middlewares/auth.go`. *State:*
roles, permissions and their assignment, the user's role, a cache of permission keys with a
time to live, the role inside a token. *Hard:* a fill after an invalidation, assignments
that merge, a token older than the role. *Correct means:* the cache says what the tables
say unless it was overtaken, and in the end it does in any case.

### Limiters

`middlewares/rate_limiter.go`, `pkg/security/login_limiter.go`: counters in Redis that let
requests through when Redis does not answer. *Hard:* counting and giving the counter a time
to live are two commands. *Correct means:* wrong passwords are bounded, and a refusal ends.

### Location catalogue

`services/location`, `repositories/location`, `cache/location`. *State:* the table of jobs,
the lists, a cache of them, and in each process whether it is syncing. *Hard:* jobs started
at once, a process that dies in the middle of one, readers that cache what has changed.
*Correct means:* a process imports for one job at a time; the cache follows the table; a
job that died does not bar the next.

### Activities

`services/activity`, `domain/activity`, `repositories/activity`. *State:* `space_activities`
(kind, subject, note, details). *Operations:* create, update, delete, report what became of a
feeding. *Interaction:* an update and a report lock the row, then decide and write in the
same transaction. *Hard:* reports correct earlier ones, edits change the kind, the volume or
the subject in between, and the server rewrites the note only if it wrote the stored one.
*Correct means:* the amounts of a feeding add up after any sequence of these, a person's note
is kept, and the server's note says what the details say.

### Not modelled

| part | why |
|---|---|
| Media | one upload or deletion against an object store; I/O |
| Audit trail | appended by every service and read by administrators; nothing depends on it |
| Application configuration, menus | rows written one at a time; menus follow permissions and guard nothing |
| Scheduled message policy | a table of who may manage which schedule; a pure function |
| MCP server, identity envelope, Hermes plugin | parsing, routing and signatures; the tools that decide who may act are in `Membership` and `Identity` |
| HTTP routing, mailers, logger, filters, seeds, start-up checks | I/O and formatting |

Inside modelled components these are left out: the rules of the other kinds of activity, group chats bound to a space
(`group_space.go`, part of `ChangeTarget` in `ScheduledMessages`), registration through
Google of an account without a phone, `UpdateActivity` of sessions, paging and listing, and
all columns no decision reads.

## Plan

Written in this order: `Recurrence`, `ScheduledMessages` (which extends it), `DueIndex`,
`Reminders`, `ReminderIndex`, `Membership` over `Belonging`, `Identity` over `Directory`,
`Accounts`, `Codes`, `Access`, `Limiters`, `LocationSync`, `Feedings`, and proofs as listed above. What
would come next:

1. An abstract reminder (due, notified or withdrawn) that `Reminders` implements when
   nothing fails, and an abstract schedule for `ScheduledMessages`, both proved.
2. `Reminders` and `ReminderIndex` composed, instead of a claim at any time in the first
   and a batch of one in the second.

## The models

### Recurrence

Instants are ticks of UTC, a zone is a function from instants to offsets; dates and
wall-clock times are quotient and remainder of local time by `DayLength`. Each function
of `recurrence.go` is an operator. The unbounded search of the code is unfolded to three
dates, which the theorem `SearchEnds` justifies for every zone whose offsets never differ by
more than a day. A month-free calendar is enough: the rules are ONCE, DAILY and WEEKLY.

The run asks, in `MCRecurrence`, at every instant 0..75 of a calendar with six ticks a day and two changes of
the offset, of which the second, a setback, crosses midnight. What the code does there is
worth knowing: after such a setback it passes over the *second* showing of a local time
on the date before. `SearchIsRight` states that exception.

### ScheduledMessages

One schedule and its rows: no transaction of the code touches the rows of two schedules.
A row is named by its `scheduled_at`, as the table's unique constraint allows.

| model | code |
|---|---|
| `schedule`, `deliveries` | the two tables; `"ABSENT"` is a row not inserted yet |
| `pc[w]`, `job[w]` | where the worker of a process stands, and the copies it holds |
| `edit[e]` | what an update has computed from its unlocked read |
| `accepted` | texts the bridge has taken; no table knows this |
| `Locking`, `Unlocked` | the row locks of `DispatchAndFinalize`, held across the send |
| `Return(w)` | a worker returns; the lease stays in the row |
| `Abandon(w)` | a crash, a cancelled context, a failed statement or commit |
| `Tick`, `now` | one clock for all processes and the database |

A step is a transaction, an unlocked read, or the end of an external call. A worker is
one slot per process; its name is also the lease token, because a slot is idle when its
process claims again, so an old token is never held by a worker that is still at work.
`ClaimDue` is called with the tick that woke `RunOnce`, which may lag the clock
(`TickLag`), as a tick that waited in the ticker's channel does; leases then start
shortened. The copies in `job` are explicit because `RecordRetry` and the finishing steps
write them back. A due row can be claimed whatever the index says; the index is the
subject of `DueIndex`. All of target authorization is one flag, `targetValid`, which
anything may toggle except while a dispatch holds its share locks. Content is abstracted
to where it comes from: the schedule's text, a generated text, none yet.

Not modelled: PostgreSQL's re-evaluation of a join after a lock wait, the batch (each
row is independent), the wording of texts, listing, `BindCurrentGroup` but as a change
of target.

### DueIndex

The rows of one schedule, all past their time, so an entry's score is not kept. Every
lifecycle mutation is four kinds of step: begin, commit, one step per index entry
written, finish. `moved` stands for the version counter: it is true exactly when the
version differs from the one reconciliation read last, which is all `MarkReconciled` asks
of it. A write that fails may have been done. `Restart` forgets everything in memory and
leaves Redis as it is. A worker slower than its lease is counted as a fault.

### Reminders

The reminders of one space, of which `Keyed` share one replace key.

| model | code |
|---|---|
| `rows` | the table; `"ABSENT"` is a row not inserted yet, `deleted` is `deleted_at` |
| `claim` | `notification_claimed_at`: the tick `RunOnce` was called with |
| `pc[p]`, `batch[p]` | where the loop of `RunOnce` stands, what is left of its batch |
| `accepted` | notifications the bridge has taken; no table knows this |
| `creating[u]` | what a creation with a replace key has read |
| `deleting[u]` | the status `Delete` computed from its unlocked read |

Here the send is *outside* any transaction: claim, send, and mark or release are separate
steps, tied together by the stamp alone. Two processes may carry the same stamp, since
both tick; that is harmless only because no row is in two batches. `replaceOnce` is two
steps, for PostgreSQL chooses the rows of `SELECT ... FOR UPDATE` from a snapshot and then
waits for their locks: `ReadMatching` takes the snapshot, and the step that writes looks
again at each row it chose, while rows inserted meanwhile stay invisible until the
unique index refuses the insertion. A poll skips any subset of the rows such a
transaction may have locked. `Complete` and `Update` read the status and then write under
a guard that repeats the check, so the guarded write alone is the action; `Delete` has no
guard, so it is two steps. A write that is done although its answer is lost equals the
step that succeeds. `notified_at` is set together with SENT and is left out. Undeliverable
reminders are those for which no target is found; the set is fixed in an instance. The
index is left out: any process may poll at any time.

### ReminderIndex

Here the entries keep the time of each reminder, and there is no count of mutations in
flight: a process knows of its own failed commands (`degraded`) and of its own mutations
(`dirty`, which stands for two version counters), never of another's. `Create`, `Update`
and `Close` are the requests, with their index writes left in `writes` and done one at a
time by `WriteIndex`; `CheckDueSource`, `StartReconcile` and the steps of `Proceed` are the
loop. A mark that conflicts counts as delivered and removes the entry, as in the code.
A lease that ends under its owner (`LeaseExpires`) is a fault, as in `DueIndex`. A batch
is one reminder, for the order within a batch is a subject of `Reminders`.

### Membership

Every request is two or three steps: the tool or handler and the service read (who asks,
then which member or invitation), and one transaction writes. `req` is what was read. The
two writes to a member repeat only what their WHERE clauses repeat: id, space, ACTIVE.
Users are also their own Personal Spaces, since every user gets one with an owner's row;
only that row matters, because it lets its owner create shared spaces. A request that is
refused changes nothing and is no step. `Grants` is the permissions of the space roles,
which the migrations fill.

### Identity

`links` are the ACTIVE rows of `external_identities`; the unique indexes are conjuncts of
the writes. What a request reads first and its write tests again is read once, by the
write; what is *not* tested again is kept in `req`: the row an edit will save (`row`), the
name and code of a consumption, the account a phone led to. `proven` is a ghost: the phone
an account was registered from.

### Accounts

Tokens are numbered in pairs, a session by the pair it was created with. A pipeline of
Redis commands is one step, and two pipelines are two: `RotateRead` and `RotateTokens`,
`ReadSession` and `DeleteSession`. `SaveRow` models `Save` of gorm, which writes a row back
even if it has been deleted meanwhile. A refresh answers with a pair only if the insertion
into the table of revoked tokens succeeded (`LogoutUser`), and that is what makes a renewal
unique.

### Codes

One module for the two services over the same Redis commands; `purpose` says which. Each
command is a step, each may fail, and each key may lapse. `tries`, `mails` are ghosts that
count what the counters in Redis are to bound. A code that is gone and held by no request
may be drawn again. That a request does not outlive a counter it has just read is the
guard of `ExpireAttempts`: the counter lives for minutes.

### LocationSync

The catalogue's tree of regions is a sequence of lists, imported and cached one by one, and
a reader that finds a list empty imports it. The answer of the Location Service is chosen at
the write. `StartSync` reads the table, and the job is inserted and the flag of the process
taken in later steps (`CreateSyncJob`, `CompareAndSwap`), so that jobs started at once meet.
`Crash` forgets goroutines, and `Start` marks queued and running jobs as failed, all of
them, as `main.go` does, also those of processes that are alive.

### Access

What one user may do: `PermissionMiddleware` reads the role in the token, then the cache,
then the tables (`Check`, `GetUserPermissions`, `GetRolePermissions`, `SetUserPermissionKeys`
are separate steps). Changes of roles, permissions and assignments write and then empty the
cache. Two `AssignPermissions` may merge, since each deletes what it sees. Ghost `overtaken`:
something was written after what it was computed from had changed, or the cache was not
emptied when it should have been.

### Limiters

`INCR`, and `EXPIRE` only after a count of one, are separate steps, and so are asking the
limiter, trying the password and counting the failure. `guesses` is a ghost: wrong passwords
tried since the last block, lapse or success.

### Feedings

One row; every request is one step, since updates and reports hold its lock and a deletion is
one UPDATE. Amounts are small numbers, and the note is what it says: a record of the fields
`FeedingNote` prints, or `Nil` for a note a person gave, taken to differ from any the server would write. Who may send a request, the times by
which a report finds its feeding, and the time stamp of a report are left out. `written` and
`strayed` are ghosts: the last note given was a person's, and the row was edited while it was of
another kind. Such an edit does not rewrite the note, and once the row is a feeding again the
note is no longer recognised as the server's, so it stays as it was, although
`handlers/mcp/activity.go:25` tells clients that the server "keeps updating the note".

### Composition

`ScheduledMessages` extends `Recurrence`. `MCIndexes`, `MCComponents` and `MCUpkeep` put
modules side by side that keep no state in common: the initial state picks one, and a step
is a step of that one, so the states are the sum and not the product. The others stand
still; where there is fairness they stand in a state (`Off`) in which nothing it speaks of
is enabled, so that each part runs under exactly its own fairness. Properties speak of the
part that was picked (`part`), or hold of one that stands still.

## Runs

| run | properties | instance |
|---|---|---|
| `ScheduledMessages_safety` | `TypeOK`, `OneOutstandingOccurrence`, `ClaimedCopyIsCurrent`, `AttemptsCoverSends`, `LeaseOutlivesSend`, `OneSenderAtATime`, `SendsOnlyWhileLive`, `HistoryIsFinal` | 2 processes, 1 update, 1 fault, AI mode, DAILY |
| `ScheduledMessages_liveness` | `DueIsDecided`, `SkippedAfterWholeBudget` | 1 process, both modes and two rules, 2 attempts each, 1 fault |
| `ScheduledMessages_resend` | `AcceptedOnceWithoutFaults`, violated | 1 process, no fault needed |
| `ScheduledMessages_archive` | `InvalidTargetIsCancelled`, violated | 1 process |
| `Indexes` | `TypesOK`, `ReconciledIndexIsExact`, `DueRowsAreClaimed`, `TrustReturns`, `QuietReconciliationIsExact`, `OverdueIsDealtWith` | messages: 2 rows, 1 request at a time, 2 faults; reminders: 2 of them, 2 times, 2 requests, 1 process, 1 fault |
| `Reminders_delivery` | `TypeOK`, `RepeatsNeedFaults`, `HistoryMovesForward`, `DueIsNotified` | 2 processes, 2 reminders, 1 without target, 1 deletion, 1 change, 1 fault |
| `Reminders_replace` | `LatestWins` | 1 process, 3 reminders of one key, 2 creations at once, 1 deletion, 1 change, 1 fault |
| `Reminders_starved` | `DueIsNotified`, violated | 1 process, a batch of 1, no faults |
| `Reminders_reschedule` | `SentWasDue`, violated | 1 process, 1 change, no faults |
| `Membership` | `TypeOK`, `FounderGoverns`, `OneRowPerUser`, `InvitationsKeepTheirWord` | 3 users, 1 shared space, 3 rows, 2 invitations, 2 requests at once, 1 deletion |
| `Components` | `TypesOK` of all, `SearchIsRight`; `RenewedOnce`, `EndedForGood`; `VerifiedMeansProven`, `LinksLeadToOneAccount`; `BothBounded`; `CacheFollowsTable`, `NobodyWaitsInVain`; `FeedingsAddUp` | 2 requests at once; 3 pairs of tokens; 2 names, phones and users, 1 link code; 2 codes, 2 attempts; 2 processes, 2 jobs, 1 list, 1 reader, 1 fault; 8 starts, 2 rules, 76 instants; 2 subjects, amounts to 2 |
| `Upkeep` | `TypesOK`, `CacheIsCurrent`, `EntitledInTheEnd`; `GuessesBounded`, `RefusedForATime` | 2 requests at once; 3 roles, 2 permissions, 2 changes; limits of 2 |

**Safety of scheduled messages.** `OneOutstandingOccurrence`: an active schedule has one
pending row, the one `next_scheduled_at` names, and an ended one none.
`ClaimedCopyIsCurrent`: while a row carries a worker's token, the worker's copies are
current. `SendsOnlyWhileLive`: when a text leaves, schedule, space, target and lease are
good and the text is the row's. `OneSenderAtATime`, `LeaseOutlivesSend`: no two sends at
once, and no lease ends under one. `AttemptsCoverSends`: texts taken never exceed
attempts counted, nor those the budget. `HistoryIsFinal`: SENT, SKIPPED and FAILED rows
and ended schedules never change. `SkippedAfterWholeBudget`: SKIPPED only after all
generation attempts. `SearchIsRight`: the calendar search finds the next occurrence, gives
up only where the local time cannot be told, and finds the same one until it has passed.

**Reminders.** `RepeatsNeedFaults`: notifications of a reminder exceed one by the number
of failures at most. `HistoryMovesForward`: what users see of a reminder never goes back,
however late a mark, a release or a deletion comes. `LatestWins`: a creation with a
replace key that succeeds leaves one pending reminder of the key, the latest there was,
whatever its snapshot showed. `DueIsNotified`: a due reminder with a target is notified,
completed, withdrawn or moved.

**Indexes.** `ReconciledIndexIsExact`: at the moment the index of messages is believed again
it holds exactly the pending rows. `QuietReconciliationIsExact` is as much as can be said of
reminders: exact if nothing moved during the reconciliation. `DueRowsAreClaimed`,
`OverdueIsDealtWith`: whatever entries were lost, written late or hidden, in the end every
due row is claimed and every overdue reminder sent, closed or put off. `TrustReturns`: the
index is believed again once requests stop.

**Membership.** `FounderGoverns`, `OneRowPerUser`: see `Membership.tla`.
`InvitationsKeepTheirWord` is the specification of `Belonging` as a property: every step
of the tables is founding, closing, offering, joining, withdrawing or leaving, or
nothing. What it does *not* promise, since the code does not: that the actor of a write is
still an administrator when it is done.

**Accounts, Identity, Codes, LocationSync, Feedings.** `RenewedOnce`: of refreshes with one token at
most one is answered with a pair. `EndedForGood`: a session that has ended comes back only
by a refresh that had read it before.
`LinksLeadToOneAccount` is the specification of `Directory`.
`VerifiedMeansProven`: no overlap of edits marks a phone verified in another account than the
one registered from it. `BothBounded`: attempts at a code and mails exceed their limits by no
more than the requests that run at once allow. `CacheFollowsTable`, `NobodyWaitsInVain`: the
catalogue's cache says what the table says unless overtaken, and a job that others wait for
is worked on, or will be failed by a start. `TypesOK` also says that a process imports for
one job at a time, and exactly while `syncing` is set. `FeedingsAddUp`: through any sequence of
reports, corrections and edits, what expired is no more than what was left and no more than what
was prepared, an open feeding has no expired amount, and notes are kept or rewritten as above.

**Access, Limiters.** `CacheIsCurrent`, `EntitledInTheEnd`: what is cached is what the tables
say unless overtaken, and whatever happened, in the end a user may do what the tables say.
`GuessesBounded`: wrong passwords exceed the limit by the requests under way at most, while
Redis answers. `RefusedForATime`: no refusal lasts for ever, while Redis answers: a counter
whose `EXPIRE` is lost stays, which the code accepts and the property leaves out.

**Bounds.** A day is four ticks, so that the next occurrence of a DAILY rule falls within
the clock (`MaxTime`) and can itself be claimed; the lease is three, longer than both
time-outs together, as the configuration check demands, and short enough to run out
under a slow worker. One fault and one update suffice for every pair of them to meet in
any order; two processes for a takeover during a call. The clock stops at `MaxTime`, hence
`CHECK_DEADLOCK FALSE` there. `DecidedBy` keeps occurrences out of `DueIsDecided` that
the stopped clock leaves no time for. In the liveness run the day is ten ticks, so that
one occurrence can use up its retries before the next begins. In the runs of `Reminders`
the lease is one tick and the clock has two to four, so that a claim can be taken before,
while and after another goes stale; two processes suffice for a takeover, two creations
after a third for a snapshot that is overtaken, and one fault and one change to meet any of
these. The clock must stop there too; a reminder is due at its second tick at the latest and
faults end with `FaultsUntil`, which leaves time for a takeover and a send in `DueIsNotified`.
`DueIndex` is finite without bounds, but for the faults; `ReminderIndex` takes two requests
in all, so that two writes come out of order, or one is overwritten by a reconciliation,
and one fault.

The clock of `MCRecurrence` ends more than three weeks behind the last question
(`SearchAssumption`), so that no date the search may look at is missing from it.

`Feedings` needs no bound but its amounts: 0, 1 and 2 are all orders of three amounts, and two
subjects are one change.

Elsewhere two requests at once are every race of two, and requests follow one another
without end but where ids run out: three pairs of tokens for a login and two refreshes,
three member rows for a founder and two who join, `MaxChanges` of two for one change that
overtakes another. `MaxTries` (five) is above what `BothBounded` allows (four), so it hides
nothing. `LocationSync` has one list: a reader, an import and a cache key concern one list
each, and jobs of one list and of all still differ. When ids are used up the system may
stop, hence `CHECK_DEADLOCK FALSE` in every run. Symmetry is used only in runs without
temporal properties with fairness.

**Fairness.** `ScheduledMessages`: time passes, and each process keeps claiming and its
calls return (`WF` of `Tick`, `ClaimDue`, `Step`); the ticker and the time-outs of both
clients justify it. Claims of the real loop also depend on the index; what that adds is
`DueRowsAreClaimed`. `Prompt` says that a worker's own steps are fast against the clock:
a worker that always overruns its lease never finishes anything, in the code too.
`DueIndex`, `ReminderIndex`: every call returns, leases end; the checks and reconciliations
are strongly fair because Go's `select` picks at random among tickers that are ready.
Requests are never forced, but their index writes, once begun, return. `Reminders`: time
passes, calls return, and polls that are not late and skip no locked row recur (`SF`),
because row locks are held for three statements and ticks that waited for a batch are
followed by ticks that did not. Its `Prompt` is an *assumption*, not a consequence of the
code: `pkg/config/reminder_scheduler.go` does not relate the lease (2 minutes) to a batch of
50 calls of up to 10 seconds. Without it two processes may notify of one reminder without any
failure, which `README.md:215` allows. `Access`, `Limiters`: a request under way ends, and
keys and tokens with a time to live lapse; Redis and the `exp` of a token do that.

## Findings

1. **A text accepted once is sent again without any fault** (`ScheduledMessages_resend`).
   Moving `start_at` of a DAILY message from tomorrow to today at the same time leaves a
   CANCELLED row at tomorrow's instant. After today's send the insertion of tomorrow's
   occurrence meets it, the transaction is rolled back with the text out, and the text is
   resent after each lease expiry until the budget is spent.
2. **An archived space's messages cannot be cancelled by the worker**
   (`ScheduledMessages_archive`). Archiving also sets `deleted_at`, and the
   cancellation looks for a space that is not deleted.
3. **Undeliverable reminders can starve all others** (`Reminders_starved`). A reminder
   without a target is released at once and, being the oldest, is claimed first at the next
   poll. As many of them as a batch holds stop all later reminders.
4. **A reminder moved during its send never fires at its new time**
   (`Reminders_reschedule`). The change keeps the claim, and the mark asks for the claim
   and not for the time.

`PROJECT.json` quotes the tests and documentation each one contradicts.

What the models show besides, without a run of its own:

- An index of messages that is believed can miss a due row until the hourly reconciliation,
  although no write failed: index writes are not ordered like the transactions they follow.
  `DueRowsAreClaimed` is what remains true.
- A registration that is repeated after it succeeded is refused or answered according to
  what the repetition finds (`onboarding/repository.go:87-115`); `README.md:697-698` calls it
  idempotent. `Create` of `Identity` has both outcomes.
- A password reset ends every session its user's list shows. A refresh that had read its
  session before brings that one back, outside the list (`Rotating` in `EndedForGood`).
- Saving a whole row brings back a deleted account's row (`Save` in `Accounts`, `Identity`).

## Proofs

Every safety invariant and every action property that a passing run checks is stated by a
theorem, for every value of the constants that the named assumptions allow. What the runs
show of two processes holds of any number of them, of any budgets, time-outs, leases and
limits, and of any zone whose offsets never differ by more than a day. Each group below names its inductive invariant and says why the property alone is
not enough; TLC checked each on a run before it was proved.

*Calendar.* `SearchEnds`: the date two days after the day of "after" decides the search,
since its local time lies ahead of every setback. `SearchFindsTheNextOne` says what it
decides (`IsNext`, `IsGivenUp`), by the reference definitions of `Recurrence`:
what is found is the first instant ahead that is the only one to show start's local time on a
named date from today on, and the search gives up only at a date whose local time is missing
or exists twice. `MatchShows` relates the code's list of matches to showings, `NamedDates`
its step count to the dates a rule names, and `LaterDateLater` orders instants by date.
`SearchesAreRight` adds what the general theorem leaves open, occurrences ahead on a date
*before* today: in the zone of `MCRecurrence` only the last tick before a setback across
midnight sees one, and it shows its time for the second time (`AcrossMidnight`). It holds
of any starts and any length of the day; `Recurrence_proofs` is instantiated for it.

*Inductive invariant.* `OneOutstandingOccurrence` alone is not inductive: `RecordRetry`
writes a worker's copy of the schedule back, and keeps one pending row only if the copy
is current. So `IInv` is the type invariant, `OneOutstandingOccurrence` and
`ClaimedCopyIsCurrent` together. Copies stay current because every request that changes a
row takes its token away, and every other write goes through the row's own token. In
turn an update's read of `next_scheduled_at` is well typed only because an active
schedule has a next instant. There is one lemma per action (`ClaimDueStep`,
`RecordRetryStep`, ...), and lemmas on what a move, a write to one's own row and a
request keep; the theorems are `TypeCorrect`, `OneOutstanding` and `CopiesAreCurrent`.

*What a send relies on.* `SInv` strengthens `IInv` by what is true around the call of the
bridge. `LeaseShape`: only a pending row has a token, and then the lease has an end.
`SenderHolds`: a worker inside `DispatchAndFinalize` owns its row, and its lease ends after
the bridge's deadline. This needs `ClaimedCopyIsCurrent`, because the lease check reads the
worker's copy, and that time stops at the deadline of a call. `Paid`: a worker on its way
to the bridge has paid for one text more than were taken. It survives a step only because
no step but a claim writes a token (`TokenKept`), so that whoever holds a row after a step
held it before. `StepKept` says what any step may do to the two tables. From `SInv` follow
`OneSender`, `LeaseOutlives`, `BudgetCoversSends` and, as action properties, `LiveSends`
and `FinalHistory`. The budget holds for lost answers and rolled-back finalizations
too: they are steps of the specification proved about. `SkipsSpendTheBudget` adds
`GaveUpSpent`: where there is a generator at all, a worker that gives up on a text has the
whole budget on its copy, and the copy is the row's by `ClaimedCopyIsCurrent`.

*Reminders.* With `ReminderAssumption` alone, for any number of processes, creations,
deletions and reminders. `RInv` adds to the types that the id of a creation is its own and
not inserted yet, that a deletion has decided a status that is not PENDING, so that no
deletion revives a row, and that one row of the key is pending (`OnePendingPerKey`).
`RowsMove` says what any step may do to a row: nothing, insert it, or take it forward.
From these follow `TypeCorrect`, `MovesForward` and `LatestReminderWins`; the last needs
`OnePendingPerKey` where a later reminder is kept, and the unique index where one is
written. `HInv` adds what `RepeatsOnlyAfterFaults` needs: batches are disjoint and hold no
reminder twice, a pending row in a batch carries its stamp, which `Prompt` keeps from going
stale, and of what may still be sent, all but the one that waits for its mark has been
sent once per failure at most (`Budget`). `ClaimHands` is the heart: a poll takes nothing
that is in another batch, because its stamp is not older than the lease.

*Due index.* `DInv` adds to the types that the count in flight is that of the mutations
begun (`CountIsRight`, by the theorems on cardinalities), that a schedule has one pending row
at most, and `ReadIsCurrent`: as long as nothing has moved and nothing is in flight, what
reconciliation has read from the index and the table, and what it has written since, is
still so. At its last step that is exactness.

*Reminder index.* `RiInv` says as much of each process by itself: as long as nothing
has disturbed its reconciliation, what it has read of index and table is still so
(`ReadIsStill`), up to the entries it has yet to remove. Any number of processes reconcile
at once, so every write of one must be shown to disturb the others.

*Membership.* `MInv` adds to the types that rows belong to spaces that exist and that what a
request has read is still good for its write (`RequestsAreSound`): the rows exist, and a
member that was checked is no owner, which lasts because nobody becomes an owner (`Grows`).
`FoundersGovern` and `MembersHaveOneRow` follow, by what a founding, an acceptance and a
change do to the rows (`Founding`, `Accepting`, `Changing`). `MembershipKeepsItsWord` maps
each action to one of `Belonging` and the rest to stutters; it needs the invariant: who
leaves has a row that is not an owner's, and so is not the founder, who has one row only.

*Accounts.* To the types it adds that tokens lead to sessions issued before, and what each
request must have read by its step. `RenewalIsUnique` rests on `RenewedAreRevoked`: a token that
was exchanged is in the table of revoked tokens, which refuses it a second time.
`SessionsEndForGood` and `LoginsAreListed` look at the steps that write a session; the
latter is that a living session the user's list misses was written by a refresh
(`UnlistedWereRenewed`), whatever is destroyed at the same time.

*Identity.* `IdInv` adds to the types that each request's next write is right
(`IdRequestsAreSound`: a row to be saved is verified only with the phone its account was
registered from, a code to be spent was issued) and that a name leads to one account.
`VerifiedPhonesAreProven` is inductive with it because accounts, proven phones and codes stay
(`IdGrows`). `NamesLeadToOneAccount` maps each action to one of `Directory` or to a stutter:
a link by phone is its `Recognise` because the request's account is proven to have the phone.

*Feedings.* `FdInv` extends what `FeedingsAddUp` says of notes from feedings to rows of any
kind, since a row may become a feeding, and keeps the outcome with the amount expired.

*Location catalogue.* `OneImport` ties `syncing` to the one job that set it, which the types
count. `JobsEnd` adds that a job without a row refuses nobody. `ReadsAreFresh`: what a
reader will cache is the table's, unless an import came between, which `stale` records.

*Codes.* Both bounds are not inductive by far: they count requests. `MailsLeft` counts the
requests that may still mail, `TriesLeft` those that may still compare, forget or delete:
each attempt is counted, or was forgotten by one of the other requests, or is the last and
will be followed by a deletion. The arithmetic is by the theorems on cardinalities.

*Access and Limiters.* `AInv` adds what a reader has read is still so unless it is `stale`,
and that only a role whose row exists has grants, so that creating a role takes nothing
away. `GuessesAreCounted`: every guess is an attempt counted below the limit, or that of a
request that has yet to count, block or clear.

*Components together.* `TypesCorrect` and `ComponentTypes` are about the specifications
the runs check: each part's invariant is kept by its own steps and by those of the others.

*What the proofs changed.* In `Limiters` and `Access` guards of a CASE overlapped, so that
TLA+ leaves open which branch is taken and TLC takes the first; the proofs could not go
through, and the guards are now in the order of the code. `ReminderIndex` assumed
nothing of the finiteness of its times. Nothing in the code was found wrong this way.

*Assumptions.* Everything above follows from the named assumptions on the constants, which
TLC evaluates in the runs: `CalendarAssumption`, `ConfigAssumption` (what the configuration
check of the scheduler demands), `ReminderAssumption`, `IndexAssumption`, `ReminderBounds`,
those of `Membership` and `Accounts`, `IdentityBounds`, `CodesBounds`, `LocationBounds`,
`FeedingBounds`, `CalendarBounds`, `AccessAssumption`, `NilIsNoRequest` and
`LimitersBounds`. They say that `Nil` is none of the values it stands beside, that limits are
positive, that sets that are counted are finite, and that ids are numbered where the model
orders them.
`RepeatsOnlyAfterFaults` alone has an assumption about timing, `Prompt`, in its property.

*Left to TLC.* Everything temporal with fairness (`DueIsDecided`, `DueRowsAreClaimed`,
`TrustReturns`, `DueIsNotified`, `OverdueIsDealtWith`, `EntitledInTheEnd`,
`RefusedForATime`), because liveness and ENABLED are out of the prover's reach.
The four properties that are violated have no theorem, of course.
