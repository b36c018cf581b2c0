------------------------------- MODULE Accounts -------------------------------
(***************************************************************************)
(* One person's account and login sessions: the row of users, the session  *)
(* keys in Redis and the table of revoked tokens, and the handlers that    *)
(* log in, refresh, log out, revoke sessions, change or reset a password,  *)
(* edit and delete the account.  Of the row only whether it is deleted     *)
(* matters here: every password is taken to be the right one.              *)
(*                                                                         *)
(* An access and a refresh token are issued together and numbered as a     *)
(* pair; a session has the number of the pair it was created with.  A      *)
(* pipeline of Redis commands is one step.  No token or session expires    *)
(* here: each pair is used well within its time.                           *)
(***************************************************************************)
EXTENDS Integers, FiniteSets

CONSTANTS
    MaxPairs,       \* pairs of tokens issued at most
    MaxDeletions,   \* deletions of the account at most
    Requests,       \* requests in progress at one time
    Nil

Pairs == 1..MaxPairs
Kinds == {"access", "refresh"}

ASSUME Bounds == MaxPairs \in Nat /\ MaxDeletions \in Nat
ASSUME NilIsNothing == Nil \notin Pairs

VARIABLES
    deleted,        \* whether the row of users is soft-deleted
    deletions,      \* deletions so far
    sessions,       \* the pair in session:<id>, or Nil
    listed,         \* the set user_sessions:<user>
    owner,          \* the session the two token keys of a pair name, or Nil
    blacklist,      \* tokens in the table of revoked tokens
    issued,         \* pairs issued so far
    known,          \* pairs a client was given
    renewals,       \* the pairs that were given in exchange for a pair
    req             \* what each request has read, or Nil

redis == <<sessions, listed, owner>>
table == <<deleted, deletions>>
clients == <<issued, known, renewals>>
vars == <<table, redis, blacklist, clients, req>>

Request == [ op : {"login", "edit", "reset", "refresh", "revoke", "others", "logout"},
             at : {"save", "session", "list", "find", "rotate", "spend",
                   "destroy", "delete"},
             pair : Pairs \union {Nil},          \* whose token it was sent
             new : Pairs \union {Nil},           \* the pair it has issued
             session : Pairs \union {Nil},       \* the session it works on
             old : Pairs \union {Nil},           \* and the pair it read there
             todo : SUBSET Pairs ]               \* sessions still to destroy

-----------------------------------------------------------------------------
(* Steps of a request *)

Blank(op, at) ==
    [ op |-> op, at |-> at, pair |-> Nil, new |-> Nil,
      session |-> Nil, old |-> Nil, todo |-> {} ]

Begin(r, q) == req[r] = Nil /\ req' = [ req EXCEPT ![r] = q ]
Move(r, q) == req' = [ req EXCEPT ![r] = q ]
Finish(r) == req' = [ req EXCEPT ![r] = Nil ]
At(r, at) == req[r] # Nil /\ req[r].at = at

Issue(t) == t = issued + 1 /\ t \in Pairs /\ issued' = t

Alive == { s \in Pairs : sessions[s] # Nil }

\* The middleware lets an access token pass that is not revoked.
Authenticated(t) == t \in known /\ <<"access", t>> \notin blacklist

-----------------------------------------------------------------------------
(* The row *)

\* UserRepo.Update writes the whole row as it was read, by Save: should it
\* match no row that is not deleted, gorm inserts the row again.
Save == deleted' = FALSE

\* LoginUser and LoginWithGoogle read the row, compare what was sent, and save
\* the row with the time of the login; the profile, the role and the password
\* are edited, and a password is reset, in the same way.
LoginUser(r) ==
    /\ ~ deleted
    /\ Begin(r, Blank("login", "save"))
    /\ UNCHANGED <<table, redis, blacklist, clients>>

Update(r, t) ==
    /\ Authenticated(t) /\ ~ deleted
    /\ Begin(r, Blank("edit", "save"))
    /\ UNCHANGED <<table, redis, blacklist, clients>>

\* Whoever has a reset token.  That it is used once is the subject of Codes.
ResetPassword(r) ==
    /\ ~ deleted
    /\ Begin(r, Blank("reset", "save"))
    /\ UNCHANGED <<table, redis, blacklist, clients>>

SaveRow(r) ==
    LET q == req[r]
    IN  /\ At(r, "save")
        /\ Save
        /\ CASE q.op = "login" -> Move(r, [ q EXCEPT !.at = "session" ])
             [] q.op = "reset" -> Move(r, [ q EXCEPT !.at = "list" ])
             [] OTHER -> Finish(r)
        /\ UNCHANGED <<deletions, redis, blacklist, clients>>

\* Deleting an account leaves its sessions and tokens alone.
Delete ==
    /\ ~ deleted /\ deletions < MaxDeletions
    /\ deleted' = TRUE
    /\ deletions' = deletions + 1
    /\ UNCHANGED <<redis, blacklist, clients, req>>

-----------------------------------------------------------------------------
(* Sessions *)

Create(t) ==
    /\ sessions' = [ sessions EXCEPT ![t] = t ]
    /\ listed' = listed \union {t}
    /\ owner' = [ owner EXCEPT ![t] = t ]

\* The login answers with a pair whether or not its session could be created.
CreateSession(r, t) ==
    /\ At(r, "session") /\ Issue(t)
    /\ Create(t)
    /\ known' = known \union {t}
    /\ Finish(r)
    /\ UNCHANGED <<table, blacklist, renewals>>

LoginWithoutSession(r, t) ==
    /\ At(r, "session") /\ Issue(t)
    /\ known' = known \union {t}
    /\ Finish(r)
    /\ UNCHANGED <<table, redis, blacklist, renewals>>

\* The refresh token must not be revoked, its user must exist, and its key must
\* lead to a session.
RefreshToken(r, t) ==
    /\ t \in known /\ <<"refresh", t>> \notin blacklist
    /\ ~ deleted
    /\ owner[t] # Nil /\ sessions[owner[t]] # Nil
    /\ Begin(r, [ Blank("refresh", "find") EXCEPT
                    !.pair = t, !.session = owner[t] ])
    /\ UNCHANGED <<table, redis, blacklist, clients>>

\* RotateTokens reads the session again, and then writes.
RotateRead(r) ==
    LET q == req[r]
    IN  /\ At(r, "find")
        /\ IF sessions[q.session] = Nil THEN Finish(r)
           ELSE Move(r, [ q EXCEPT !.at = "rotate", !.old = sessions[q.session] ])
        /\ UNCHANGED <<table, redis, blacklist, clients>>

\* Seeded fault: the session is rotated as it was when the refresh began.
RotateAsFound(r, t) ==
    LET q == req[r]
    IN  /\ At(r, "find") /\ Issue(t)
        /\ sessions' = [ sessions EXCEPT ![q.session] = t ]
        /\ owner' = [ owner EXCEPT ![q.pair] = Nil, ![t] = q.session ]
        /\ Move(r, [ q EXCEPT !.at = "spend", !.new = t ])
        /\ UNCHANGED <<table, listed, blacklist, known, renewals>>

RotateTokens(r, t) ==
    LET q == req[r]
    IN  /\ At(r, "rotate") /\ Issue(t)
        /\ sessions' = [ sessions EXCEPT ![q.session] = t ]
        /\ owner' = [ owner EXCEPT ![q.old] = Nil, ![t] = q.session ]
        /\ Move(r, [ q EXCEPT !.at = "spend", !.new = t, !.old = Nil ])
        /\ UNCHANGED <<table, listed, blacklist, known, renewals>>

\* Seeded fault: a token that is revoked already may be revoked again.
LogoutAgain(token) == blacklist' = blacklist \union {token}

\* LogoutUser inserts the token, which the table keeps unique.
LogoutUser(token) == token \notin blacklist /\ blacklist' = blacklist \union {token}

\* The old token is revoked, and the new pair answered.
Spend(r) ==
    LET q == req[r]
    IN  /\ At(r, "spend")
        /\ LogoutUser(<<"refresh", q.pair>>)
        /\ known' = known \union {q.new}
        /\ renewals' = [ renewals EXCEPT ![q.pair] = @ \union {q.new} ]
        /\ Finish(r)
        /\ UNCHANGED <<table, redis, issued>>

-----------------------------------------------------------------------------
(* Sessions are destroyed: one, all but the current one, all of a user, or   *)
(* the one a token belongs to.                                               *)

RevokeSession(r, t, s) ==
    /\ Authenticated(t) /\ sessions[s] # Nil
    /\ Begin(r, [ Blank("revoke", "destroy") EXCEPT !.todo = {s} ])
    /\ UNCHANGED <<table, redis, blacklist, clients>>

RevokeAllOtherSessions(r, t) ==
    /\ Authenticated(t)
    /\ owner[t] # Nil /\ sessions[owner[t]] # Nil
    /\ Begin(r, [ Blank("others", "list") EXCEPT !.session = owner[t] ])
    /\ UNCHANGED <<table, redis, blacklist, clients>>

Logout(r, t) ==
    /\ Authenticated(t)
    /\ Begin(r, [ Blank("logout", "destroy") EXCEPT
                    !.pair = t,
                    !.todo = IF owner[t] # Nil /\ sessions[owner[t]] # Nil
                             THEN {owner[t]} ELSE {} ])
    /\ UNCHANGED <<table, redis, blacklist, clients>>

\* GetByUserID drops from the set what has no session.
ListSessions(r) ==
    LET q == req[r]
    IN  /\ At(r, "list")
        /\ listed' = listed \intersect Alive
        /\ Move(r, [ q EXCEPT !.at = "destroy", !.session = Nil,
                              !.todo = (listed \intersect Alive) \ {q.session} ])
        /\ UNCHANGED <<table, sessions, owner, blacklist, clients>>

\* Delete reads the session, and then deletes its keys.
ReadSession(r, s) ==
    LET q == req[r]
    IN  /\ At(r, "destroy") /\ s \in q.todo
        /\ IF sessions[s] = Nil
           THEN Move(r, [ q EXCEPT !.todo = @ \ {s} ])
           ELSE Move(r, [ q EXCEPT !.at = "delete", !.session = s,
                                   !.old = sessions[s], !.todo = @ \ {s} ])
        /\ UNCHANGED <<table, redis, blacklist, clients>>

DeleteSession(r) ==
    LET q == req[r]
    IN  /\ At(r, "delete")
        /\ sessions' = [ sessions EXCEPT ![q.session] = Nil ]
        /\ listed' = listed \ {q.session}
        /\ owner' = [ owner EXCEPT ![q.old] = Nil ]
        /\ Move(r, [ q EXCEPT !.at = "destroy", !.session = Nil, !.old = Nil ])
        /\ UNCHANGED <<table, blacklist, clients>>

\* Nothing is left to destroy.
Destroyed(r) ==
    /\ At(r, "destroy") /\ req[r].todo = {} /\ req[r].op # "logout"
    /\ Finish(r)
    /\ UNCHANGED <<table, redis, blacklist, clients>>

\* A logout also revokes the access token.
LoggedOut(r) ==
    /\ At(r, "destroy") /\ req[r].todo = {} /\ req[r].op = "logout"
    /\ LogoutUser(<<"access", req[r].pair>>)
    /\ Finish(r)
    /\ UNCHANGED <<table, redis, clients>>

\* Any call may fail, or the process die, and what is left is not done.
Fail(r) ==
    /\ req[r] # Nil
    /\ Finish(r)
    /\ UNCHANGED <<table, redis, blacklist, clients>>

-----------------------------------------------------------------------------
Init ==
    /\ deleted = FALSE
    /\ deletions = 0
    /\ sessions = [ s \in Pairs |-> Nil ]
    /\ listed = {}
    /\ owner = [ t \in Pairs |-> Nil ]
    /\ blacklist = {}
    /\ issued = 0
    /\ known = {}
    /\ renewals = [ t \in Pairs |-> {} ]
    /\ req = [ r \in Requests |-> Nil ]

Next ==
    \/ \E r \in Requests :
         \/ LoginUser(r)
         \/ \E t \in Pairs : Update(r, t)
         \/ ResetPassword(r)
         \/ SaveRow(r)
         \/ \E t \in Pairs : CreateSession(r, t)
         \/ \E t \in Pairs : LoginWithoutSession(r, t)
         \/ \E t \in Pairs : RefreshToken(r, t)
         \/ RotateRead(r)
         \/ \E t \in Pairs : RotateTokens(r, t)
         \/ Spend(r)
         \/ \E t \in Pairs, s \in Pairs : RevokeSession(r, t, s)
         \/ \E t \in Pairs : RevokeAllOtherSessions(r, t)
         \/ \E t \in Pairs : Logout(r, t)
         \/ ListSessions(r)
         \/ \E s \in Pairs : ReadSession(r, s)
         \/ DeleteSession(r)
         \/ Destroyed(r)
         \/ LoggedOut(r)
         \/ Fail(r)
    \/ Delete

Spec == Init /\ [][Next]_vars

-----------------------------------------------------------------------------
(* Properties *)

\* Every variable has its type.
TypeOK ==
    /\ deleted \in BOOLEAN
    /\ deletions \in 0..MaxDeletions
    /\ sessions \in [ Pairs -> Pairs \union {Nil} ]
    /\ listed \subseteq Pairs
    /\ owner \in [ Pairs -> Pairs \union {Nil} ]
    /\ blacklist \subseteq Kinds \X Pairs
    /\ issued \in 0..MaxPairs
    /\ known \subseteq 1..issued
    /\ renewals \in [ Pairs -> SUBSET known ]
    /\ req \in [ Requests -> Request \union {Nil} ]

\* However many refreshes with one token run at once, each after its own check
\* that the token is not revoked, at most one is answered with a new pair.
RenewedOnce == \A t \in Pairs : Cardinality(renewals[t]) <= 1

\* Rotating(s): a refresh has read session s and is about to write it.
Rotating(s) ==
    \E r \in Requests : At(r, "rotate") /\ req[r].session = s

\* A session ends for good, unless a refresh had read it before it was deleted:
\* RotateTokens and Delete read the session, and then write without looking.
EndedForGood ==
    [][ \A s \in Pairs :
          sessions[s] = Nil /\ s <= issued /\ ~ Rotating(s) => sessions'[s] = Nil ]_vars

\* A session that is alive and not in the user's list, which a reset would miss
\* as well, was written by a refresh, never by a login.
UnlistedWereRenewed ==
    \A s \in Pairs : sessions[s] # Nil /\ s \notin listed => sessions[s] # s
=============================================================================
