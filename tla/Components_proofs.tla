------------------------- MODULE Components_proofs --------------------------
(* Proofs about Accounts, Identity, Feedings, LocationSync, Codes and the search
   of Recurrence in the zone of MCRecurrence, and the types of all of them.     *)
EXTENDS MCComponents, FiniteSetTheorems, TLAPS

-----------------------------------------------------------------------------
(* Accounts: the invariant *)

Ops == {"login", "edit", "reset", "refresh", "revoke", "others", "logout"}
Ats == {"save", "session", "list", "find", "rotate", "spend", "destroy", "delete"}

\* A refresh works on a session issued before, and on behalf of a token; it has
\* issued its new pair when it revokes the old one.  A logout has a token too.
Sound(q, count) ==
    /\ q.at \in {"find", "rotate"} => q.session \in 1..count
    /\ q.at = "spend" => q.new \in 1..count
    /\ q.at \in {"find", "rotate", "spend"} \/ q.op = "logout" => q.pair \in Pairs

RequestsAreSound == \A r \in Requests : req[r] # Nil => Sound(req[r], issued)

\* A token leads to a session issued before.
OwnersAreIssued == \A t \in Pairs : owner[t] # Nil => owner[t] \in 1..issued

\* A token that was exchanged for another is revoked.
RenewedAreRevoked == \A t \in Pairs : renewals[t] # {} => <<"refresh", t>> \in blacklist

\* The types with what they need to be kept.
Types == TypeOK /\ RequestsAreSound /\ OwnersAreIssued

-----------------------------------------------------------------------------
(* Accounts: requests *)

\* A request begins with nothing read.
LEMMA BlankType ==
    ASSUME NEW op \in Ops, NEW at \in Ats
    PROVE  /\ Blank(op, at) \in Request
           /\ Blank(op, at).op = op /\ Blank(op, at).at = at
  BY DEF Blank, Request, Ops, Ats

\* What moves in a request leaves a request.
LEMMA FieldTypes ==
    ASSUME NEW q \in Request, NEW at \in Ats, NEW s \in Pairs \union {Nil},
           NEW t \in Pairs \union {Nil}, NEW todo \in SUBSET Pairs
    PROVE  /\ [ q EXCEPT !.at = at ] \in Request
           /\ [ q EXCEPT !.todo = todo ] \in Request
           /\ [ q EXCEPT !.pair = t, !.session = s ] \in Request
           /\ [ q EXCEPT !.pair = t, !.todo = todo ] \in Request
           /\ [ q EXCEPT !.session = s ] \in Request
           /\ [ q EXCEPT !.at = at, !.old = t ] \in Request
           /\ [ q EXCEPT !.at = at, !.new = t, !.old = Nil ] \in Request
           /\ [ q EXCEPT !.at = at, !.session = Nil, !.todo = todo ] \in Request
           /\ [ q EXCEPT !.at = at, !.session = s, !.old = t, !.todo = todo ] \in Request
           /\ [ q EXCEPT !.at = at, !.session = Nil, !.old = Nil ] \in Request
<1>. USE DEF Request, Ats
<1>1. [ q EXCEPT !.at = at ] \in Request
  OBVIOUS
<1>2. [ q EXCEPT !.todo = todo ] \in Request
  OBVIOUS
<1>3. [ q EXCEPT !.pair = t, !.session = s ] \in Request
  OBVIOUS
<1>4. [ q EXCEPT !.pair = t, !.todo = todo ] \in Request
  OBVIOUS
<1>5. [ q EXCEPT !.session = s ] \in Request
  OBVIOUS
<1>6. [ q EXCEPT !.at = at, !.old = t ] \in Request
  OBVIOUS
<1>7. [ q EXCEPT !.at = at, !.new = t, !.old = Nil ] \in Request
  OBVIOUS
<1>8. [ q EXCEPT !.at = at, !.session = Nil, !.todo = todo ] \in Request
  OBVIOUS
<1>9. [ q EXCEPT !.at = at, !.session = s, !.old = t, !.todo = todo ] \in Request
  OBVIOUS
<1>10. [ q EXCEPT !.at = at, !.session = Nil, !.old = Nil ] \in Request
  OBVIOUS
<1>. QED
  BY <1>1, <1>2, <1>3, <1>4, <1>5, <1>6, <1>7, <1>8, <1>9, <1>10

\* One request moves, and the others keep what they have.
LEMMA OneRequest ==
    ASSUME Types, NEW r \in Requests, NEW q \in Request \union {Nil},
           req' = [ req EXCEPT ![r] = q ],
           issued' \in 0..MaxPairs, issued' >= issued,
           q # Nil => Sound(q, issued')
    PROVE  req' \in [ Requests -> Request \union {Nil} ] /\ RequestsAreSound'
<1>1. req' \in [ Requests -> Request \union {Nil} ]
  BY DEF Types, TypeOK
<1>2. SUFFICES ASSUME NEW o \in Requests, req'[o] # Nil
               PROVE  Sound(req'[o], issued')
  BY <1>1 DEF RequestsAreSound
<1>3. CASE o = r
  BY <1>2, <1>3 DEF Types, TypeOK
<1>4. CASE o # r
  <2>1. req'[o] = req[o] /\ Sound(req[o], issued)
    BY <1>2, <1>4 DEF Types, TypeOK, RequestsAreSound
  <2>2. issued \in 0..MaxPairs /\ 1..issued \subseteq 1..issued'
    BY Bounds DEF Types, TypeOK
  <2>. QED
    BY <2>1, <2>2 DEF Sound
<1>. QED
  BY <1>3, <1>4

\* Steps that change nothing but a request.
LEMMA OnlyARequest ==
    ASSUME Types, NEW r \in Requests, NEW q \in Request \union {Nil},
           req' = [ req EXCEPT ![r] = q ],
           q # Nil => Sound(q, issued),
           UNCHANGED <<redis, blacklist, clients, deletions>>, deleted' \in BOOLEAN
    PROVE  Types'
<1>1. req' \in [ Requests -> Request \union {Nil} ] /\ RequestsAreSound'
  <2>1. issued' = issued /\ issued \in 0..MaxPairs /\ issued' >= issued
    BY Bounds DEF Types, TypeOK, clients
  <2>. QED
    BY <2>1, OneRequest
<1>. QED
  BY <1>1 DEF Types, TypeOK, OwnersAreIssued, redis, clients

-----------------------------------------------------------------------------
(* Accounts: every step keeps the types *)

LEMMA TypesInit == Init => Types
<1>. SUFFICES ASSUME Init PROVE Types
  OBVIOUS
<1>1. 0 \in 0..MaxPairs /\ 0 \in 0..MaxDeletions
  BY Bounds
<1>2. TypeOK
  BY <1>1 DEF Init, TypeOK
<1>3. RequestsAreSound /\ OwnersAreIssued
  BY DEF Init, RequestsAreSound, OwnersAreIssued
<1>. QED
  BY <1>2, <1>3 DEF Types

\* The steps that read, one lemma for each way they move a request
LEMMA TypesBegin ==
    ASSUME Types, NEW r \in Requests, LoginUser(r) \/ ResetPassword(r)
    PROVE  Types'
<1>. USE DEF Begin
<1>1. deleted \in BOOLEAN
  BY DEF Types, TypeOK
<1>2. CASE LoginUser(r)
  <2>. DEFINE q == Blank("login", "save")
  <2>1. q \in Request /\ Sound(q, issued)
    BY BlankType DEF Sound, Ops, Ats
  <2>. QED
    BY <1>1, <1>2, <2>1, OnlyARequest DEF LoginUser, table
<1>3. CASE ResetPassword(r)
  <2>. DEFINE q == Blank("reset", "save")
  <2>1. q \in Request /\ Sound(q, issued)
    BY BlankType DEF Sound, Ops, Ats
  <2>. QED
    BY <1>1, <1>3, <2>1, OnlyARequest DEF ResetPassword, table
<1>. QED
  BY <1>2, <1>3

LEMMA TypesBeginWith ==
    ASSUME Types, NEW r \in Requests, NEW t \in Pairs,
           \/ Update(r, t) \/ RefreshToken(r, t) \/ (\E s \in Pairs : RevokeSession(r, t, s))
           \/ RevokeAllOtherSessions(r, t) \/ Logout(r, t)
    PROVE  Types'
<1>. USE DEF Begin
<1>1. deleted \in BOOLEAN /\ owner[t] \in Pairs \union {Nil} /\ t \in Pairs
  BY DEF Types, TypeOK
<1>3. CASE Update(r, t)
  <2>. DEFINE q == Blank("edit", "save")
  <2>1. q \in Request /\ Sound(q, issued)
    BY BlankType DEF Sound, Ops, Ats
  <2>. QED
    BY <1>1, <1>3, <2>1, OnlyARequest DEF Update, table
<1>5. CASE RefreshToken(r, t)
  <2>. DEFINE b == Blank("refresh", "find")
              q == [ b EXCEPT !.pair = t, !.session = owner[t] ]
  <2>1. b \in Request /\ b.op = "refresh" /\ b.at = "find"
    BY BlankType DEF Ops, Ats
  <2>2. q \in Request
    BY <1>1, <2>1, FieldTypes DEF Ats
  <2>3. owner[t] \in 1..issued
    BY <1>5 DEF RefreshToken, Types, OwnersAreIssued
  <2>4. Sound(q, issued)
    BY <1>1, <2>1, <2>3 DEF Sound, Request
  <2>. QED
    BY <1>1, <1>5, <2>2, <2>4, OnlyARequest DEF RefreshToken, table
<1>6. CASE \E s \in Pairs : RevokeSession(r, t, s)
  <2>. PICK s \in Pairs : RevokeSession(r, t, s)
    BY <1>6
  <2>. DEFINE b == Blank("revoke", "destroy")
              q == [ b EXCEPT !.todo = {s} ]
  <2>1. b \in Request /\ b.op = "revoke" /\ b.at = "destroy"
    BY BlankType DEF Ops, Ats
  <2>2. q \in Request
    <3>1. {s} \in SUBSET Pairs
      OBVIOUS
    <3>. HIDE DEF b
    <3>. QED
      BY <2>1, <3>1, FieldTypes DEF Ats
  <2>3. Sound(q, issued)
    BY <2>1 DEF Sound, Request
  <2>. QED
    BY <1>1, <2>2, <2>3, OnlyARequest DEF RevokeSession, table
<1>7. CASE RevokeAllOtherSessions(r, t)
  <2>. DEFINE b == Blank("others", "list")
              q == [ b EXCEPT !.session = owner[t] ]
  <2>1. b \in Request /\ b.op = "others" /\ b.at = "list"
    BY BlankType DEF Ops, Ats
  <2>2. q \in Request
    BY <1>1, <2>1, FieldTypes DEF Ats
  <2>3. Sound(q, issued)
    BY <2>1 DEF Sound, Request
  <2>. QED
    BY <1>1, <1>7, <2>2, <2>3, OnlyARequest DEF RevokeAllOtherSessions, table
<1>8. CASE Logout(r, t)
  <2>. DEFINE b == Blank("logout", "destroy")
              todo == IF owner[t] # Nil /\ sessions[owner[t]] # Nil THEN {owner[t]} ELSE {}
              q == [ b EXCEPT !.pair = t, !.todo = todo ]
  <2>1. b \in Request /\ b.op = "logout" /\ b.at = "destroy"
    BY BlankType DEF Ops, Ats
  <2>2. todo \in SUBSET Pairs
    BY <1>1
  <2>3. q \in Request
    BY <1>1, <2>1, <2>2, FieldTypes DEF Ats
  <2>4. Sound(q, issued)
    BY <1>1, <2>1 DEF Sound, Request
  <2>. QED
    BY <1>1, <1>8, <2>3, <2>4, OnlyARequest DEF Logout, table
<1>. QED
  BY <1>3, <1>5, <1>6, <1>7, <1>8

LEMMA TypesMove ==
    ASSUME Types, NEW r \in Requests,
           \/ SaveRow(r) \/ RotateRead(r) \/ (\E s \in Pairs : ReadSession(r, s))
           \/ Destroyed(r) \/ Fail(r)
    PROVE  Types'
<1>. USE DEF Move, Finish, At
<1>. DEFINE q == req[r]
<1>1. q # Nil /\ q \in Request /\ Sound(q, issued)
  BY DEF Types, TypeOK, RequestsAreSound, SaveRow, RotateRead, ReadSession, Destroyed, Fail
<1>2. deleted \in BOOLEAN /\ \A p \in Pairs : sessions[p] \in Pairs \union {Nil}
  BY DEF Types, TypeOK
<1>3. CASE SaveRow(r)
  <2>1. deleted' \in BOOLEAN /\ UNCHANGED <<redis, blacklist, clients, deletions>>
    BY <1>3 DEF SaveRow, Save
  <2>2. PICK p \in {[ q EXCEPT !.at = "session" ], [ q EXCEPT !.at = "list" ], Nil} :
            req' = [ req EXCEPT ![r] = p ]
    BY <1>3 DEF SaveRow
  <2>3. p \in Request \union {Nil}
    BY <1>1, FieldTypes DEF Ats
  <2>4. p # Nil => Sound(p, issued)
    BY <1>1 DEF Sound, Request
  <2>. QED
    BY <2>1, <2>2, <2>3, <2>4, OnlyARequest
<1>4. CASE RotateRead(r)
  <2>. DEFINE p == IF sessions[q.session] = Nil THEN Nil
                   ELSE [ q EXCEPT !.at = "rotate", !.old = sessions[q.session] ]
  <2>1. q.session \in 1..issued /\ 1..issued \subseteq Pairs /\ q.at = "find"
    BY <1>1, <1>4, Bounds DEF RotateRead, Sound, Types, TypeOK, Pairs
  <2>2. p \in Request \union {Nil}
    BY <1>1, <1>2, <2>1, FieldTypes DEF Ats
  <2>3. p # Nil => Sound(p, issued)
    BY <1>1, <2>1 DEF Sound, Request
  <2>. QED
    BY <1>2, <1>4, <2>2, <2>3, OnlyARequest DEF RotateRead, table
<1>5. CASE \E s \in Pairs : ReadSession(r, s)
  <2>. PICK s \in Pairs : ReadSession(r, s)
    BY <1>5
  <2>. DEFINE p == IF sessions[s] = Nil THEN [ q EXCEPT !.todo = @ \ {s} ]
                   ELSE [ q EXCEPT !.at = "delete", !.session = s,
                                   !.old = sessions[s], !.todo = @ \ {s} ]
  <2>1. q.todo \ {s} \in SUBSET Pairs /\ q.at = "destroy"
    BY <1>1 DEF Request, ReadSession
  <2>2. p \in Request
    BY <1>1, <1>2, <2>1, FieldTypes DEF Ats
  <2>3. Sound(p, issued)
    BY <1>1, <2>1 DEF Sound, Request
  <2>. QED
    BY <1>2, <2>2, <2>3, OnlyARequest DEF ReadSession, table
<1>6. CASE Destroyed(r) \/ Fail(r)
  BY <1>2, <1>6, OnlyARequest DEF Destroyed, Fail, table
<1>. QED
  BY <1>3, <1>4, <1>5, <1>6

\* The steps that write
LEMMA TypesDelete ==
    ASSUME Types, Delete
    PROVE  Types'
<1>1. deletions' \in 0..MaxDeletions
  BY Bounds DEF Delete, Types, TypeOK
<1>. QED
  BY <1>1 DEF Delete, Types, TypeOK, RequestsAreSound, OwnersAreIssued, redis, clients

LEMMA Issued ==
    ASSUME Types, NEW t \in Pairs, Issue(t)
    PROVE  /\ issued' \in 0..MaxPairs /\ issued' >= issued /\ t = issued + 1
           /\ 1..issued \subseteq 1..issued' /\ t \in 1..issued' /\ t \notin 1..issued
  BY Bounds DEF Types, TypeOK, Issue, Pairs

LEMMA TypesIssue ==
    ASSUME Types, NEW r \in Requests, NEW t \in Pairs,
           CreateSession(r, t) \/ LoginWithoutSession(r, t)
    PROVE  Types'
<1>1. /\ issued' \in 0..MaxPairs /\ issued' >= issued
      /\ 1..issued \subseteq 1..issued' /\ t \in 1..issued'
  BY Issued DEF CreateSession, LoginWithoutSession
<1>2. req' \in [ Requests -> Request \union {Nil} ] /\ RequestsAreSound'
  BY <1>1, OneRequest DEF CreateSession, LoginWithoutSession, Finish
<1>3. known' \subseteq 1..issued' /\ known \subseteq known'
  BY <1>1 DEF CreateSession, LoginWithoutSession, Types, TypeOK
<1>4. renewals' \in [ Pairs -> SUBSET known' ]
  BY <1>3 DEF CreateSession, LoginWithoutSession, Types, TypeOK
<1>5. /\ sessions' \in [ Pairs -> Pairs \union {Nil} ]
      /\ owner' \in [ Pairs -> Pairs \union {Nil} ] /\ listed' \subseteq Pairs
  BY DEF CreateSession, LoginWithoutSession, Create, Types, TypeOK, redis
<1>6. OwnersAreIssued'
  BY <1>1 DEF CreateSession, LoginWithoutSession, Create, Types, TypeOK, OwnersAreIssued, redis
<1>. QED
  BY <1>1, <1>2, <1>3, <1>4, <1>5, <1>6
  DEF CreateSession, LoginWithoutSession, Types, TypeOK, table

LEMMA TypesRotate ==
    ASSUME Types, NEW r \in Requests, NEW t \in Pairs, RotateTokens(r, t)
    PROVE  Types'
<1>. DEFINE q == req[r]
            p == [ q EXCEPT !.at = "spend", !.new = t, !.old = Nil ]
<1>1. /\ issued' \in 0..MaxPairs /\ issued' >= issued
      /\ 1..issued \subseteq 1..issued' /\ t \in 1..issued'
  BY Issued DEF RotateTokens
<1>2. q # Nil /\ q \in Request /\ Sound(q, issued) /\ q.at = "rotate"
  BY DEF Types, TypeOK, RequestsAreSound, RotateTokens, At
<1>3. p \in Request
  BY <1>2, FieldTypes DEF Ats
<1>4. Sound(p, issued')
  BY <1>1, <1>2 DEF Sound, Request
<1>5. req' \in [ Requests -> Request \union {Nil} ] /\ RequestsAreSound'
  BY <1>1, <1>3, <1>4, OneRequest DEF RotateTokens, Move
<1>6. q.session \in 1..issued /\ q.session \in Pairs
  BY <1>2, Bounds DEF Sound, Types, TypeOK, Pairs
<1>7. /\ sessions' \in [ Pairs -> Pairs \union {Nil} ]
      /\ owner' \in [ Pairs -> Pairs \union {Nil} ]
  BY <1>6 DEF RotateTokens, Types, TypeOK
<1>8. OwnersAreIssued'
  BY <1>1, <1>6 DEF RotateTokens, Types, TypeOK, OwnersAreIssued
<1>9. known' \subseteq 1..issued' /\ renewals' \in [ Pairs -> SUBSET known' ]
  BY <1>1 DEF RotateTokens, Types, TypeOK
<1>. QED
  BY <1>1, <1>5, <1>7, <1>8, <1>9 DEF RotateTokens, Types, TypeOK, table

LEMMA TypesSpend ==
    ASSUME Types, NEW r \in Requests, Spend(r)
    PROVE  Types'
<1>. DEFINE q == req[r]
<1>1. /\ q \in Request /\ q.pair \in Pairs /\ q.new \in 1..issued
      /\ req' = [ req EXCEPT ![r] = Nil ]
  BY DEF Types, TypeOK, RequestsAreSound, Spend, At, Sound, Finish
<1>2. issued' = issued /\ issued \in 0..MaxPairs /\ issued' >= issued
  BY Bounds DEF Types, TypeOK, Spend
<1>3. req' \in [ Requests -> Request \union {Nil} ] /\ RequestsAreSound'
  BY <1>1, <1>2, OneRequest
<1>4. known' \subseteq 1..issued' /\ known' = known \union {q.new}
  BY <1>1, <1>2 DEF Spend, Types, TypeOK
<1>5. renewals' \in [ Pairs -> SUBSET known' ]
  BY <1>1, <1>4 DEF Spend, Types, TypeOK
<1>6. blacklist' \subseteq Kinds \X Pairs
  BY <1>1 DEF Spend, LogoutUser, Types, TypeOK, Kinds
<1>. QED
  BY <1>2, <1>3, <1>4, <1>5, <1>6
  DEF Spend, Types, TypeOK, OwnersAreIssued, table, redis

LEMMA TypesDestroy ==
    ASSUME Types, NEW r \in Requests,
           ListSessions(r) \/ DeleteSession(r) \/ LoggedOut(r)
    PROVE  Types'
<1>. DEFINE q == req[r]
<1>1. q # Nil /\ q \in Request /\ Sound(q, issued)
  BY DEF Types, TypeOK, RequestsAreSound, ListSessions, DeleteSession, LoggedOut, At
<1>2. issued' = issued /\ issued \in 0..MaxPairs /\ issued' >= issued
  BY Bounds DEF Types, TypeOK, ListSessions, DeleteSession, LoggedOut, clients
<1>3. CASE ListSessions(r)
  <2>. DEFINE todo == (listed \intersect Alive) \ {q.session}
              p == [ q EXCEPT !.at = "destroy", !.session = Nil, !.todo = todo ]
  <2>1. todo \in SUBSET Pairs
    BY DEF Alive
  <2>2. p \in Request
    BY <1>1, <2>1, FieldTypes DEF Ats
  <2>3. q.at = "list" /\ Sound(p, issued)
    BY <1>1, <1>3 DEF Sound, Request, ListSessions, At
  <2>4. req' \in [ Requests -> Request \union {Nil} ] /\ RequestsAreSound'
    BY <1>2, <1>3, <2>2, <2>3, OneRequest DEF ListSessions, Move
  <2>. QED
    BY <1>3, <2>4 DEF ListSessions, Types, TypeOK, OwnersAreIssued, table, clients
<1>4. CASE DeleteSession(r)
  <2>. DEFINE p == [ q EXCEPT !.at = "destroy", !.session = Nil, !.old = Nil ]
  <2>1. p \in Request
    BY <1>1, FieldTypes DEF Ats
  <2>2. q.at = "delete" /\ Sound(p, issued)
    BY <1>1, <1>4 DEF Sound, Request, DeleteSession, At
  <2>3. req' \in [ Requests -> Request \union {Nil} ] /\ RequestsAreSound'
    BY <1>2, <1>4, <2>1, <2>2, OneRequest DEF DeleteSession, Move
  <2>. QED
    BY <1>4, <2>3 DEF DeleteSession, Types, TypeOK, OwnersAreIssued, table, clients
<1>5. CASE LoggedOut(r)
  <2>1. req' \in [ Requests -> Request \union {Nil} ] /\ RequestsAreSound'
    BY <1>2, <1>5, OneRequest DEF LoggedOut, Finish
  <2>2. q.pair \in Pairs
    BY <1>1, <1>5 DEF LoggedOut, Sound
  <2>3. blacklist' \subseteq Kinds \X Pairs
    BY <1>5, <2>2 DEF LoggedOut, LogoutUser, Types, TypeOK, Kinds
  <2>. QED
    BY <1>5, <2>1, <2>3 DEF LoggedOut, Types, TypeOK, OwnersAreIssued, table, redis, clients
<1>. QED
  BY <1>3, <1>4, <1>5

LEMMA TypesNext == Types /\ [Next]_vars => Types'
<1>. SUFFICES ASSUME Types, [Next]_vars PROVE Types'
  OBVIOUS
<1>1. CASE UNCHANGED vars
  BY <1>1 DEF vars, table, redis, clients, Types, TypeOK, RequestsAreSound, OwnersAreIssued
<1>2. CASE Delete
  BY <1>2, TypesDelete
<1>3. ASSUME NEW r \in Requests, LoginUser(r) \/ ResetPassword(r) PROVE Types'
  BY <1>3, TypesBegin
<1>4. ASSUME NEW r \in Requests, NEW t \in Pairs,
             \/ Update(r, t) \/ RefreshToken(r, t)
             \/ (\E s \in Pairs : RevokeSession(r, t, s))
             \/ RevokeAllOtherSessions(r, t) \/ Logout(r, t)
      PROVE  Types'
  BY <1>4, TypesBeginWith
<1>5. ASSUME NEW r \in Requests,
             \/ SaveRow(r) \/ RotateRead(r) \/ (\E s \in Pairs : ReadSession(r, s))
             \/ Destroyed(r) \/ Fail(r)
      PROVE  Types'
  BY <1>5, TypesMove
<1>6. ASSUME NEW r \in Requests, NEW t \in Pairs,
             CreateSession(r, t) \/ LoginWithoutSession(r, t)
      PROVE  Types'
  BY <1>6, TypesIssue
<1>7. ASSUME NEW r \in Requests, NEW t \in Pairs, RotateTokens(r, t) PROVE Types'
  BY <1>7, TypesRotate
<1>8. ASSUME NEW r \in Requests, Spend(r) PROVE Types'
  BY <1>8, TypesSpend
<1>9. ASSUME NEW r \in Requests, ListSessions(r) \/ DeleteSession(r) \/ LoggedOut(r)
      PROVE  Types'
  BY <1>9, TypesDestroy
<1>. QED
  BY <1>1, <1>2, <1>3, <1>4, <1>5, <1>6, <1>7, <1>8, <1>9 DEF Next

-----------------------------------------------------------------------------
(* Accounts: what the types carry *)

\* Every variable keeps its type.
THEOREM TypeCorrect == Spec => []TypeOK
<1>1. Types => TypeOK
  BY DEF Types
<1>. QED
  BY <1>1, TypesInit, TypesNext, PTL DEF Spec

LEMMA RenewedInit == Init => RenewedAreRevoked /\ RenewedOnce
  BY FS_EmptySet DEF Init, RenewedAreRevoked, RenewedOnce

\* The unique index on revoked tokens lets only the first of several refreshes
\* with one token get as far as an answer.
LEMMA RenewedStep ==
    ASSUME Types, RenewedAreRevoked, RenewedOnce, [Next]_vars
    PROVE  RenewedAreRevoked' /\ RenewedOnce'
<1>1. ASSUME NEW r \in Requests, Spend(r)
      PROVE  RenewedAreRevoked' /\ RenewedOnce'
  <2>. DEFINE q == req[r]
  <2>1. q.pair \in Pairs /\ renewals \in [ Pairs -> SUBSET known ]
    BY <1>1 DEF Types, TypeOK, RequestsAreSound, Spend, At, Sound
  <2>2. renewals[q.pair] = {} /\ <<"refresh", q.pair>> \in blacklist'
    BY <1>1, <2>1 DEF Spend, LogoutUser, RenewedAreRevoked
  <2>3. renewals' = [ renewals EXCEPT ![q.pair] = {q.new} ] /\ blacklist \subseteq blacklist'
    BY <1>1, <2>1, <2>2 DEF Spend, LogoutUser
  <2>4. RenewedAreRevoked'
    BY <2>1, <2>2, <2>3 DEF RenewedAreRevoked
  <2>5. ASSUME NEW t \in Pairs PROVE Cardinality(renewals'[t]) <= 1
    <3>1. CASE t = q.pair
      <4>1. renewals'[t] = {q.new}
        BY <2>1, <2>3, <3>1
      <4>2. Cardinality({q.new}) = 1
        BY FS_Singleton
      <4>. QED
        BY <4>1, <4>2
    <3>2. CASE t # q.pair
      BY <2>1, <2>3, <3>2 DEF RenewedOnce
    <3>. QED
      BY <3>1, <3>2
  <2>. QED
    BY <2>4, <2>5 DEF RenewedOnce
<1>2. CASE UNCHANGED renewals /\ blacklist \subseteq blacklist'
  BY <1>2 DEF RenewedAreRevoked, RenewedOnce
<1>3. ASSUME Next
      PROVE  (\E r \in Requests : Spend(r)) \/ (UNCHANGED renewals /\ blacklist \subseteq blacklist')
  BY <1>3 DEF Next, LoginUser, Update, ResetPassword, SaveRow, CreateSession,
     LoginWithoutSession, RefreshToken, RotateRead, RotateTokens, RevokeSession,
     RevokeAllOtherSessions, Logout, ListSessions, ReadSession, DeleteSession, Destroyed,
     LoggedOut, LogoutUser, Fail, Delete, clients
<1>. QED
  BY <1>1, <1>2, <1>3 DEF vars, clients

\* Among refreshes with one token, however they overlap, one is answered with a pair.
THEOREM RenewalIsUnique == Spec => []RenewedOnce
<1>1. Init => Types /\ RenewedAreRevoked /\ RenewedOnce
  BY TypesInit, RenewedInit
<1>2. Types /\ RenewedAreRevoked /\ RenewedOnce /\ [Next]_vars
        => (Types /\ RenewedAreRevoked /\ RenewedOnce)'
  BY TypesNext, RenewedStep
<1>. QED
  BY <1>1, <1>2, PTL DEF Spec

-----------------------------------------------------------------------------
(* Accounts: sessions *)

\* A session is written by a login, under the number of its new pair, by a refresh
\* that has read it, and by its deletion.
LEMMA SessionWrites ==
    ASSUME Types, [Next]_vars
    PROVE  \/ UNCHANGED sessions /\ listed \intersect Alive \subseteq listed'
           \/ \E r \in Requests, t \in Pairs : CreateSession(r, t)
           \/ \E r \in Requests, t \in Pairs : RotateTokens(r, t)
           \/ \E r \in Requests : DeleteSession(r)
  BY DEF Next, LoginUser, Update, ResetPassword, SaveRow,
     LoginWithoutSession, RefreshToken, RotateRead, Spend, RevokeSession,
     RevokeAllOtherSessions, Logout, ListSessions, ReadSession, Destroyed,
     LoggedOut, Fail, Delete, redis, vars

\* A session ends for good, unless a refresh had read it before it was deleted.
THEOREM SessionsEndForGood == Spec => EndedForGood
<1>1. ASSUME Types, [Next]_vars, NEW s \in Pairs,
             sessions[s] = Nil, s <= issued, ~ Rotating(s)
      PROVE  sessions'[s] = Nil
  <2>1. CASE UNCHANGED sessions
    BY <1>1, <2>1
  <2>2. CASE \E r \in Requests, t \in Pairs : CreateSession(r, t)
    <3>1. PICK r \in Requests, t \in Pairs : CreateSession(r, t)
      BY <2>2
    <3>2. s # t
      BY <1>1, <3>1 DEF CreateSession, Issue, Types, TypeOK
    <3>. QED
      BY <1>1, <3>1, <3>2 DEF CreateSession, Create, Types, TypeOK
  <2>3. CASE \E r \in Requests, t \in Pairs : RotateTokens(r, t)
    <3>1. PICK r \in Requests, t \in Pairs : RotateTokens(r, t)
      BY <2>3
    <3>2. req[r].session # s
      BY <1>1, <3>1 DEF RotateTokens, Rotating
    <3>. QED
      BY <1>1, <3>1, <3>2 DEF RotateTokens, Types, TypeOK
  <2>4. CASE \E r \in Requests : DeleteSession(r)
    BY <1>1, <2>4 DEF DeleteSession, Types, TypeOK
  <2>. QED
    BY <1>1, <2>1, <2>2, <2>3, <2>4, SessionWrites
<1>2. Types /\ [Next]_vars =>
        [ \A s \in Pairs :
            sessions[s] = Nil /\ s <= issued /\ ~ Rotating(s) => sessions'[s] = Nil ]_vars
  BY <1>1
<1>. QED
  BY <1>2, TypesInit, TypesNext, PTL DEF Spec, EndedForGood

LEMMA UnlistedInit == Init => UnlistedWereRenewed
  BY DEF Init, UnlistedWereRenewed

LEMMA UnlistedStep ==
    ASSUME Types, UnlistedWereRenewed, [Next]_vars
    PROVE  UnlistedWereRenewed'
<1>. SUFFICES ASSUME NEW s \in Pairs, sessions'[s] # Nil, s \notin listed'
              PROVE  sessions'[s] # s
  BY DEF UnlistedWereRenewed
<1>1. CASE UNCHANGED sessions /\ listed \intersect Alive \subseteq listed'
  BY <1>1 DEF UnlistedWereRenewed, Alive
<1>2. CASE \E r \in Requests, t \in Pairs : CreateSession(r, t)
  BY <1>2 DEF CreateSession, Create, UnlistedWereRenewed, Types, TypeOK
<1>3. CASE \E r \in Requests, t \in Pairs : RotateTokens(r, t)
  <2>1. PICK r \in Requests, t \in Pairs : RotateTokens(r, t)
    BY <1>3
  <2>2. req[r].session \in 1..issued /\ t \notin 1..issued
    BY <2>1, Issued DEF RotateTokens, Types, RequestsAreSound, At, Sound
  <2>3. listed' = listed /\ sessions' = [ sessions EXCEPT ![req[r].session] = t ]
    BY <2>1 DEF RotateTokens
  <2>. QED
    BY <2>2, <2>3 DEF UnlistedWereRenewed, Types, TypeOK
<1>4. CASE \E r \in Requests : DeleteSession(r)
  BY <1>4 DEF DeleteSession, UnlistedWereRenewed, Types, TypeOK
<1>. QED
  BY <1>1, <1>2, <1>3, <1>4, SessionWrites

\* Only a refresh leaves a live session out of its user's list.
THEOREM LoginsAreListed == Spec => []UnlistedWereRenewed
<1>1. Init => Types /\ UnlistedWereRenewed
  BY TypesInit, UnlistedInit
<1>2. Types /\ UnlistedWereRenewed /\ [Next]_vars => (Types /\ UnlistedWereRenewed)'
  BY TypesNext, UnlistedStep
<1>. QED
  BY <1>1, <1>2, PTL DEF Spec

-----------------------------------------------------------------------------
(* Identity: the invariant *)

\* What a request wants to write is still right when it writes it: a row it saves is
\* verified only with the proven phone of its account, an account it links was found
\* by its proven phone, and a code it spends was issued.
IdSound(q, rows, phones, given) ==
    /\ q.op \in {"register", "link", "consume", "revoke"} => q.ext \in Externals
    /\ q.op \in {"link", "revoke", "save"} => q.user \in Users
    /\ q.op \in {"link", "save"} => rows[q.user] # Nil
    /\ q.op = "link" => PhoneOf[q.ext] # Nil /\ phones[q.user] = PhoneOf[q.ext]
    /\ q.op = "consume" => q.code \in Codes /\ given[q.code] # Nil
    /\ q.op = "save" => q.row \in Id!Account
                        /\ (q.row.verified => q.row.phone = phones[q.user])

IdRequestsAreSound ==
    \A r \in Requests : reqOfIdentity[r] # Nil => IdSound(reqOfIdentity[r], account, proven, codes)

\* A name leads to one account.
Functional(rows) ==
    \A x \in Externals, u, v \in Users : <<x, u>> \in rows /\ <<x, v>> \in rows => u = v

OneAccountPerName == Functional(links)

IdTypes == Id!TypeOK /\ IdRequestsAreSound
IdInv == IdTypes /\ OneAccountPerName /\ Id!VerifiedMeansProven

\* Accounts and codes stay once they are there, and a proven phone with its account.
IdGrows ==
    /\ \A u \in Users : account[u] # Nil => account'[u] # Nil /\ proven'[u] = proven[u]
    /\ \A c \in Codes : codes[c] # Nil => codes'[c] # Nil

-----------------------------------------------------------------------------
(* Identity: requests *)

LEMMA IdConstants ==
    /\ Users \subseteq Nat /\ Codes \subseteq Nat
    /\ Nil \notin Phones /\ Nil \notin Users /\ Nil \notin Id!Account /\ Nil \notin Id!Code
    /\ Nil \notin Id!Request
    /\ PhoneOf \in [ Externals -> Phones \union {Nil} ]
  BY IdentityBounds DEF Id!IdentityAssumption

\* A request begins with what it was asked.
LEMMA IdBlank ==
    ASSUME NEW op \in {"register", "link", "consume", "revoke", "save"}
    PROVE  Id!Blank(op) \in Id!Request
  BY DEF Id!Blank, Id!Request

LEMMA IdAccountRow ==
    ASSUME NEW phone \in Phones \union {Nil}, NEW verified \in BOOLEAN
    PROVE  /\ Id!AccountRow(phone, verified) \in Id!Account
           /\ Id!AccountRow(phone, verified) # Nil
           /\ Id!AccountRow(phone, verified).phone = phone
<1>1. Id!AccountRow(phone, verified) \in Id!Account
  BY DEF Id!AccountRow, Id!Account
<1>. QED
  BY <1>1, IdConstants DEF Id!AccountRow

\* One request moves, and the others keep what they need.
LEMMA IdOneRequest ==
    ASSUME IdTypes, IdGrows, NEW r \in Requests, NEW q \in Id!Request \union {Nil},
           reqOfIdentity' = [ reqOfIdentity EXCEPT ![r] = q ], q # Nil => IdSound(q, account', proven', codes')
    PROVE  /\ reqOfIdentity' \in [ Requests -> Id!Request \union {Nil} ]
           /\ IdRequestsAreSound'
<1>1. /\ reqOfIdentity' \in [ Requests -> Id!Request \union {Nil} ]
      /\ reqOfIdentity'[r] = q
      /\ \A o \in Requests \ {r} : reqOfIdentity'[o] = reqOfIdentity[o]
  BY DEF IdTypes, Id!TypeOK
<1>2. ASSUME NEW o \in Requests \ {r}, reqOfIdentity'[o] # Nil
      PROVE  IdSound(reqOfIdentity'[o], account', proven', codes')
  <2>1. reqOfIdentity'[o] = reqOfIdentity[o] /\ IdSound(reqOfIdentity[o], account, proven, codes)
    BY <1>1, <1>2 DEF IdTypes, IdRequestsAreSound
  <2>. QED
    BY <2>1 DEF IdSound, IdGrows
<1>. QED
  BY <1>1, <1>2 DEF IdRequestsAreSound

\* A step that writes no table.
LEMMA IdOnlyARequest ==
    ASSUME IdInv, UNCHANGED <<account, proven, links, codes>>,
           NEW r \in Requests, NEW q \in Id!Request \union {Nil},
           reqOfIdentity' = [ reqOfIdentity EXCEPT ![r] = q ], q # Nil => IdSound(q, account, proven, codes)
    PROVE  IdInv'
<1>1. IdGrows /\ (q # Nil => IdSound(q, account', proven', codes'))
  BY DEF IdGrows, IdSound
<1>2. reqOfIdentity' \in [ Requests -> Id!Request \union {Nil} ] /\ IdRequestsAreSound'
  BY <1>1, IdOneRequest DEF IdInv
<1>3. Id!TypeOK'
  BY <1>2 DEF IdInv, IdTypes, Id!TypeOK
<1>. QED
  BY <1>2, <1>3
  DEF IdInv, IdTypes, OneAccountPerName, Id!VerifiedMeansProven, Id!Exists

LEMMA IdInitially == Id!Init => IdInv
<1>. SUFFICES ASSUME Id!Init PROVE IdInv
  OBVIOUS
<1>1. /\ account = [ u \in Users |-> Nil ] /\ proven = [ u \in Users |-> Nil ]
      /\ links = {} /\ codes = [ c \in Codes |-> Nil ]
      /\ reqOfIdentity = [ r \in Requests |-> Nil ]
  BY DEF Id!Init
<1>2. Id!TypeOK
  BY <1>1 DEF Id!TypeOK
<1>. QED
  BY <1>1, <1>2
  DEF IdInv, IdTypes, IdRequestsAreSound, OneAccountPerName, Functional,
      Id!VerifiedMeansProven, Id!Exists

-----------------------------------------------------------------------------
(* Identity: every step keeps the invariant *)

LEMMA IdBegin ==
    ASSUME IdInv, NEW r \in Requests, Id!Begin(r)
    PROVE  IdInv'
<1>. USE DEF Id!Start, Id!Tables
<1>1. ASSUME NEW x \in Externals, Id!Register(r, x) PROVE IdInv'
  <2>. DEFINE q == [ Id!Blank("register") EXCEPT !.ext = x ]
  <2>1. q \in Id!Request /\ IdSound(q, account, proven, codes)
    <3>1. q \in Id!Request
      BY IdBlank DEF Id!Request
    <3>. QED
      BY <3>1 DEF IdSound, Id!Blank
  <2>2. reqOfIdentity' = [ reqOfIdentity EXCEPT ![r] = q ]
    BY <1>1 DEF Id!Register
  <2>. QED
    BY <1>1, <2>1, <2>2, IdOnlyARequest DEF Id!Register
<1>2. ASSUME NEW x \in Externals, NEW u \in Users, Id!LinkExisting(r, x, u) PROVE IdInv'
  <2>. DEFINE q == [ Id!Blank("link") EXCEPT !.ext = x, !.user = u ]
  <2>1. PhoneOf[x] # Nil /\ account[u] # Nil /\ proven[u] = PhoneOf[x]
    BY <1>2 DEF Id!LinkExisting, IdInv, Id!VerifiedMeansProven, Id!Exists
  <2>2. q \in Id!Request /\ IdSound(q, account, proven, codes)
    <3>1. q \in Id!Request
      BY IdBlank DEF Id!Request
    <3>. QED
      BY <2>1, <3>1 DEF IdSound, Id!Blank
  <2>3. reqOfIdentity' = [ reqOfIdentity EXCEPT ![r] = q ]
    BY <1>2 DEF Id!LinkExisting
  <2>. QED
    BY <1>2, <2>2, <2>3, IdOnlyARequest DEF Id!LinkExisting
<1>3. ASSUME NEW c \in Codes, NEW x \in Externals, Id!Link(r, c, x) PROVE IdInv'
  <2>. DEFINE q == [ Id!Blank("consume") EXCEPT !.ext = x, !.code = c ]
  <2>1. q \in Id!Request /\ IdSound(q, account, proven, codes)
    <3>1. q \in Id!Request
      BY IdBlank DEF Id!Request
    <3>. QED
      BY <1>3, <3>1 DEF IdSound, Id!Blank, Id!Link
  <2>2. reqOfIdentity' = [ reqOfIdentity EXCEPT ![r] = q ]
    BY <1>3 DEF Id!Link
  <2>. QED
    BY <1>3, <2>1, <2>2, IdOnlyARequest DEF Id!Link
<1>4. ASSUME NEW x \in Externals, NEW u \in Users, Id!Revoke(r, x, u) PROVE IdInv'
  <2>. DEFINE q == [ Id!Blank("revoke") EXCEPT !.ext = x, !.user = u ]
  <2>1. q \in Id!Request /\ IdSound(q, account, proven, codes)
    <3>1. q \in Id!Request
      BY IdBlank DEF Id!Request
    <3>. QED
      BY <3>1 DEF IdSound, Id!Blank
  <2>2. reqOfIdentity' = [ reqOfIdentity EXCEPT ![r] = q ]
    BY <1>4 DEF Id!Revoke
  <2>. QED
    BY <1>4, <2>1, <2>2, IdOnlyARequest DEF Id!Revoke
<1>5. ASSUME NEW u \in Users, NEW phone \in Phones, Id!Update(r, u, phone) PROVE IdInv'
  <2>. DEFINE row == Id!Edited(account[u], phone)
              q == [ Id!Blank("save") EXCEPT !.user = u, !.row = row ]
  <2>1. account[u] # Nil /\ account[u] \in Id!Account
    BY <1>5 DEF Id!Update, Id!Exists, IdInv, IdTypes, Id!TypeOK
  <2>2. account[u].verified => account[u].phone = proven[u]
    BY <2>1 DEF IdInv, Id!VerifiedMeansProven, Id!Exists
  <2>3. row \in Id!Account /\ (row.verified => row.phone = proven[u])
    BY <2>1, <2>2 DEF Id!Edited, Id!Account
  <2>4. reqOfIdentity' = [ reqOfIdentity EXCEPT ![r] = q ]
    BY <1>5 DEF Id!Update
  <2>. HIDE DEF row
  <2>5. q \in Id!Request /\ IdSound(q, account, proven, codes)
    <3>1. q \in Id!Request
      BY <2>3, IdBlank DEF Id!Request
    <3>. QED
      BY <2>1, <2>3, <3>1 DEF IdSound, Id!Blank
  <2>. QED
    BY <1>5, <2>4, <2>5, IdOnlyARequest DEF Id!Update
<1>. QED
  BY <1>1, <1>2, <1>3, <1>4, <1>5 DEF Id!Begin

\* Nobody has read a row of the account that is created.
LEMMA IdCreate ==
    ASSUME IdInv, NEW r \in Requests, NEW u \in Users, Id!Create(r, u)
    PROVE  IdInv'
<1>. DEFINE x == reqOfIdentity[r].ext
            row == Id!AccountRow(PhoneOf[x], PhoneOf[x] # Nil)
<1>1. /\ reqOfIdentity[r] # Nil /\ reqOfIdentity[r].op = "register"
      /\ account[u] = Nil /\ ~ Id!Linked(x)
      /\ account' = [ account EXCEPT ![u] = row ]
      /\ proven' = [ proven EXCEPT ![u] = PhoneOf[x] ]
      /\ links' = links \union {<<x, u>>}
      /\ reqOfIdentity' = [ reqOfIdentity EXCEPT ![r] = Nil ] /\ codes' = codes
  BY DEF Id!Create, Id!Doing, Id!FreshUser, Id!Finish
<1>2. x \in Externals /\ PhoneOf[x] \in Phones \union {Nil}
  BY <1>1, IdConstants DEF IdInv, IdTypes, IdRequestsAreSound, IdSound
<1>3. row \in Id!Account /\ row # Nil /\ row.phone = PhoneOf[x]
  <2>1. (PhoneOf[x] # Nil) \in BOOLEAN
    OBVIOUS
  <2>. QED
    BY <1>2, <2>1, IdAccountRow
<1>. HIDE DEF x, row
<1>4. /\ account' \in [ Users -> Id!Account \union {Nil} ] /\ account'[u] = row
      /\ proven' \in [ Users -> Phones \union {Nil} ] /\ proven'[u] = PhoneOf[x]
      /\ \A v \in Users \ {u} : account'[v] = account[v] /\ proven'[v] = proven[v]
  BY <1>1, <1>2, <1>3 DEF IdInv, IdTypes, Id!TypeOK
<1>5. IdGrows
  BY <1>1, <1>4 DEF IdGrows
<1>6. reqOfIdentity' \in [ Requests -> Id!Request \union {Nil} ] /\ IdRequestsAreSound'
  BY <1>1, <1>5, IdOneRequest DEF IdInv
<1>7. Id!TypeOK'
  BY <1>1, <1>2, <1>4, <1>6 DEF IdInv, IdTypes, Id!TypeOK
<1>8. OneAccountPerName'
  BY <1>1 DEF IdInv, OneAccountPerName, Functional, Id!Linked
<1>9. Id!VerifiedMeansProven'
  BY <1>3, <1>4 DEF IdInv, Id!VerifiedMeansProven, Id!Exists
<1>. QED
  BY <1>6, <1>7, <1>8, <1>9 DEF IdInv, IdTypes

\* A name that leads nowhere is linked to one account, or a link is taken away.
LEMMA IdLinks ==
    ASSUME IdInv, NEW r \in Requests,
           Id!LinkExternalIdentity(r) \/ Id!ConsumeAndLink(r) \/ Id!RevokeLink(r)
    PROVE  IdInv'
<1>. DEFINE q == reqOfIdentity[r]
<1>1. /\ q # Nil /\ q.op \in {"link", "consume", "revoke"}
      /\ reqOfIdentity' = [ reqOfIdentity EXCEPT ![r] = Nil ]
      /\ account' = account /\ proven' = proven
  BY DEF Id!LinkExternalIdentity, Id!ConsumeAndLink, Id!RevokeLink, Id!Doing, Id!Finish
<1>2. q.ext \in Externals /\ IdSound(q, account, proven, codes)
  BY <1>1 DEF IdInv, IdTypes, IdRequestsAreSound, IdSound
<1>3. codes' \in [ Codes -> Id!Code \union {Nil} ] /\ \A c \in Codes : codes[c] # Nil => codes'[c] # Nil
  <2>1. CASE codes' = codes
    BY <2>1 DEF IdInv, IdTypes, Id!TypeOK
  <2>2. CASE Id!ConsumeAndLink(r)
    <3>1. /\ q.code \in Codes /\ codes[q.code] \in Id!Code
          /\ codes' = [ codes EXCEPT ![q.code].used = TRUE ]
      BY <1>2, <2>2
      DEF Id!ConsumeAndLink, Id!Doing, IdSound, IdInv, IdTypes, Id!TypeOK
    <3>2. [ codes[q.code] EXCEPT !.used = TRUE ] \in Id!Code
      BY <3>1 DEF Id!Code
    <3>. QED
      BY <3>1, <3>2, IdConstants DEF IdInv, IdTypes, Id!TypeOK
  <2>. QED
    BY <2>1, <2>2 DEF Id!LinkExternalIdentity, Id!RevokeLink
<1>4. \/ links' \subseteq links
      \/ \E u \in Users : ~ Id!Linked(q.ext) /\ links' = links \union {<<q.ext, u>>}
  <2>1. CASE Id!LinkExternalIdentity(r)
    BY <1>2, <2>1 DEF Id!LinkExternalIdentity, Id!Doing, IdSound
  <2>2. CASE Id!ConsumeAndLink(r)
    <3>1. codes[q.code] \in Id!Code
      BY <1>2, <2>2 DEF Id!ConsumeAndLink, Id!Doing, IdSound, IdInv, IdTypes, Id!TypeOK
    <3>2. codes[q.code].user \in Users
      BY <3>1 DEF Id!Code
    <3>. QED
      BY <2>2, <3>2 DEF Id!ConsumeAndLink
  <2>3. CASE Id!RevokeLink(r)
    BY <2>3 DEF Id!RevokeLink
  <2>. QED
    BY <2>1, <2>2, <2>3
<1>5. IdGrows
  BY <1>1, <1>3 DEF IdGrows
<1>6. reqOfIdentity' \in [ Requests -> Id!Request \union {Nil} ] /\ IdRequestsAreSound'
  BY <1>1, <1>5, IdOneRequest DEF IdInv
<1>7. Id!TypeOK'
  BY <1>1, <1>2, <1>3, <1>4, <1>6 DEF IdInv, IdTypes, Id!TypeOK
<1>8. OneAccountPerName'
  BY <1>4 DEF IdInv, OneAccountPerName, Functional, Id!Linked
<1>9. Id!VerifiedMeansProven'
  BY <1>1 DEF IdInv, Id!VerifiedMeansProven, Id!Exists
<1>. QED
  BY <1>6, <1>7, <1>8, <1>9 DEF IdInv, IdTypes

LEMMA IdCodes ==
    ASSUME IdInv,
           \/ \E c \in Codes, u \in Users : Id!Issue(c, u)
           \/ \E c \in Codes : Id!Expire(c)
    PROVE  IdInv'
<1>1. UNCHANGED <<account, proven, links, reqOfIdentity>>
  BY DEF Id!Issue, Id!Expire
<1>2. /\ codes' \in [ Codes -> Id!Code \union {Nil} ]
      /\ \A c \in Codes : codes[c] # Nil => codes'[c] # Nil
  <2>1. ASSUME NEW c \in Codes, NEW u \in Users, Id!Issue(c, u)
        PROVE  /\ codes' \in [ Codes -> Id!Code \union {Nil} ]
               /\ \A d \in Codes : codes[d] # Nil => codes'[d] # Nil
    <3>1. [ user |-> u, used |-> FALSE, expired |-> FALSE ] \in Id!Code
      BY DEF Id!Code
    <3>. QED
      BY <2>1, <3>1, IdConstants DEF Id!Issue, IdInv, IdTypes, Id!TypeOK
  <2>2. ASSUME NEW c \in Codes, Id!Expire(c)
        PROVE  /\ codes' \in [ Codes -> Id!Code \union {Nil} ]
               /\ \A d \in Codes : codes[d] # Nil => codes'[d] # Nil
    <3>1. codes[c] \in Id!Code
      BY <2>2 DEF Id!Expire, IdInv, IdTypes, Id!TypeOK
    <3>2. [ codes[c] EXCEPT !.expired = TRUE ] \in Id!Code
      BY <3>1 DEF Id!Code
    <3>. QED
      BY <2>2, <3>2, IdConstants DEF Id!Expire, IdInv, IdTypes, Id!TypeOK
  <2>. QED
    BY <2>1, <2>2
<1>3. IdRequestsAreSound'
  BY <1>1, <1>2 DEF IdInv, IdTypes, IdRequestsAreSound, IdSound
<1>4. Id!TypeOK'
  BY <1>1, <1>2 DEF IdInv, IdTypes, Id!TypeOK
<1>. QED
  BY <1>1, <1>3, <1>4
  DEF IdInv, IdTypes, OneAccountPerName, Id!VerifiedMeansProven, Id!Exists

\* A row of an account is written, and its proven phone stays what it was.
LEMMA IdAccounts ==
    ASSUME IdInv, NEW u \in Users,
           \/ \E phone \in Phones : Id!RegisterUser(u, phone)
           \/ Id!Delete(u)
           \/ \E r \in Requests : Id!Save(r) /\ reqOfIdentity[r].user = u
    PROVE  IdInv'
<1>1. PICK row \in Id!Account :
        /\ account' = [ account EXCEPT ![u] = row ]
        /\ row.verified => row.phone = proven[u]
        /\ UNCHANGED <<proven, links, codes>>
  <2>1. ASSUME NEW phone \in Phones, Id!RegisterUser(u, phone)
        PROVE  /\ Id!AccountRow(phone, FALSE) \in Id!Account
               /\ ~ Id!AccountRow(phone, FALSE).verified
               /\ account' = [ account EXCEPT ![u] = Id!AccountRow(phone, FALSE) ]
               /\ UNCHANGED <<proven, links, codes>>
    BY <2>1 DEF Id!RegisterUser, Id!AccountRow, Id!Account
  <2>2. CASE Id!Delete(u)
    <3>1. account[u] \in Id!Account /\ (account[u].verified => account[u].phone = proven[u])
      BY <2>2 DEF Id!Delete, Id!Exists, IdInv, IdTypes, Id!TypeOK, Id!VerifiedMeansProven
    <3>. DEFINE row == [ account[u] EXCEPT !.deleted = TRUE ]
    <3>2. /\ row \in Id!Account /\ row.verified = account[u].verified
          /\ row.phone = account[u].phone
      BY <3>1 DEF Id!Account
    <3>3. account' = [ account EXCEPT ![u] = row ] /\ UNCHANGED <<proven, links, codes>>
      BY <2>2 DEF Id!Delete
    <3>. HIDE DEF row
    <3>. QED
      BY <3>1, <3>2, <3>3
  <2>3. ASSUME NEW r \in Requests, Id!Save(r), reqOfIdentity[r].user = u
        PROVE  /\ reqOfIdentity[r].row \in Id!Account
               /\ reqOfIdentity[r].row.verified => reqOfIdentity[r].row.phone = proven[u]
               /\ account' = [ account EXCEPT ![u] = reqOfIdentity[r].row ]
               /\ UNCHANGED <<proven, links, codes>>
    BY <2>3 DEF Id!Save, Id!Doing, IdInv, IdTypes, IdRequestsAreSound, IdSound
  <2>. QED
    BY <2>1, <2>2, <2>3
<1>2. /\ account' \in [ Users -> Id!Account \union {Nil} ] /\ account'[u] = row /\ row # Nil
      /\ \A v \in Users \ {u} : account'[v] = account[v]
  BY <1>1, IdConstants DEF IdInv, IdTypes, Id!TypeOK
<1>3. IdGrows
  BY <1>1, <1>2 DEF IdGrows
<1>4. reqOfIdentity' \in [ Requests -> Id!Request \union {Nil} ] /\ IdRequestsAreSound'
  <2>1. CASE reqOfIdentity' = reqOfIdentity
    BY <1>3, <2>1 DEF IdInv, IdTypes, Id!TypeOK, IdRequestsAreSound, IdSound, IdGrows
  <2>2. ASSUME NEW r \in Requests, reqOfIdentity' = [ reqOfIdentity EXCEPT ![r] = Nil ]
        PROVE  /\ reqOfIdentity' \in [ Requests -> Id!Request \union {Nil} ]
               /\ IdRequestsAreSound'
    BY <1>3, <2>2, IdOneRequest DEF IdInv
  <2>. QED
    BY <2>1, <2>2 DEF Id!RegisterUser, Id!Delete, Id!Save, Id!Finish
<1>5. Id!TypeOK'
  BY <1>1, <1>2, <1>4 DEF IdInv, IdTypes, Id!TypeOK
<1>6. Id!VerifiedMeansProven'
  BY <1>1, <1>2 DEF IdInv, Id!VerifiedMeansProven, Id!Exists
<1>7. OneAccountPerName'
  BY <1>1 DEF IdInv, OneAccountPerName
<1>. QED
  BY <1>4, <1>5, <1>6, <1>7 DEF IdInv, IdTypes

LEMMA IdNext == IdInv /\ [Id!Next]_(Id!vars) => IdInv'
<1>. SUFFICES ASSUME IdInv, [Id!Next]_(Id!vars) PROVE IdInv'
  OBVIOUS
<1>1. CASE UNCHANGED Id!vars
  <2>1. UNCHANGED <<account, proven, links, codes, reqOfIdentity>>
    BY <1>1 DEF Id!vars
  <2>. QED
    BY <2>1 DEF IdInv, IdTypes, Id!TypeOK, IdRequestsAreSound, IdSound, OneAccountPerName,
                Id!VerifiedMeansProven, Id!Exists
<1>2. ASSUME NEW r \in Requests, Id!Proceed(r) PROVE IdInv'
  <2>1. CASE Id!Answer(r)
    <3>1. reqOfIdentity' = [ reqOfIdentity EXCEPT ![r] = Nil ]
      BY <2>1 DEF Id!Answer, Id!Finish
    <3>. QED
      BY <2>1, <3>1, IdOnlyARequest DEF Id!Answer, Id!Tables
  <2>2. CASE Id!Save(r)
    <3>1. reqOfIdentity[r].user \in Users
      BY <2>2 DEF Id!Save, Id!Doing, IdInv, IdTypes, IdRequestsAreSound, IdSound
    <3>. QED
      BY <2>2, <3>1, IdAccounts
  <2>. QED
    BY <1>2, <2>1, <2>2, IdCreate, IdLinks DEF Id!Proceed
<1>. QED
  BY <1>1, <1>2, IdBegin, IdCodes, IdAccounts DEF Id!Next

-----------------------------------------------------------------------------
(* Identity implements Directory *)

\* What Directory sees: who a name leads to, who there is, whose code each one is, and
\* the codes that were used.
Leads(rows) == [ x \in Externals |-> IF \E u \in Users : <<x, u>> \in rows
                                     THEN CHOOSE u \in Users : <<x, u>> \in rows ELSE Nil ]
Who == Leads(links)
People == { u \in Users : Id!Exists(u) }
Holder == [ c \in Codes |-> IF codes[c] = Nil THEN Nil ELSE codes[c].user ]
Spent == { c \in Codes : codes[c] # Nil /\ codes[c].used }

\* The steps of Directory in these terms.
LEMMA DirectorySteps ==
    ASSUME \/ UNCHANGED <<proven, People, Who, Holder, Spent>>
           \/ \E u \in Users :
                /\ u \notin People /\ People' = People \union {u}
                /\ UNCHANGED <<proven, Who, Holder, Spent>>
           \/ \E x \in Externals, u \in Users :
                /\ u \notin People /\ Who[x] = Nil
                /\ People' = People \union {u}
                /\ proven' = [ proven EXCEPT ![u] = PhoneOf[x] ]
                /\ Who' = [ Who EXCEPT ![x] = u ] /\ UNCHANGED <<Holder, Spent>>
           \/ \E x \in Externals, u \in Users :
                /\ u \in People /\ Who[x] = Nil
                /\ PhoneOf[x] # Nil /\ proven[u] = PhoneOf[x]
                /\ Who' = [ Who EXCEPT ![x] = u ]
                /\ UNCHANGED <<proven, People, Holder, Spent>>
           \/ \E c \in Codes, u \in Users :
                /\ u \in People /\ Holder[c] = Nil
                /\ Holder' = [ Holder EXCEPT ![c] = u ]
                /\ UNCHANGED <<proven, People, Who, Spent>>
           \/ \E c \in Codes, x \in Externals :
                /\ Holder[c] # Nil /\ c \notin Spent /\ Who[x] = Nil
                /\ Who' = [ Who EXCEPT ![x] = Holder[c] ]
                /\ Spent' = Spent \union {c} /\ UNCHANGED <<proven, People, Holder>>
           \/ \E x \in Externals :
                /\ Who[x] # Nil /\ Who' = [ Who EXCEPT ![x] = Nil ]
                /\ UNCHANGED <<proven, People, Holder, Spent>>
    PROVE  [Id!D!Next]_(Id!D!vars)
  BY DEF Id!D!Next, Id!D!vars, Id!D!SignUp, Id!D!Register, Id!D!Recognise, Id!D!Give,
         Id!D!Spend, Id!D!Release, Who, Leads, People, Holder, Spent

\* A name leads to the one account it is linked to.
LEMMA LeadsTo ==
    ASSUME NEW rows, Functional(rows), NEW x \in Externals
    PROVE  /\ \A u \in Users : <<x, u>> \in rows => Leads(rows)[x] = u
           /\ (\A u \in Users : <<x, u>> \notin rows) <=> Leads(rows)[x] = Nil
<1>1. ASSUME NEW u \in Users, <<x, u>> \in rows PROVE Leads(rows)[x] = u
  <2>. DEFINE v == CHOOSE v \in Users : <<x, v>> \in rows
  <2>1. v \in Users /\ <<x, v>> \in rows
    BY <1>1
  <2>2. v = u
    BY <1>1, <2>1 DEF Functional
  <2>. QED
    BY <1>1, <2>2 DEF Leads
<1>2. ASSUME \A u \in Users : <<x, u>> \notin rows PROVE Leads(rows)[x] = Nil
  BY <1>2 DEF Leads
<1>. QED
  BY <1>1, <1>2, IdConstants

\* One name leads elsewhere, and the others where they did.
OnlyMoves(x, rows, next) ==
    \A y \in Externals \ {x}, u \in Users : <<y, u>> \in next <=> <<y, u>> \in rows

LEMMA LeadsElsewhere ==
    ASSUME NEW rows, NEW next, Functional(rows), Functional(next), NEW x \in Externals,
           OnlyMoves(x, rows, next)
    PROVE  Leads(next) = [ Leads(rows) EXCEPT ![x] = Leads(next)[x] ]
<1>1. ASSUME NEW y \in Externals \ {x} PROVE Leads(next)[y] = Leads(rows)[y]
  BY LeadsTo DEF OnlyMoves
<1>2. Leads(next) = [ y \in Externals |-> Leads(next)[y] ]
  BY DEF Leads
<1>3. Leads(rows) = [ y \in Externals |-> Leads(rows)[y] ]
  BY DEF Leads
<1>. QED
  BY <1>1, <1>2, <1>3

\* A name that led nowhere is linked, and a link is taken away.
LEMMA Linking ==
    ASSUME OneAccountPerName, OneAccountPerName', NEW x \in Externals, NEW u \in Users,
           ~ Id!Linked(x), links' = links \union {<<x, u>>}
    PROVE  Who[x] = Nil /\ Who' = [ Who EXCEPT ![x] = u ]
<1>1. Leads(links)[x] = Nil
  BY LeadsTo DEF OneAccountPerName, Id!Linked
<1>2. Leads(links')[x] = u
  <2>1. <<x, u>> \in links' /\ Functional(links')
    BY DEF OneAccountPerName
  <2>. QED
    BY <2>1, LeadsTo
<1>3. Leads(links') = [ Leads(links) EXCEPT ![x] = Leads(links')[x] ]
  <2>1. OnlyMoves(x, links, links')
    BY DEF OnlyMoves
  <2>2. Functional(links) /\ Functional(links')
    BY DEF OneAccountPerName
  <2>. QED
    BY <2>1, <2>2, LeadsElsewhere
<1>. QED
  BY <1>1, <1>2, <1>3 DEF Who

LEMMA Unlinking ==
    ASSUME OneAccountPerName, OneAccountPerName', NEW x \in Externals, NEW u \in Users,
           <<x, u>> \in links, links' = links \ {<<x, u>>}
    PROVE  Who[x] # Nil /\ Who' = [ Who EXCEPT ![x] = Nil ]
<1>1. Leads(links)[x] # Nil
  BY LeadsTo DEF OneAccountPerName
<1>2. Leads(links')[x] = Nil
  <2>1. \A v \in Users : <<x, v>> \notin links'
    BY DEF OneAccountPerName, Functional
  <2>. QED
    BY <2>1, LeadsTo DEF OneAccountPerName
<1>3. Leads(links') = [ Leads(links) EXCEPT ![x] = Leads(links')[x] ]
  <2>1. OnlyMoves(x, links, links')
    BY DEF OnlyMoves
  <2>2. Functional(links) /\ Functional(links')
    BY DEF OneAccountPerName
  <2>. QED
    BY <2>1, <2>2, LeadsElsewhere
<1>. QED
  BY <1>1, <1>2, <1>3 DEF Who

\* Every step of Identity is one of Directory, or none.
LEMMA IdentityRefines == IdInv /\ IdInv' /\ [Id!Next]_(Id!vars) => [Id!D!Next]_(Id!D!vars)
<1>. SUFFICES ASSUME IdInv, IdInv', [Id!Next]_(Id!vars) PROVE [Id!D!Next]_(Id!D!vars)
  OBVIOUS
<1>. USE DEF IdInv
\* What each step leaves alone.
<1>a. account' = account => People' = People
  BY DEF People, Id!Exists
<1>b. codes' = codes => Holder' = Holder /\ Spent' = Spent
  BY DEF Holder, Spent
<1>c. links' = links => Who' = Who
  BY DEF Who
<1>1. CASE UNCHANGED Id!vars
  BY <1>1, <1>a, <1>b, <1>c, DirectorySteps DEF Id!vars
<1>2. ASSUME NEW r \in Requests, Id!Begin(r) PROVE [Id!D!Next]_(Id!D!vars)
  <2>1. UNCHANGED <<account, proven, links, codes>>
    BY <1>2 DEF Id!Begin, Id!Register, Id!LinkExisting, Id!Link, Id!Revoke, Id!Update, Id!Tables
  <2>. QED
    BY <2>1, <1>a, <1>b, <1>c, DirectorySteps
<1>3. ASSUME NEW r \in Requests, NEW u \in Users, Id!Create(r, u)
      PROVE  [Id!D!Next]_(Id!D!vars)
  <2>. DEFINE x == reqOfIdentity[r].ext
  <2>1. /\ reqOfIdentity[r] # Nil /\ reqOfIdentity[r].op = "register"
        /\ account[u] = Nil /\ ~ Id!Linked(x)
        /\ account' = [ account EXCEPT ![u] = Id!AccountRow(PhoneOf[x], PhoneOf[x] # Nil) ]
        /\ proven' = [ proven EXCEPT ![u] = PhoneOf[x] ]
        /\ links' = links \union {<<x, u>>} /\ codes' = codes
    BY <1>3 DEF Id!Create, Id!Doing, Id!FreshUser
  <2>2. x \in Externals
    BY <2>1 DEF IdTypes, IdRequestsAreSound, IdSound
  <2>3. Who[x] = Nil /\ Who' = [ Who EXCEPT ![x] = u ]
    BY <2>1, <2>2, Linking
  <2>4. account' \in [ Users -> Id!Account \union {Nil} ] /\ account'[u] # Nil
    <3>1. PhoneOf[x] \in Phones \union {Nil} /\ (PhoneOf[x] # Nil) \in BOOLEAN
      BY <2>2, IdConstants
    <3>2. Id!AccountRow(PhoneOf[x], PhoneOf[x] # Nil) # Nil
      BY <3>1, IdAccountRow
    <3>. QED
      BY <2>1, <3>2 DEF IdTypes, Id!TypeOK
  <2>5. u \notin People /\ People' = People \union {u}
    BY <2>1, <2>4 DEF People, Id!Exists, IdTypes, Id!TypeOK
  <2>. QED
    BY <2>1, <2>2, <2>3, <2>5, <1>b, DirectorySteps
<1>4. ASSUME NEW r \in Requests, Id!LinkExternalIdentity(r) PROVE [Id!D!Next]_(Id!D!vars)
  <2>. DEFINE x == reqOfIdentity[r].ext
              u == reqOfIdentity[r].user
  <2>1. /\ reqOfIdentity[r] # Nil /\ reqOfIdentity[r].op = "link" /\ ~ Id!Linked(x)
        /\ links' = links \union {<<x, u>>} /\ UNCHANGED <<account, proven, codes>>
    BY <1>4 DEF Id!LinkExternalIdentity, Id!Doing
  <2>2. /\ x \in Externals /\ u \in Users /\ account[u] # Nil
        /\ PhoneOf[x] # Nil /\ proven[u] = PhoneOf[x]
    BY <2>1 DEF IdTypes, IdRequestsAreSound, IdSound
  <2>3. Who[x] = Nil /\ Who' = [ Who EXCEPT ![x] = u ]
    BY <2>1, <2>2, Linking
  <2>4. u \in People
    BY <2>2 DEF People, Id!Exists
  <2>. QED
    BY <2>1, <2>2, <2>3, <2>4, <1>a, <1>b, DirectorySteps
<1>5. ASSUME NEW r \in Requests, Id!ConsumeAndLink(r) PROVE [Id!D!Next]_(Id!D!vars)
  <2>. DEFINE x == reqOfIdentity[r].ext
              c == reqOfIdentity[r].code
              u == codes[c].user
  <2>1. /\ reqOfIdentity[r] # Nil /\ reqOfIdentity[r].op = "consume" /\ ~ Id!Linked(x)
        /\ ~ codes[c].used /\ codes' = [ codes EXCEPT ![c].used = TRUE ]
        /\ links' = links \union {<<x, u>>} /\ UNCHANGED <<account, proven>>
    BY <1>5 DEF Id!ConsumeAndLink, Id!Doing, Id!Unspent
  <2>2. x \in Externals /\ c \in Codes /\ codes[c] # Nil /\ codes[c] \in Id!Code
    BY <2>1 DEF IdTypes, IdRequestsAreSound, IdSound, Id!TypeOK
  <2>3. u \in Users
    BY <2>2 DEF Id!Code
  <2>4. Who[x] = Nil /\ Who' = [ Who EXCEPT ![x] = u ]
    BY <2>1, <2>2, <2>3, Linking
  <2>5. /\ codes'[c] # Nil /\ codes'[c].used /\ codes'[c].user = u
        /\ \A d \in Codes \ {c} : codes'[d] = codes[d]
    BY <2>1, <2>2, IdConstants DEF IdTypes, Id!TypeOK, Id!Code
  <2>6. Holder[c] = u /\ Holder' = Holder
    BY <2>2, <2>5 DEF Holder
  <2>7. c \notin Spent /\ Spent' = Spent \union {c}
    BY <2>1, <2>2, <2>5 DEF Spent
  <2>. QED
    BY <2>1, <2>2, <2>3, <2>4, <2>6, <2>7, <1>a, IdConstants, DirectorySteps
<1>6. ASSUME NEW r \in Requests, Id!RevokeLink(r) PROVE [Id!D!Next]_(Id!D!vars)
  <2>. DEFINE x == reqOfIdentity[r].ext
              u == reqOfIdentity[r].user
  <2>1. /\ reqOfIdentity[r] # Nil /\ reqOfIdentity[r].op = "revoke"
        /\ links' = links \ {<<x, u>>} /\ UNCHANGED <<account, proven, codes>>
    BY <1>6 DEF Id!RevokeLink, Id!Doing
  <2>2. x \in Externals /\ u \in Users
    BY <2>1 DEF IdTypes, IdRequestsAreSound, IdSound
  <2>3. CASE <<x, u>> \in links
    <3>1. Who[x] # Nil /\ Who' = [ Who EXCEPT ![x] = Nil ]
      BY <2>1, <2>2, <2>3, Unlinking
    <3>. QED
      BY <2>1, <2>2, <3>1, <1>a, <1>b, DirectorySteps
  <2>4. CASE <<x, u>> \notin links
    <3>1. links' = links
      BY <2>1, <2>4
    <3>. QED
      BY <2>1, <3>1, <1>a, <1>b, <1>c, DirectorySteps
  <2>. QED
    BY <2>3, <2>4
<1>7. ASSUME NEW c \in Codes, NEW u \in Users, Id!Issue(c, u) PROVE [Id!D!Next]_(Id!D!vars)
  <2>1. /\ account[u] # Nil /\ codes[c] = Nil
        /\ codes' = [ codes EXCEPT ![c] = [ user |-> u, used |-> FALSE, expired |-> FALSE ] ]
        /\ UNCHANGED <<account, proven, links>>
    BY <1>7 DEF Id!Issue, Id!Exists
  <2>2. /\ codes'[c].user = u /\ ~ codes'[c].used /\ codes'[c] # Nil
        /\ \A d \in Codes \ {c} : codes'[d] = codes[d]
    <3>. DEFINE row == [ user |-> u, used |-> FALSE, expired |-> FALSE ]
    <3>1. row \in Id!Code /\ row.user = u /\ ~ row.used
      BY DEF Id!Code
    <3>2. codes'[c] = row /\ \A d \in Codes \ {c} : codes'[d] = codes[d]
      BY <2>1 DEF IdTypes, Id!TypeOK
    <3>. QED
      BY <3>1, <3>2, IdConstants
  <2>3. Holder[c] = Nil /\ Holder' = [ Holder EXCEPT ![c] = u ]
    <3>1. Holder[c] = Nil /\ Holder'[c] = u
      BY <2>1, <2>2 DEF Holder
    <3>2. \A d \in Codes \ {c} : Holder'[d] = Holder[d]
      BY <2>2 DEF Holder
    <3>3. Holder = [ d \in Codes |-> Holder[d] ] /\ Holder' = [ d \in Codes |-> Holder'[d] ]
      BY DEF Holder
    <3>. QED
      BY <3>1, <3>2, <3>3
  <2>4. Spent' = Spent
    BY <2>1, <2>2 DEF Spent
  <2>5. u \in People
    BY <2>1 DEF People, Id!Exists
  <2>. QED
    BY <2>1, <2>3, <2>4, <2>5, <1>a, <1>c, DirectorySteps
<1>8. ASSUME NEW c \in Codes, Id!Expire(c) PROVE [Id!D!Next]_(Id!D!vars)
  <2>1. /\ codes[c] # Nil /\ codes' = [ codes EXCEPT ![c].expired = TRUE ]
        /\ UNCHANGED <<account, proven, links>>
    BY <1>8 DEF Id!Expire
  <2>2. /\ codes'[c].user = codes[c].user /\ codes'[c].used = codes[c].used /\ codes'[c] # Nil
        /\ \A d \in Codes \ {c} : codes'[d] = codes[d]
    BY <2>1, IdConstants DEF IdTypes, Id!TypeOK, Id!Code
  <2>3. Holder' = Holder /\ Spent' = Spent
    BY <2>1, <2>2 DEF Holder, Spent
  <2>. QED
    BY <2>1, <2>3, <1>a, <1>c, DirectorySteps
<1>9. ASSUME NEW u \in Users, NEW phone \in Phones, Id!RegisterUser(u, phone)
      PROVE  [Id!D!Next]_(Id!D!vars)
  <2>1. /\ account[u] = Nil /\ account' = [ account EXCEPT ![u] = Id!AccountRow(phone, FALSE) ]
        /\ UNCHANGED <<proven, links, codes>>
    BY <1>9 DEF Id!RegisterUser, Id!FreshUser
  <2>2. account'[u] # Nil /\ \A v \in Users \ {u} : account'[v] = account[v]
    BY <2>1, IdAccountRow DEF IdTypes, Id!TypeOK
  <2>3. u \notin People /\ People' = People \union {u}
    BY <2>1, <2>2 DEF People, Id!Exists
  <2>. QED
    BY <2>1, <2>3, <1>b, <1>c, DirectorySteps
<1>10. ASSUME NEW u \in Users, account[u] # Nil, account'[u] # Nil,
              \A v \in Users \ {u} : account'[v] = account[v],
              UNCHANGED <<proven, links, codes>>
       PROVE  [Id!D!Next]_(Id!D!vars)
  <2>1. People' = People
    BY <1>10 DEF People, Id!Exists
  <2>. QED
    BY <2>1, <1>10, <1>b, <1>c, DirectorySteps
<1>11. ASSUME NEW u \in Users, Id!Delete(u) PROVE [Id!D!Next]_(Id!D!vars)
  <2>1. account[u] # Nil /\ account[u] \in Id!Account
    BY <1>11 DEF Id!Delete, Id!Exists, IdTypes, Id!TypeOK
  <2>2. account'[u] \in Id!Account /\ \A v \in Users \ {u} : account'[v] = account[v]
    BY <1>11, <2>1 DEF Id!Delete, IdTypes, Id!TypeOK, Id!Account
  <2>. QED
    BY <1>11, <2>1, <2>2, <1>10, IdConstants DEF Id!Delete
<1>12. ASSUME NEW r \in Requests, Id!Save(r) PROVE [Id!D!Next]_(Id!D!vars)
  <2>. DEFINE u == reqOfIdentity[r].user
  <2>1. u \in Users /\ account[u] # Nil /\ reqOfIdentity[r].row \in Id!Account
    BY <1>12 DEF Id!Save, Id!Doing, IdTypes, IdRequestsAreSound, IdSound
  <2>2. account'[u] = reqOfIdentity[r].row /\ \A v \in Users \ {u} : account'[v] = account[v]
    BY <1>12, <2>1 DEF Id!Save, IdTypes, Id!TypeOK
  <2>. QED
    BY <1>12, <2>1, <2>2, <1>10, IdConstants DEF Id!Save
<1>13. ASSUME NEW r \in Requests, Id!Answer(r) PROVE [Id!D!Next]_(Id!D!vars)
  BY <1>13, <1>a, <1>b, <1>c, DirectorySteps DEF Id!Answer, Id!Tables
<1>. QED
  BY <1>1, <1>2, <1>3, <1>4, <1>5, <1>6, <1>7, <1>8, <1>9, <1>11, <1>12, <1>13
  DEF Id!Next, Id!Proceed

LEMMA IdentityRefinesInit == Id!Init => Id!D!Init
<1>. SUFFICES ASSUME Id!Init PROVE Id!D!Init
  OBVIOUS
<1>1. /\ account = [ u \in Users |-> Nil ] /\ proven = [ u \in Users |-> Nil ]
      /\ links = {} /\ codes = [ c \in Codes |-> Nil ]
  BY DEF Id!Init
<1>. QED
  BY <1>1 DEF Id!D!Init, Id!Exists

-----------------------------------------------------------------------------
(* Identity: the theorems *)

\* VerifiedMeansProven (see Identity): however edits that save whole rows overlap, a
\* verified phone is the one the account was registered from.
THEOREM VerifiedPhonesAreProven == Id!Spec => []VerifiedMeansProven
<1>1. IdInv => VerifiedMeansProven
  BY DEF IdInv, VerifiedMeansProven
<1>. QED
  BY <1>1, IdInitially, IdNext, PTL DEF Id!Spec

\* Identity implements Directory: a name comes to lead to an account in the three
\* ways there are, and to one account at a time.
THEOREM NamesLeadToOneAccount == Id!Spec => LinksLeadToOneAccount
<1>1. Id!Spec => []IdInv
  BY IdInitially, IdNext, PTL DEF Id!Spec
<1>. QED
  BY <1>1, IdentityRefines, IdentityRefinesInit, PTL
  DEF Id!Spec, LinksLeadToOneAccount, Id!LinksLeadToOneAccount, Id!D!Spec

-----------------------------------------------------------------------------
(* Feedings: the invariant *)

\* The outcome goes with the amount that expired.
OutcomeFits(d) ==
    /\ d.outcome = "finished" => d.expired = 0
    /\ d.outcome = Nil => d.expired = Nil

\* What FeedingsAddUp says of the notes of feedings holds of those of any kind.
NotesFit ==
    activity # Nil =>
        /\ written => activity.note = Nil
        /\ written \/ strayed \/ Fd!IsGeneratedFeedingNote(activity)

DetailsFit ==
    activity # Nil /\ activity.kind = "feeding" =>
        Fd!validateFeeding(activity.details) /\ OutcomeFits(activity.details)

FdInv == Fd!TypeOK /\ NotesFit /\ DetailsFit

-----------------------------------------------------------------------------
(* Feedings: details and notes *)

LEMMA FdConstants ==
    /\ MaxML \in Nat /\ Nil \notin Nat /\ Nil # "finished" /\ Nil # "expired"
    /\ Nil \notin Fd!Notes /\ Nil \notin Fd!Row
  BY FeedingBounds DEF Fd!FeedingsAssumption

LEMMA DetailsType ==
    ASSUME NEW d \in Fd!Details, NEW v \in Fd!Amounts, NEW o \in Fd!Outcomes
    PROVE  /\ [ d EXCEPT !.leftover = v ] \in Fd!Details
           /\ [ d EXCEPT !.expired = v ] \in Fd!Details
           /\ [ d EXCEPT !.outcome = o ] \in Fd!Details
           /\ [ d EXCEPT !.outcome = o, !.expired = v ] \in Fd!Details
           /\ v # 0 => [ d EXCEPT !.volume = v ] \in Fd!Details
  BY DEF Fd!Details

LEMMA AmountsType == Nil \in Fd!Amounts /\ 0 \in Fd!Amounts /\ Nil \in Fd!Outcomes
  BY FdConstants DEF Fd!Amounts, Fd!Outcomes

LEMMA UnreportedType ==
    ASSUME NEW d \in Fd!Details
    PROVE  Fd!Unreported(d) \in Fd!Details /\ OutcomeFits(Fd!Unreported(d))
<1>1. Fd!Unreported(d) \in Fd!Details
  BY AmountsType DEF Fd!Unreported, Fd!Details
<1>. QED
  BY <1>1, FdConstants DEF Fd!Unreported, OutcomeFits, Fd!Details

\* A report leaves details whose outcome goes with the amount.
LEMMA ReportType ==
    ASSUME NEW d \in Fd!Details, NEW report,
           report.leftover \in Fd!Amounts, report.expired \in Fd!Amounts,
           report.outcome \in Fd!Outcomes
    PROVE  /\ Fd!ApplyFeedingReport(d, report) \in Fd!Details
           /\ OutcomeFits(Fd!ApplyFeedingReport(d, report))
<1>. DEFINE next == IF report.leftover = Nil THEN d
                    ELSE [ d EXCEPT !.leftover = report.leftover ]
            amount == IF report.expired = Nil THEN d.expired ELSE report.expired
<1>1. next \in Fd!Details
  BY DEF Fd!Details
<1>2. amount \in Fd!Amounts
  BY DEF Fd!Details
<1>3. Fd!ApplyFeedingReport(d, report) =
        CASE report.outcome = Nil -> Fd!Reopened(next)
          [] report.outcome = "finished" ->
               [ next EXCEPT !.outcome = "finished", !.expired = 0 ]
          [] OTHER -> [ next EXCEPT !.outcome = "expired", !.expired = amount ]
  BY DEF Fd!ApplyFeedingReport
<1>. HIDE DEF next, amount
<1>4. CASE report.outcome = Nil
  <2>1. Fd!ApplyFeedingReport(d, report) = [ next EXCEPT !.outcome = Nil, !.expired = Nil ]
    BY <1>3, <1>4, FdConstants DEF Fd!Reopened
  <2>. QED
    BY <1>1, <2>1, AmountsType, FdConstants DEF Fd!Details, OutcomeFits
<1>5. CASE report.outcome = "finished"
  <2>1. Fd!ApplyFeedingReport(d, report) = [ next EXCEPT !.outcome = "finished", !.expired = 0 ]
    BY <1>3, <1>5, FdConstants
  <2>. QED
    BY <1>1, <2>1, AmountsType, FdConstants DEF Fd!Details, Fd!Outcomes, OutcomeFits
<1>6. CASE report.outcome \notin {Nil, "finished"}
  <2>1. Fd!ApplyFeedingReport(d, report) =
          [ next EXCEPT !.outcome = "expired", !.expired = amount ]
    BY <1>3, <1>6
  <2>. QED
    BY <1>1, <1>2, <2>1, FdConstants DEF Fd!Details, Fd!Outcomes, OutcomeFits
<1>. QED
  BY <1>4, <1>5, <1>6

\* What a patch leaves are details.
LEMMA PatchesType ==
    ASSUME NEW d \in Fd!Details, NEW e \in Fd!Patches(d)
    PROVE  e \in Fd!Details
<1>0. Fd!Unreported(d) \in Fd!Details
  BY UnreportedType
<1>. DEFINE Values(key) == IF key = "outcome" THEN Fd!Outcomes ELSE Fd!Amounts
            Keyed(key) == { [ d EXCEPT ![key] = v ] : v \in Values(key) }
            Sized == { [ base EXCEPT !.volume = v ] : base \in {d, Fd!Unreported(d)},
                                                      v \in Fd!Amounts \ {0} }
<1>1. \/ e \in {d, Fd!Unreported(d)}
      \/ \E key \in Fd!ReportedKeys : \E v \in Values(key) : e = [ d EXCEPT ![key] = v ]
      \/ \E base \in {d, Fd!Unreported(d)}, v \in Fd!Amounts \ {0} :
           e = [ base EXCEPT !.volume = v ]
  <2>1. Fd!Patches(d) = {d, Fd!Unreported(d)}
                          \union (UNION { Keyed(key) : key \in Fd!ReportedKeys }) \union Sized
    BY DEF Fd!Patches
  <2>2. e \in UNION { Keyed(key) : key \in Fd!ReportedKeys } =>
          \E key \in Fd!ReportedKeys : e \in Keyed(key)
    <3>. HIDE DEF Keyed
    <3>. QED
      OBVIOUS
  <2>. HIDE DEF Values
  <2>3. ASSUME NEW key, e \in Keyed(key)
        PROVE  \E v \in Values(key) : e = [ d EXCEPT ![key] = v ]
    BY <2>3
  <2>4. e \in Sized => \E base \in {d, Fd!Unreported(d)}, v \in Fd!Amounts \ {0} :
                         e = [ base EXCEPT !.volume = v ]
    OBVIOUS
  <2>. HIDE DEF Keyed, Sized
  <2>. QED
    BY <2>1, <2>2, <2>3, <2>4
<1>2. ASSUME NEW key \in Fd!ReportedKeys,
             NEW v \in Values(key),
             e = [ d EXCEPT ![key] = v ]
      PROVE  e \in Fd!Details
  <2>1. CASE key = "leftover"
    BY <1>2, <2>1 DEF Fd!Details
  <2>2. CASE key = "expired"
    BY <1>2, <2>2 DEF Fd!Details
  <2>3. CASE key = "outcome"
    BY <1>2, <2>3 DEF Fd!Details
  <2>. QED
    BY <2>1, <2>2, <2>3 DEF Fd!ReportedKeys
<1>3. ASSUME NEW base \in {d, Fd!Unreported(d)}, NEW v \in Fd!Amounts \ {0},
             e = [ base EXCEPT !.volume = v ]
      PROVE  e \in Fd!Details
  <2>1. base \in Fd!Details
    BY <1>0
  <2>. QED
    BY <1>3, <2>1 DEF Fd!Details
<1>. QED
  BY <1>0, <1>1, <1>2, <1>3

LEMMA NoteType ==
    ASSUME NEW s \in Subjects, NEW d \in Fd!Details
    PROVE  Fd!FeedingNote(s, d) \in Fd!Notes /\ Fd!FeedingNote(s, d) # Nil
<1>1. Fd!FeedingNote(s, d) \in Fd!Notes
  BY DEF Fd!Notes
<1>. QED
  BY <1>1, FdConstants

\* A row is what it is made of.
LEMMA RowType ==
    ASSUME NEW kind \in Fd!Kinds, NEW s \in Subjects, NEW d \in Fd!Details,
           NEW note \in Fd!Notes \union {Nil},
           NEW row, row = [ kind |-> kind, subject |-> s, details |-> d, note |-> note ]
    PROVE  /\ row \in Fd!Row /\ row # Nil
           /\ row.kind = kind /\ row.subject = s /\ row.details = d /\ row.note = note
<1>1. row \in Fd!Row
  BY DEF Fd!Row
<1>. QED
  BY <1>1, FdConstants

-----------------------------------------------------------------------------
(* Feedings: every request keeps the invariant *)

LEMMA FdCreate ==
    ASSUME FdInv, NEW kind \in Fd!Kinds, NEW s \in Subjects, NEW d \in Fd!Details,
           NEW given \in BOOLEAN, Fd!Create(kind, s, d, given)
    PROVE  FdInv'
<1>. DEFINE details == IF kind = "feeding" THEN Fd!feedingCreate(d) ELSE d
            note == IF given THEN Nil ELSE Fd!FeedingNote(s, details)
<1>1. /\ Fd!createDetails(kind, d, given)
      /\ activity' = [ kind |-> kind, subject |-> s, details |-> details, note |-> note ]
      /\ written' = given /\ strayed' = FALSE
  BY DEF Fd!Create
<1>2. /\ Fd!feedingCreate(d) \in Fd!Details /\ OutcomeFits(Fd!feedingCreate(d))
  <2>1. CASE d = Fd!Unreported(d)
    BY <2>1, UnreportedType DEF Fd!feedingCreate
  <2>2. CASE d # Fd!Unreported(d)
    <3>1. Fd!Unreported(d) \in Fd!Details
      BY UnreportedType
    <3>2. d.leftover \in Fd!Amounts /\ d.expired \in Fd!Amounts /\ d.outcome \in Fd!Outcomes
      BY DEF Fd!Details
    <3>. QED
      BY <2>2, <3>1, <3>2, ReportType DEF Fd!feedingCreate
  <2>. QED
    BY <2>1, <2>2
<1>3. kind = "feeding" => Fd!validateFeeding(details)
  BY <1>1 DEF Fd!createDetails, Fd!feedingCreate
<1>4. details \in Fd!Details /\ (kind = "feeding" => OutcomeFits(details))
  BY <1>2
<1>5. kind = "other" => given
  BY <1>1 DEF Fd!createDetails
<1>. HIDE DEF details
<1>6. note \in Fd!Notes \union {Nil}
  BY <1>4, NoteType
<1>7. /\ activity' \in Fd!Row /\ activity' # Nil
      /\ activity'.kind = kind /\ activity'.subject = s
      /\ activity'.details = details /\ activity'.note = note
  BY <1>1, <1>4, <1>6, RowType
<1>8. NotesFit' /\ DetailsFit'
  BY <1>1, <1>3, <1>4, <1>7 DEF NotesFit, DetailsFit, Fd!IsGeneratedFeedingNote
<1>9. Fd!TypeOK'
  BY <1>1, <1>7 DEF Fd!TypeOK
<1>. QED
  BY <1>8, <1>9 DEF FdInv

\* Nothing is edited of what was reported, and another kind brings nothing along.
LEMMA FdUpdate ==
    ASSUME FdInv, activity # Nil, NEW kind \in Fd!Kinds, NEW s \in Subjects,
           NEW d \in Fd!Patches(activity.details), NEW given \in BOOLEAN,
           Fd!Update(kind, s, d, given)
    PROVE  FdInv'
<1>. DEFINE note == IF given THEN Nil
                    ELSE IF kind = "feeding" /\ Fd!IsGeneratedFeedingNote(activity)
                         THEN Fd!FeedingNote(s, d) ELSE activity.note
<1>1. /\ Fd!prepareDetailsUpdate(activity, kind, d)
      /\ activity' = [ kind |-> kind, subject |-> s, details |-> d, note |-> note ]
      /\ written' = (written \/ given)
      /\ strayed' = (~ given /\ (strayed \/ (kind = "other"
                       /\ <<s, d>> # <<activity.subject, activity.details>>)))
  BY DEF Fd!Update
<1>2. /\ activity \in Fd!Row /\ written \in BOOLEAN /\ strayed \in BOOLEAN
      /\ activity.kind \in Fd!Kinds /\ activity.subject \in Subjects
      /\ activity.details \in Fd!Details /\ activity.note \in Fd!Notes \union {Nil}
  BY DEF FdInv, Fd!TypeOK, Fd!Row
<1>3. d \in Fd!Details
  BY <1>2, PatchesType
<1>4. Fd!FeedingNote(s, d) \in Fd!Notes /\ Fd!FeedingNote(s, d) # Nil
  BY <1>3, NoteType
<1>5. note \in Fd!Notes \union {Nil}
  BY <1>2, <1>4
<1>6. written \/ strayed \/ Fd!IsGeneratedFeedingNote(activity)
  BY DEF FdInv, NotesFit
<1>7. Fd!IsGeneratedFeedingNote(activity) => activity.note # Nil
  BY <1>2, NoteType DEF Fd!IsGeneratedFeedingNote
<1>8. written => activity.note = Nil
  BY DEF FdInv, NotesFit
<1>9. written \/ given => note = Nil
  BY <1>7, <1>8
<1>10. written' \/ strayed' \/ note = Fd!FeedingNote(s, d)
  <2>1. CASE given
    BY <1>1, <2>1
  <2>2. CASE ~ given /\ kind = "feeding"
    BY <1>1, <1>6, <2>2
  <2>3. CASE ~ given /\ kind = "other"
    <3>1. (s = activity.subject /\ d = activity.details) \/ strayed'
      BY <1>1, <2>3
    <3>. QED
      BY <1>1, <1>6, <2>3, <3>1 DEF Fd!IsGeneratedFeedingNote
  <2>. QED
    BY <2>1, <2>2, <2>3 DEF Fd!Kinds
<1>11. kind = "feeding" => Fd!validateFeeding(d) /\ OutcomeFits(d)
  <2>. SUFFICES ASSUME kind = "feeding"
                PROVE  Fd!validateFeeding(d) /\ OutcomeFits(d)
    OBVIOUS
  <2>1. /\ Fd!feedingUpdate(activity, d)
        /\ activity.kind # "feeding" \/ d # activity.details => Fd!validateFeeding(d)
    BY <1>1 DEF Fd!prepareDetailsUpdate
  <2>2. CASE activity.kind = "feeding"
    <3>1. Fd!validateFeeding(activity.details) /\ OutcomeFits(activity.details)
      BY <2>2 DEF FdInv, DetailsFit
    <3>2. d.outcome = activity.details.outcome /\ d.expired = activity.details.expired
      <4>1. \A key \in {"leftover", "expired", "outcome"} : d[key] = activity.details[key]
        BY <2>1, <2>2 DEF Fd!feedingUpdate, Fd!ReportedKeys
      <4>. QED
        BY <4>1
    <3>. QED
      BY <2>1, <3>1, <3>2 DEF OutcomeFits
  <2>3. CASE activity.kind # "feeding"
    <3>1. d = Fd!Unreported(d)
      BY <2>1, <2>3 DEF Fd!feedingUpdate
    <3>. QED
      BY <1>3, <2>1, <2>3, <3>1, UnreportedType
  <2>. QED
    BY <2>2, <2>3
<1>. HIDE DEF note
<1>12. /\ activity' \in Fd!Row /\ activity' # Nil
       /\ activity'.kind = kind /\ activity'.subject = s
       /\ activity'.details = d /\ activity'.note = note
  BY <1>1, <1>3, <1>5, RowType
<1>13. NotesFit'
  BY <1>1, <1>9, <1>10, <1>12 DEF NotesFit, Fd!IsGeneratedFeedingNote
<1>14. DetailsFit'
  BY <1>11, <1>12 DEF DetailsFit
<1>15. Fd!TypeOK'
  BY <1>1, <1>2, <1>12 DEF Fd!TypeOK
<1>. QED
  BY <1>13, <1>14, <1>15 DEF FdInv

\* A report is taken only if what it leaves adds up.
LEMMA FdReport ==
    ASSUME FdInv, activity # Nil, NEW leftover \in Fd!Amounts, NEW expired \in Fd!Amounts,
           NEW outcome \in Fd!Outcomes, NEW named \in BOOLEAN,
           Fd!ReportFeeding([ leftover |-> leftover, expired |-> expired,
                              outcome |-> outcome ], named)
    PROVE  FdInv'
<1>. DEFINE report == [ leftover |-> leftover, expired |-> expired, outcome |-> outcome ]
            next == Fd!ApplyFeedingReport(activity.details, report)
            note == IF Fd!IsGeneratedFeedingNote(activity)
                    THEN Fd!FeedingNote(activity.subject, next) ELSE activity.note
<1>1. /\ activity.kind = "feeding" /\ Fd!validateFeeding(next)
      /\ activity' = [ activity EXCEPT !.details = next, !.note = note ]
      /\ written' = written /\ strayed' = strayed
  BY DEF Fd!ReportFeeding
<1>2. /\ activity \in Fd!Row /\ written \in BOOLEAN /\ strayed \in BOOLEAN
      /\ activity.subject \in Subjects
      /\ activity.details \in Fd!Details /\ activity.note \in Fd!Notes \union {Nil}
  BY DEF FdInv, Fd!TypeOK, Fd!Row
<1>3. next \in Fd!Details /\ OutcomeFits(next)
  BY <1>2, ReportType
<1>. HIDE DEF next
<1>4. note \in Fd!Notes \union {Nil}
  BY <1>2, <1>3, NoteType
<1>5. /\ written => activity.note = Nil
      /\ written \/ strayed \/ Fd!IsGeneratedFeedingNote(activity)
  BY DEF FdInv, NotesFit
<1>6. Fd!IsGeneratedFeedingNote(activity) => activity.note # Nil
  BY <1>2, NoteType DEF Fd!IsGeneratedFeedingNote
<1>7. /\ written => note = Nil
      /\ written \/ strayed \/ note = Fd!FeedingNote(activity.subject, next)
  BY <1>5, <1>6
<1>. HIDE DEF note
<1>8. /\ activity' \in Fd!Row /\ activity' # Nil
      /\ activity'.subject = activity.subject
      /\ activity'.details = next /\ activity'.note = note
  BY <1>1, <1>2, <1>3, <1>4, FdConstants DEF Fd!Row
<1>9. NotesFit'
  BY <1>1, <1>7, <1>8 DEF NotesFit, Fd!IsGeneratedFeedingNote
<1>10. DetailsFit'
  BY <1>1, <1>3, <1>8 DEF DetailsFit
<1>11. Fd!TypeOK'
  BY <1>1, <1>2, <1>8 DEF Fd!TypeOK
<1>. QED
  BY <1>9, <1>10, <1>11 DEF FdInv

LEMMA FdInit == Fd!Init => FdInv
  BY DEF Fd!Init, FdInv, Fd!TypeOK, NotesFit, DetailsFit

LEMMA FdNext == FdInv /\ [Fd!Next]_(Fd!vars) => FdInv'
<1>. SUFFICES ASSUME FdInv, [Fd!Next]_(Fd!vars)
              PROVE  FdInv'
  OBVIOUS
<1>1. CASE \E kind \in Fd!Kinds, s \in Subjects, d \in Fd!Details, given \in BOOLEAN :
             Fd!Create(kind, s, d, given)
  BY <1>1, FdCreate
<1>2. CASE /\ activity # Nil
           /\ \E kind \in Fd!Kinds, s \in Subjects, d \in Fd!Patches(activity.details),
                 given \in BOOLEAN : Fd!Update(kind, s, d, given)
  BY <1>2, FdUpdate
<1>3. CASE /\ activity # Nil
           /\ \E leftover \in Fd!Amounts, expired \in Fd!Amounts,
                 outcome \in Fd!Outcomes, named \in BOOLEAN :
                 Fd!ReportFeeding([ leftover |-> leftover, expired |-> expired,
                                    outcome |-> outcome ], named)
  BY <1>3, FdReport
<1>4. CASE Fd!Delete
  BY <1>4 DEF Fd!Delete, FdInv, Fd!TypeOK, NotesFit, DetailsFit
<1>5. CASE UNCHANGED Fd!vars
  BY <1>5 DEF Fd!vars, FdInv, Fd!TypeOK, NotesFit, DetailsFit, Fd!IsGeneratedFeedingNote
<1>. QED
  BY <1>1, <1>2, <1>3, <1>4, <1>5 DEF Fd!Next

\* FeedingsAddUp (see Feedings): through any reports, edits and changes of kind,
\* what a feeding says adds up and its note goes with it.
THEOREM ReportsAddUp == Fd!Spec => []FeedingsAddUp
<1>1. FdInv => FeedingsAddUp
  BY DEF FdInv, NotesFit, DetailsFit, OutcomeFits, FeedingsAddUp, Fd!FeedingsAddUp
<1>. QED
  BY <1>1, FdInit, FdNext, PTL DEF Fd!Spec

-----------------------------------------------------------------------------
(* LocationSync: the invariant *)

\* Every variable has its type; what syncing says is apart, in OneImport.
LcTypes ==
    /\ job \in [ Jobs -> Loc!Status \union {Nil} ]
    /\ worker \in [ Jobs -> Loc!Worker \union {Nil} ]
    /\ up \subseteq Processes /\ syncing \in [ Processes -> BOOLEAN ]
    /\ catalogue \in [ Lists -> Versions \union {0} ]
    /\ cache \in [ Lists -> Versions \union {Nil} ]
    /\ read \in [ Readers -> Loc!Request \union {Nil} ]
    /\ faults \in 0..MaxFaults /\ stuck \in BOOLEAN /\ overtaken \in BOOLEAN

\* A process imports for the one job that set syncing.
OneImport ==
    /\ \A j \in Jobs : Loc!Importing(j) => syncing[worker[j].process]
    /\ \A j, k \in Jobs :
         Loc!Importing(j) /\ Loc!Importing(k) /\ worker[j].process = worker[k].process => j = k
    /\ \A p \in Processes :
         syncing[p] => \E j \in Jobs : Loc!Importing(j) /\ worker[j].process = p

\* A job whose row is still to be inserted is not one StartSync waits for.
JobsEnd ==
    /\ Loc!NobodyWaitsInVain
    /\ \A j \in Jobs : Loc!Working(j, "create") => job[j] \notin Loc!Active

\* What a request will cache are rows, and if nothing was imported since, those of
\* the table.
ReadsAreFresh ==
    \A r \in Readers : Loc!At(r, "set") =>
        /\ read[r].got \in Versions
        /\ read[r].stale \/ read[r].got = catalogue[read[r].list]

CacheIsFresh == ReadsAreFresh /\ Loc!CacheFollowsTable

LcInv == LcTypes /\ OneImport /\ JobsEnd /\ CacheIsFresh

-----------------------------------------------------------------------------
(* LocationSync: workers and requests *)

LEMMA LcConstants ==
    /\ Nil \notin Nat /\ Nil \notin Loc!Status /\ Nil \notin Loc!Worker /\ Nil \notin Loc!Request
    /\ Lists \subseteq Nat \ {0} /\ Versions \subseteq Nat \ {0} /\ 1 \in Lists \intersect Versions
    /\ MaxFaults \in Nat
<1>. DEFINE n == Cardinality(Lists)
            m == Cardinality(Versions)
<1>1. /\ Lists = 1..n /\ Lists # {} /\ IsFiniteSet(Lists)
      /\ Versions = 1..m /\ Versions # {} /\ IsFiniteSet(Versions)
  <2>1. Loc!Cardinality(Lists) = n /\ Loc!Cardinality(Versions) = m
    BY DEF Loc!Cardinality, Cardinality
  <2>2. /\ Loc!IsFiniteSet(Lists) => IsFiniteSet(Lists)
        /\ Loc!IsFiniteSet(Versions) => IsFiniteSet(Versions)
    BY DEF Loc!IsFiniteSet, IsFiniteSet
  <2>. QED
    BY <2>1, <2>2, LocationBounds DEF Loc!LocationAssumption
<1>2. n \in Nat /\ m \in Nat
  BY <1>1, FS_CardinalityType
<1>. HIDE DEF n, m
<1>3. Lists \subseteq Nat \ {0} /\ Versions \subseteq Nat \ {0} /\ 1 \in Lists \intersect Versions
  BY <1>1, <1>2
<1>. QED
  BY <1>3, LocationBounds DEF Loc!LocationAssumption

LEMMA LcWorker ==
    ASSUME LcTypes, NEW j \in Jobs, worker[j] # Nil
    PROVE  /\ worker[j] \in Loc!Worker
           /\ worker[j].process \in Processes /\ worker[j].list \in Lists
           /\ worker[j].level \in Loc!Levels
           /\ worker[j].at \in {"create", "start", "run", "import", "forget", "progress",
                                "sweep", "complete", "fail", "refuse"}
  BY DEF LcTypes, Loc!Worker

\* The job's worker goes on to another step.
WorkerMoves(j, at, list) ==
    /\ worker'[j] # Nil /\ worker'[j].at = at /\ worker'[j].list = list
    /\ worker'[j].process = worker[j].process
    /\ \A k \in Jobs \ {j} : worker'[k] = worker[k]

LEMMA LcMoves ==
    ASSUME LcTypes, NEW j \in Jobs, worker[j] # Nil, NEW list \in Lists,
           NEW at \in {"create", "start", "run", "import", "forget", "progress", "sweep",
                      "complete", "fail", "refuse"},
           worker' = [ worker EXCEPT ![j].at = at, ![j].list = list ]
    PROVE  worker' \in [ Jobs -> Loc!Worker \union {Nil} ] /\ WorkerMoves(j, at, list)
<1>. DEFINE w == [ worker[j] EXCEPT !.at = at, !.list = list ]
<1>1. w \in Loc!Worker
  BY LcWorker DEF Loc!Worker
<1>2. w # Nil
  BY <1>1, LcConstants
<1>3. w.at = at /\ w.list = list /\ w.process = worker[j].process
  BY LcWorker DEF Loc!Worker
<1>4. worker' = [ worker EXCEPT ![j] = w ]
  BY DEF LcTypes
<1>. HIDE DEF w
<1>. QED
  BY <1>1, <1>2, <1>3, <1>4 DEF LcTypes, WorkerMoves

LEMMA LcGo ==
    ASSUME LcTypes, NEW j \in Jobs, worker[j] # Nil,
           NEW at \in {"create", "start", "run", "import", "forget", "progress", "sweep",
                      "complete", "fail", "refuse"},
           Loc!Go(j, at)
    PROVE  /\ worker' \in [ Jobs -> Loc!Worker \union {Nil} ]
           /\ WorkerMoves(j, at, worker[j].list)
<1>. DEFINE w == [ worker[j] EXCEPT !.at = at ]
<1>1. w \in Loc!Worker
  BY LcWorker DEF Loc!Worker
<1>2. w # Nil
  BY <1>1, LcConstants
<1>3. w.at = at /\ w.list = worker[j].list /\ w.process = worker[j].process
  BY LcWorker DEF Loc!Worker
<1>4. worker' = [ worker EXCEPT ![j] = w ]
  BY DEF LcTypes, Loc!Go
<1>. HIDE DEF w
<1>. QED
  BY <1>1, <1>2, <1>3, <1>4 DEF LcTypes, WorkerMoves

\* The job's worker is gone.
WorkerEnds(j) == worker'[j] = Nil /\ \A k \in Jobs \ {j} : worker'[k] = worker[k]

LEMMA LcEnds ==
    ASSUME LcTypes, NEW j \in Jobs, worker' = [ worker EXCEPT ![j] = Nil ]
    PROVE  worker' \in [ Jobs -> Loc!Worker \union {Nil} ] /\ WorkerEnds(j)
  BY DEF LcTypes, WorkerEnds

LEMMA LcReturn ==
    ASSUME LcTypes, NEW j \in Jobs, worker[j] # Nil, Loc!Return(j)
    PROVE  /\ worker' \in [ Jobs -> Loc!Worker \union {Nil} ] /\ WorkerEnds(j)
           /\ syncing' \in [ Processes -> BOOLEAN ]
           /\ ~ syncing'[worker[j].process]
           /\ \A p \in Processes \ {worker[j].process} : syncing'[p] = syncing[p]
<1>1. worker[j].process \in Processes
  BY LcWorker
<1>2. worker' = [ worker EXCEPT ![j] = Nil ]
      /\ syncing' = [ syncing EXCEPT ![worker[j].process] = FALSE ]
  BY DEF Loc!Return
<1>3. syncing \in [ Processes -> BOOLEAN ]
  BY DEF LcTypes
<1>. QED
  BY <1>1, <1>2, <1>3, LcEnds

LEMMA LcStatus ==
    ASSUME LcTypes, NEW j \in Jobs, NEW status \in Loc!Status, Loc!SetStatus(j, status)
    PROVE  /\ job' \in [ Jobs -> Loc!Status \union {Nil} ]
           /\ job'[j] = status /\ \A k \in Jobs \ {j} : job'[k] = job[k]
  BY DEF LcTypes, Loc!SetStatus

LEMMA LcFault ==
    ASSUME LcTypes, Loc!Fault
    PROVE  faults' \in 0..MaxFaults
  BY LcConstants DEF LcTypes, Loc!Fault

\* What an import does to the requests that have read.
LEMMA LcOvertaken ==
    ASSUME LcTypes, ReadsAreFresh, NEW list \in Lists, NEW version \in Versions
    PROVE  /\ Loc!Overtaken(list, version) \in [ Readers -> Loc!Request \union {Nil} ]
           /\ \A r \in Readers :
                /\ Loc!Overtaken(list, version)[r] = Nil <=> read[r] = Nil
                /\ read[r] # Nil =>
                     /\ Loc!Overtaken(list, version)[r].at = read[r].at
                     /\ Loc!Overtaken(list, version)[r].list = read[r].list
                     /\ Loc!Overtaken(list, version)[r].got = read[r].got
                     /\ ~ Loc!Overtaken(list, version)[r].stale =>
                          /\ ~ read[r].stale
                          /\ read[r].list = list => version = catalogue[list]
<1>. DEFINE stale(r) == read[r].stale \/ (read[r].list = list /\ version # catalogue[list])
            q(r) == [ read[r] EXCEPT !.stale = stale(r) ]
<1>1. Loc!Overtaken(list, version) = [ r \in Readers |-> IF read[r] = Nil THEN Nil ELSE q(r) ]
  BY DEF Loc!Overtaken
<1>2. ASSUME NEW r \in Readers, read[r] # Nil
      PROVE  /\ q(r) \in Loc!Request /\ q(r) # Nil
             /\ q(r).at = read[r].at /\ q(r).list = read[r].list /\ q(r).got = read[r].got
             /\ q(r).stale = stale(r)
  <2>1. read[r] \in Loc!Request
    BY <1>2 DEF LcTypes
  <2>2. stale(r) \in BOOLEAN
    BY <2>1 DEF Loc!Request
  <2>. HIDE DEF stale
  <2>3. q(r) \in Loc!Request
    BY <2>1, <2>2 DEF Loc!Request
  <2>. QED
    BY <2>1, <2>2, <2>3, LcConstants DEF Loc!Request
<1>. HIDE DEF q
<1>. QED
  BY <1>1, <1>2

-----------------------------------------------------------------------------
(* LocationSync: every step keeps the types *)

LEMMA LcTypesKept == LcTypes /\ ReadsAreFresh /\ [Loc!Next]_(Loc!vars) => LcTypes'
<1>. SUFFICES ASSUME LcTypes, ReadsAreFresh, [Loc!Next]_(Loc!vars)
              PROVE  LcTypes'
  OBVIOUS
<1>0. UNCHANGED Loc!vars => LcTypes'
  BY DEF LcTypes, Loc!vars, Loc!rows, Loc!ghosts
<1>1. ASSUME NEW j \in Jobs, NEW p \in Processes, NEW level \in Loc!Levels,
             Loc!StartSync(j, p, level)
      PROVE  LcTypes'
  <2>. DEFINE list == IF level = Loc!All THEN 1 ELSE level
              w == [ process |-> p, at |-> "create", level |-> level, list |-> list ]
  <2>1. list \in Lists
    BY LcConstants DEF Loc!Levels, Loc!All
  <2>2. w \in Loc!Worker
    BY <2>1 DEF Loc!Worker
  <2>3. worker' = [ worker EXCEPT ![j] = w ]
        /\ UNCHANGED <<job, catalogue, up, syncing, cache, read, faults, stuck, overtaken>>
    BY <1>1 DEF Loc!StartSync, Loc!rows, Loc!ghosts
  <2>. HIDE DEF w
  <2>. QED
    BY <2>2, <2>3 DEF LcTypes
<1>2. ASSUME NEW j \in Jobs, Loc!Work(j) PROVE LcTypes'
  <2>1. worker[j] # Nil
    BY <1>2 DEF Loc!Work, Loc!Working, Loc!CreateSyncJob, Loc!CompareAndSwap, Loc!MarkRunning,
       Loc!Import, Loc!DeleteKey, Loc!Progress, Loc!DeletePrefix, Loc!Complete, Loc!MarkFailed
  <2>2. /\ worker[j].process \in Processes /\ worker[j].list \in Lists
    BY <2>1, LcWorker
  <2>3. /\ "queued" \in Loc!Status /\ "running" \in Loc!Status
        /\ "completed" \in Loc!Status /\ "failed" \in Loc!Status
    BY DEF Loc!Status, Loc!Active
  <2>4. CASE Loc!CreateSyncJob(j)
    BY <2>4, <2>1, <2>3, LcStatus, LcGo, LcFault, LcEnds
    DEF Loc!CreateSyncJob, Loc!ghosts, LcTypes
  <2>5. CASE Loc!CompareAndSwap(j)
    <3>1. /\ Loc!Go(j, "refuse") \/ Loc!Go(j, "run")
          /\ syncing' = syncing \/ syncing' = [ syncing EXCEPT ![worker[j].process] = TRUE ]
          /\ UNCHANGED <<job, catalogue, up, cache, read, faults, stuck, overtaken>>
      BY <2>5 DEF Loc!CompareAndSwap, Loc!rows, Loc!ghosts
    <3>. QED
      BY <3>1, <2>1, LcGo DEF LcTypes
  <2>6. CASE Loc!MarkRunning(j)
    BY <2>6, <2>1, <2>3, LcStatus, LcGo, LcFault, LcReturn DEF Loc!MarkRunning, LcTypes
  <2>7. CASE Loc!Import(j)
    <3>1. CASE \E version \in Versions :
                 Loc!Upsert(worker[j].list, version) /\ Loc!Go(j, "forget") /\ UNCHANGED faults
      <4>1. PICK version \in Versions :
                 Loc!Upsert(worker[j].list, version) /\ Loc!Go(j, "forget") /\ UNCHANGED faults
        BY <3>1
      <4>2. read' \in [ Readers -> Loc!Request \union {Nil} ]
        BY <4>1, <2>2, LcOvertaken DEF Loc!Upsert
      <4>. QED
        BY <4>1, <4>2, <2>1, <2>7, LcGo DEF Loc!Import, Loc!Upsert, Loc!ghosts, LcTypes
    <3>2. CASE Loc!Fault /\ Loc!Go(j, "fail") /\ UNCHANGED <<catalogue, read>>
      BY <3>2, <2>1, <2>7, LcGo, LcFault DEF Loc!Import, Loc!ghosts, LcTypes
    <3>. QED
      BY <2>7, <3>1, <3>2 DEF Loc!Import
  <2>8. CASE Loc!DeleteKey(j)
    <3>1. /\ Loc!Go(j, "progress") \/ Loc!Go(j, "complete")
          /\ \/ cache' = [ cache EXCEPT ![worker[j].list] = Nil ]
                /\ UNCHANGED <<faults, overtaken>>
             \/ Loc!Fault /\ overtaken' = TRUE /\ UNCHANGED cache
          /\ UNCHANGED <<job, catalogue, up, syncing, read, stuck>>
      BY <2>8 DEF Loc!DeleteKey, Loc!Deleted, Loc!rows
    <3>. QED
      BY <3>1, <2>1, LcGo, LcFault DEF LcTypes
  <2>9. CASE Loc!Progress(j)
    <3>1. worker' \in [ Jobs -> Loc!Worker \union {Nil} ]
      <4>1. CASE worker[j].list + 1 \in Lists
        BY <4>1, <2>1, <2>9, LcMoves DEF Loc!Progress
      <4>2. CASE worker[j].list + 1 \notin Lists
        BY <4>2, <2>1, <2>9, LcGo DEF Loc!Progress, Loc!Go
      <4>. QED
        BY <4>1, <4>2
    <3>. QED
      BY <3>1, <2>3, <2>9, LcStatus, LcFault DEF Loc!Progress, Loc!ghosts, LcTypes
  <2>10. CASE Loc!DeletePrefix(j)
    BY <2>10, <2>1, LcGo, LcFault DEF Loc!DeletePrefix, Loc!rows, Loc!ghosts, LcTypes
  <2>11. CASE Loc!Complete(j)
    BY <2>11, <2>1, <2>3, LcStatus, LcFault, LcReturn DEF Loc!Complete, LcTypes
  <2>12. CASE Loc!MarkFailed(j)
    <3>1. /\ worker' \in [ Jobs -> Loc!Worker \union {Nil} ]
          /\ syncing' \in [ Processes -> BOOLEAN ]
      BY <2>12, <2>1, LcReturn, LcEnds DEF Loc!MarkFailed, Loc!Refuse, LcTypes
    <3>. QED
      BY <3>1, <2>3, <2>12, LcStatus, LcFault DEF Loc!MarkFailed, LcTypes
  <2>. QED
    BY <1>2, <2>4, <2>5, <2>6, <2>7, <2>8, <2>9, <2>10, <2>11, <2>12 DEF Loc!Work
<1>3. ASSUME NEW r \in Readers, NEW p \in Processes, NEW list \in Lists, Loc!Get(r, p, list)
      PROVE  LcTypes'
  <2>. DEFINE q == [ process |-> p, at |-> "list", list |-> list, got |-> 0, stale |-> FALSE ]
  <2>1. q \in Loc!Request
    BY DEF Loc!Request
  <2>2. read' = [ read EXCEPT ![r] = q ]
        /\ UNCHANGED <<job, catalogue, worker, up, syncing, cache, faults, stuck, overtaken>>
    BY <1>3 DEF Loc!Get, Loc!Begin, Loc!rows, Loc!ghosts
  <2>. HIDE DEF q
  <2>. QED
    BY <2>1, <2>2 DEF LcTypes
<1>4. ASSUME NEW r \in Readers, read[r] # Nil, NEW q \in Loc!Request \union {Nil},
             read' = [ read EXCEPT ![r] = q ],
             cache' \in [ Lists -> Versions \union {Nil} ], overtaken' \in BOOLEAN,
             faults' \in 0..MaxFaults,
             UNCHANGED <<job, catalogue, worker, up, syncing, stuck>>
      PROVE  LcTypes'
  BY <1>4 DEF LcTypes
<1>5. ASSUME NEW r \in Readers, read[r] # Nil
      PROVE  read[r] \in Loc!Request /\ read[r].list \in Lists
             /\ read[r].got \in Versions \union {0} /\ read[r].stale \in BOOLEAN
  BY <1>5 DEF LcTypes, Loc!Request
<1>6. ASSUME NEW r \in Readers, Loc!ListRows(r) PROVE LcTypes'
  <2>. DEFINE got == catalogue[read[r].list]
              q == [ read[r] EXCEPT !.got = got, !.stale = FALSE,
                                    !.at = IF got = 0 THEN "import" ELSE "set" ]
  <2>1. read[r] # Nil
    BY <1>6 DEF Loc!ListRows, Loc!At
  <2>2. got \in Versions \union {0}
    BY <1>5, <2>1 DEF LcTypes
  <2>. HIDE DEF got
  <2>3. q \in Loc!Request
    BY <1>5, <2>1, <2>2 DEF Loc!Request
  <2>4. read' = [ read EXCEPT ![r] = q ]
    BY <1>6 DEF Loc!ListRows, got, LcTypes
  <2>. HIDE DEF q
  <2>. QED
    BY <1>4, <1>6, <2>1, <2>3, <2>4 DEF Loc!ListRows, Loc!rows, Loc!ghosts, LcTypes
<1>7. ASSUME NEW r \in Readers, Loc!ImportRows(r) PROVE LcTypes'
  <2>1. read[r] # Nil
    BY <1>7 DEF Loc!ImportRows, Loc!At
  <2>2. PICK version \in Versions :
          /\ catalogue' = [ catalogue EXCEPT ![read[r].list] = version ]
          /\ read' = [ Loc!Overtaken(read[r].list, version) EXCEPT
                        ![r].at = "set", ![r].got = version, ![r].stale = FALSE ]
    BY <1>7 DEF Loc!ImportRows
  <2>. DEFINE over == Loc!Overtaken(read[r].list, version)
              q == [ over[r] EXCEPT !.at = "set", !.got = version, !.stale = FALSE ]
  <2>3. over \in [ Readers -> Loc!Request \union {Nil} ] /\ over[r] # Nil
    BY <1>5, <2>1, LcOvertaken
  <2>. HIDE DEF over
  <2>4. q \in Loc!Request
    BY <2>3 DEF Loc!Request
  <2>5. read' = [ over EXCEPT ![r] = q ]
    BY <2>2, <2>3 DEF over
  <2>. HIDE DEF q
  <2>6. read' \in [ Readers -> Loc!Request \union {Nil} ]
    BY <2>3, <2>4, <2>5
  <2>7. catalogue' \in [ Lists -> Versions \union {0} ]
    BY <1>5, <2>1, <2>2 DEF LcTypes
  <2>. QED
    BY <1>7, <2>6, <2>7 DEF Loc!ImportRows, Loc!ghosts, LcTypes
<1>8. ASSUME NEW r \in Readers, Loc!Set(r) PROVE LcTypes'
  <2>1. read[r] # Nil
    BY <1>8 DEF Loc!Set, Loc!At
  <2>2. /\ cache' = [ cache EXCEPT ![read[r].list] = read[r].got ]
        /\ overtaken' = (overtaken \/ read[r].stale) /\ read' = [ read EXCEPT ![r] = Nil ]
        /\ read[r].got \in Versions
        /\ UNCHANGED <<job, catalogue, worker, up, syncing, faults, stuck>>
    BY <1>8 DEF Loc!Set, Loc!Finish, Loc!rows, ReadsAreFresh
  <2>. QED
    BY <1>4, <1>5, <2>1, <2>2 DEF LcTypes
<1>9. ASSUME NEW r \in Readers, Loc!Fail(r) PROVE LcTypes'
  BY <1>4, <1>9, LcFault DEF Loc!Fail, Loc!Finish, Loc!rows, LcTypes
<1>10. ASSUME NEW p \in Processes, Loc!Crash(p) PROVE LcTypes'
  BY <1>10, LcFault DEF Loc!Crash, Loc!rows, LcTypes
<1>11. ASSUME NEW p \in Processes, Loc!Start(p) PROVE LcTypes'
  BY <1>11, LcFault DEF Loc!Start, Loc!Status, LcTypes
<1>12. ASSUME NEW list \in Lists, Loc!Expire(list) PROVE LcTypes'
  BY <1>12 DEF Loc!Expire, Loc!rows, Loc!ghosts, LcTypes
<1>. QED
  BY <1>0, <1>1, <1>2, <1>3, <1>6, <1>7, <1>8, <1>9, <1>10, <1>11, <1>12 DEF Loc!Next

-----------------------------------------------------------------------------
(* LocationSync: one import in a process *)

\* The other workers stay where they are.
OthersStay(j) == \A k \in Jobs \ {j} : worker'[k] = worker[k]

LEMMA LcSameImports ==
    ASSUME OneImport, NEW j \in Jobs, OthersStay(j), syncing' = syncing,
           Loc!Importing(j)' <=> Loc!Importing(j),
           Loc!Importing(j) => worker'[j].process = worker[j].process
    PROVE  OneImport'
<1>1. \A k \in Jobs : /\ Loc!Importing(k)' <=> Loc!Importing(k)
                      /\ Loc!Importing(k) => worker'[k].process = worker[k].process
  BY DEF OthersStay, Loc!Importing
<1>. QED
  BY <1>1 DEF OneImport

LEMMA LcNoMoreImports ==
    ASSUME LcTypes, OneImport, NEW j \in Jobs, Loc!Importing(j), Loc!Return(j)
    PROVE  OneImport'
<1>1. worker[j] # Nil
  BY DEF Loc!Importing
<1>2. /\ WorkerEnds(j) /\ ~ syncing'[worker[j].process]
      /\ \A p \in Processes \ {worker[j].process} : syncing'[p] = syncing[p]
  BY <1>1, LcReturn
<1>3. ~ Loc!Importing(j)' /\ \A k \in Jobs \ {j} : /\ Loc!Importing(k)' <=> Loc!Importing(k)
                                                /\ worker'[k] = worker[k]
  BY <1>2 DEF WorkerEnds, Loc!Importing
<1>4. \A k \in Jobs : Loc!Importing(k) => worker[k].process \in Processes
  BY LcWorker DEF Loc!Importing
<1>5. \A k \in Jobs : Loc!Importing(k)' => syncing'[worker'[k].process]
  BY <1>2, <1>3, <1>4 DEF OneImport
<1>6. \A k, l \in Jobs : Loc!Importing(k)' /\ Loc!Importing(l)'
                          /\ worker'[k].process = worker'[l].process => k = l
  BY <1>3 DEF OneImport
<1>7. ASSUME NEW p \in Processes, syncing'[p]
      PROVE  \E k \in Jobs : Loc!Importing(k)' /\ worker'[k].process = p
  <2>1. p # worker[j].process /\ syncing[p]
    BY <1>2, <1>7
  <2>2. PICK k \in Jobs : Loc!Importing(k) /\ worker[k].process = p
    BY <2>1 DEF OneImport
  <2>. QED
    BY <1>3, <2>1, <2>2
<1>. QED
  BY <1>5, <1>6, <1>7 DEF OneImport

LEMMA LcOneImport == LcTypes /\ OneImport /\ [Loc!Next]_(Loc!vars) => OneImport'
<1>. SUFFICES ASSUME LcTypes, OneImport, [Loc!Next]_(Loc!vars)
              PROVE  OneImport'
  OBVIOUS
<1>0. ASSUME worker' = worker, syncing' = syncing PROVE OneImport'
  BY <1>0 DEF OneImport, Loc!Importing
<1>1. ASSUME NEW j \in Jobs, NEW p \in Processes, NEW level \in Loc!Levels,
             Loc!StartSync(j, p, level)
      PROVE  OneImport'
  <2>. DEFINE w == [ process |-> p, at |-> "create", level |-> level,
                     list |-> IF level = Loc!All THEN 1 ELSE level ]
  <2>1. worker' = [ worker EXCEPT ![j] = w ] /\ worker[j] = Nil /\ syncing' = syncing
    BY <1>1 DEF Loc!StartSync
  <2>2. w.at = "create"
    OBVIOUS
  <2>. HIDE DEF w
  <2>3. OthersStay(j) /\ ~ Loc!Importing(j) /\ ~ Loc!Importing(j)'
    BY <2>1, <2>2 DEF LcTypes, OthersStay, Loc!Importing
  <2>. QED
    BY <2>1, <2>3, LcSameImports
<1>2. ASSUME NEW j \in Jobs, worker[j] # Nil, NEW list, NEW at, WorkerMoves(j, at, list),
             syncing' = syncing,
             at \in {"create", "start", "refuse"} <=>
                worker[j].at \in {"create", "start", "refuse"}
      PROVE  OneImport'
  <2>1. OthersStay(j) /\ (Loc!Importing(j)' <=> Loc!Importing(j))
        /\ worker'[j].process = worker[j].process
    BY <1>2 DEF WorkerMoves, OthersStay, Loc!Importing
  <2>. QED
    BY <1>2, <2>1, LcSameImports
<1>3. ASSUME NEW j \in Jobs, ~ Loc!Importing(j), worker' = [ worker EXCEPT ![j] = Nil ],
             syncing' = syncing
      PROVE  OneImport'
  <2>1. OthersStay(j) /\ ~ Loc!Importing(j)'
    BY <1>3 DEF LcTypes, OthersStay, Loc!Importing
  <2>. QED
    BY <1>3, <2>1, LcSameImports
<1>4. ASSUME NEW j \in Jobs, Loc!Work(j) PROVE OneImport'
  <2>1. worker[j] # Nil
    BY <1>4 DEF Loc!Work, Loc!Working, Loc!CreateSyncJob, Loc!CompareAndSwap, Loc!MarkRunning,
       Loc!Import, Loc!DeleteKey, Loc!Progress, Loc!DeletePrefix, Loc!Complete, Loc!MarkFailed
  <2>2. worker[j].process \in Processes /\ worker[j].list \in Lists
    BY <2>1, LcWorker
  <2>3. CASE Loc!CreateSyncJob(j)
    <3>1. worker[j].at = "create" /\ syncing' = syncing
      BY <2>3 DEF Loc!CreateSyncJob, Loc!Working
    <3>2. CASE Loc!Go(j, "start")
      BY <1>2, <2>1, <3>1, <3>2, LcGo
    <3>3. CASE worker' = [ worker EXCEPT ![j] = Nil ]
      BY <1>3, <3>1, <3>3 DEF Loc!Importing
    <3>. QED
      BY <2>3, <3>2, <3>3 DEF Loc!CreateSyncJob
  <2>4. CASE Loc!CompareAndSwap(j)
    <3>1. worker[j].at = "start" /\ ~ Loc!Importing(j)
      BY <2>4 DEF Loc!CompareAndSwap, Loc!Working, Loc!Importing
    <3>2. CASE syncing[worker[j].process]
      <4>1. Loc!Go(j, "refuse") /\ syncing' = syncing
        BY <2>4, <3>2 DEF Loc!CompareAndSwap
      <4>. QED
        BY <1>2, <2>1, <3>1, <4>1, LcGo
    <3>3. CASE ~ syncing[worker[j].process]
      <4>. DEFINE p == worker[j].process
      <4>1. Loc!Go(j, "run") /\ syncing' = [ syncing EXCEPT ![p] = TRUE ]
        BY <2>4, <3>3 DEF Loc!CompareAndSwap
      <4>2. WorkerMoves(j, "run", worker[j].list)
        BY <2>1, <4>1, LcGo
      <4>3. /\ Loc!Importing(j)' /\ worker'[j].process = p
            /\ \A k \in Jobs \ {j} : (Loc!Importing(k)' <=> Loc!Importing(k))
                                     /\ worker'[k] = worker[k]
        BY <4>2 DEF WorkerMoves, Loc!Importing
      <4>4. syncing'[p] /\ \A o \in Processes \ {p} : syncing'[o] = syncing[o]
        BY <2>2, <4>1 DEF LcTypes
      <4>5. \A k \in Jobs : Loc!Importing(k) => worker[k].process \in Processes \ {p}
        BY <3>3, LcWorker DEF OneImport, Loc!Importing
      <4>. HIDE DEF p
      <4>6. \A k \in Jobs : Loc!Importing(k)' => syncing'[worker'[k].process]
        BY <4>3, <4>4, <4>5 DEF OneImport
      <4>7. \A k, l \in Jobs : Loc!Importing(k)' /\ Loc!Importing(l)'
                                /\ worker'[k].process = worker'[l].process => k = l
        BY <4>3, <4>5 DEF OneImport
      <4>8. ASSUME NEW o \in Processes, syncing'[o]
            PROVE  \E k \in Jobs : Loc!Importing(k)' /\ worker'[k].process = o
        <5>1. CASE o = p
          BY <4>3, <5>1
        <5>2. CASE o # p
          <6>1. PICK k \in Jobs : Loc!Importing(k) /\ worker[k].process = o
            BY <4>4, <4>8, <5>2 DEF OneImport
          <6>. QED
            BY <3>1, <4>3, <6>1
        <5>. QED
          BY <5>1, <5>2
      <4>. QED
        BY <4>6, <4>7, <4>8 DEF OneImport
    <3>. QED
      BY <3>2, <3>3
  <2>5. CASE Loc!MarkRunning(j)
    <3>1. worker[j].at = "run" /\ Loc!Importing(j)
      BY <2>5 DEF Loc!MarkRunning, Loc!Working, Loc!Importing
    <3>2. CASE Loc!Go(j, "import") /\ syncing' = syncing
      BY <1>2, <2>1, <3>1, <3>2, LcGo
    <3>3. CASE Loc!Return(j)
      BY <3>1, <3>3, LcNoMoreImports
    <3>. QED
      BY <2>5, <3>2, <3>3 DEF Loc!MarkRunning
  <2>6. CASE Loc!Import(j)
    <3>1. worker[j].at = "import" /\ syncing' = syncing
          /\ (Loc!Go(j, "forget") \/ Loc!Go(j, "fail"))
      BY <2>6 DEF Loc!Import, Loc!Working
    <3>. QED
      BY <1>2, <2>1, <3>1, LcGo
  <2>7. CASE Loc!DeleteKey(j)
    <3>1. worker[j].at = "forget" /\ syncing' = syncing
          /\ (Loc!Go(j, "progress") \/ Loc!Go(j, "complete"))
      BY <2>7 DEF Loc!DeleteKey, Loc!Working
    <3>. QED
      BY <1>2, <2>1, <3>1, LcGo
  <2>8. CASE Loc!Progress(j)
    <3>1. worker[j].at = "progress" /\ syncing' = syncing
      BY <2>8 DEF Loc!Progress, Loc!Working
    <3>2. CASE worker[j].list + 1 \in Lists
      <4>1. WorkerMoves(j, "import", worker[j].list + 1)
        BY <2>1, <2>8, <3>2, LcMoves DEF Loc!Progress
      <4>. QED
        BY <1>2, <2>1, <3>1, <4>1
    <3>3. CASE worker[j].list + 1 \notin Lists
      <4>1. Loc!Go(j, "sweep")
        BY <2>8, <3>3 DEF Loc!Progress, Loc!Go
      <4>. QED
        BY <1>2, <2>1, <3>1, <4>1, LcGo
    <3>. QED
      BY <3>2, <3>3
  <2>9. CASE Loc!DeletePrefix(j)
    <3>1. worker[j].at = "sweep" /\ syncing' = syncing /\ Loc!Go(j, "complete")
      BY <2>9 DEF Loc!DeletePrefix, Loc!Working
    <3>. QED
      BY <1>2, <2>1, <3>1, LcGo
  <2>10. CASE Loc!Complete(j)
    <3>1. Loc!Importing(j) /\ Loc!Return(j)
      BY <2>10 DEF Loc!Complete, Loc!Working, Loc!Importing
    <3>. QED
      BY <3>1, LcNoMoreImports
  <2>11. CASE Loc!MarkFailed(j)
    <3>1. CASE Loc!Working(j, "fail") /\ Loc!Return(j)
      BY <3>1, LcNoMoreImports DEF Loc!Working, Loc!Importing
    <3>2. CASE Loc!Working(j, "refuse") /\ Loc!Refuse(j)
      BY <1>3, <3>2 DEF Loc!Refuse, Loc!Working, Loc!Importing
    <3>. QED
      BY <2>11, <3>1, <3>2 DEF Loc!MarkFailed
  <2>. QED
    BY <1>4, <2>3, <2>4, <2>5, <2>6, <2>7, <2>8, <2>9, <2>10, <2>11 DEF Loc!Work
<1>5. ASSUME NEW r \in Readers,
             \/ \E p \in Processes, list \in Lists : Loc!Get(r, p, list)
             \/ Loc!ListRows(r) \/ Loc!ImportRows(r) \/ Loc!Set(r) \/ Loc!Fail(r)
      PROVE  OneImport'
  BY <1>0, <1>5 DEF Loc!Get, Loc!ListRows, Loc!ImportRows, Loc!Set, Loc!Fail
<1>6. ASSUME NEW p \in Processes, Loc!Crash(p) PROVE OneImport'
  <2>1. /\ syncing' = [ syncing EXCEPT ![p] = FALSE ]
        /\ worker' = [ j \in Jobs |-> IF worker[j] # Nil /\ worker[j].process = p
                                      THEN Nil ELSE worker[j] ]
    BY <1>6 DEF Loc!Crash
  <2>2. \A j \in Jobs : /\ Loc!Importing(j)' <=> Loc!Importing(j) /\ worker[j].process # p
                        /\ Loc!Importing(j)' => worker'[j] = worker[j]
    BY <2>1 DEF Loc!Importing
  <2>3. ~ syncing'[p] /\ \A o \in Processes \ {p} : syncing'[o] = syncing[o]
    BY <2>1 DEF LcTypes
  <2>4. \A j \in Jobs : Loc!Importing(j) => worker[j].process \in Processes
    BY LcWorker DEF Loc!Importing
  <2>5. \A j \in Jobs : Loc!Importing(j)' => syncing'[worker'[j].process]
    BY <2>2, <2>3, <2>4 DEF OneImport
  <2>6. \A j, k \in Jobs : Loc!Importing(j)' /\ Loc!Importing(k)'
                            /\ worker'[j].process = worker'[k].process => j = k
    BY <2>2 DEF OneImport
  <2>7. ASSUME NEW o \in Processes, syncing'[o]
        PROVE  \E j \in Jobs : Loc!Importing(j)' /\ worker'[j].process = o
    <3>1. o # p /\ syncing[o]
      BY <2>3, <2>7
    <3>2. PICK j \in Jobs : Loc!Importing(j) /\ worker[j].process = o
      BY <3>1 DEF OneImport
    <3>. QED
      BY <2>2, <3>1, <3>2
  <2>. QED
    BY <2>5, <2>6, <2>7 DEF OneImport
<1>7. ASSUME NEW p \in Processes, Loc!Start(p) PROVE OneImport'
  BY <1>0, <1>7 DEF Loc!Start
<1>8. ASSUME NEW list \in Lists, Loc!Expire(list) PROVE OneImport'
  BY <1>0, <1>8 DEF Loc!Expire
<1>9. CASE UNCHANGED Loc!vars
  BY <1>0, <1>9 DEF Loc!vars
<1>. QED
  BY <1>1, <1>4, <1>5, <1>6, <1>7, <1>8, <1>9 DEF Loc!Next

-----------------------------------------------------------------------------
(* LocationSync: jobs that StartSync waits for *)

\* The rows of the other jobs stay as they are.
OtherRowsStay(j) == \A k \in Jobs \ {j} : job'[k] = job[k]

\* A job's own step leaves it worked on, or ended, unless its status is stuck.
LEMMA LcJobSteps ==
    ASSUME JobsEnd, NEW j \in Jobs, OthersStay(j), OtherRowsStay(j), up' = up,
           stuck => stuck',
           worker'[j] # Nil \/ stuck' \/ job'[j] \notin Loc!Active,
           worker'[j] = Nil \/ worker'[j].at # "create" \/ job'[j] \notin Loc!Active
    PROVE  JobsEnd'
<1>1. ASSUME NEW k \in Jobs, job'[k] \in Loc!Active
      PROVE  worker'[k] # Nil \/ up' # Processes \/ stuck'
  <2>1. CASE k = j
    BY <1>1, <2>1
  <2>2. CASE k # j
    <3>1. worker'[k] = worker[k] /\ job'[k] = job[k]
      BY <2>2 DEF OthersStay, OtherRowsStay
    <3>. QED
      BY <1>1, <3>1 DEF JobsEnd, Loc!NobodyWaitsInVain, Loc!ActiveJobs
  <2>. QED
    BY <2>1, <2>2
<1>2. ASSUME NEW k \in Jobs, worker'[k] # Nil, worker'[k].at = "create"
      PROVE  job'[k] \notin Loc!Active
  <2>1. CASE k = j
    BY <1>2, <2>1
  <2>2. CASE k # j
    <3>1. worker'[k] = worker[k] /\ job'[k] = job[k]
      BY <2>2 DEF OthersStay, OtherRowsStay
    <3>. QED
      BY <1>2, <3>1 DEF JobsEnd, Loc!Working
  <2>. QED
    BY <2>1, <2>2
<1>. QED
  BY <1>1, <1>2 DEF JobsEnd, Loc!NobodyWaitsInVain, Loc!ActiveJobs, Loc!Working

LEMMA LcJobsEnd == LcTypes /\ JobsEnd /\ [Loc!Next]_(Loc!vars) => JobsEnd'
<1>. SUFFICES ASSUME LcTypes, JobsEnd, [Loc!Next]_(Loc!vars)
              PROVE  JobsEnd'
  OBVIOUS
<1>0. ASSUME job' = job, worker' = worker, up' = up, stuck' = stuck PROVE JobsEnd'
  BY <1>0 DEF JobsEnd, Loc!NobodyWaitsInVain, Loc!ActiveJobs, Loc!Working
<1>1. ASSUME NEW j \in Jobs, NEW p \in Processes, NEW level \in Loc!Levels,
             Loc!StartSync(j, p, level)
      PROVE  JobsEnd'
  <2>1. Loc!ActiveJobs = {} /\ UNCHANGED <<job, up, stuck>>
    BY <1>1 DEF Loc!StartSync, Loc!rows, Loc!ghosts
  <2>. QED
    BY <2>1 DEF JobsEnd, Loc!NobodyWaitsInVain, Loc!ActiveJobs
<1>2. ASSUME NEW j \in Jobs, Loc!Work(j) PROVE JobsEnd'
  <2>1. worker[j] # Nil
    BY <1>2 DEF Loc!Work, Loc!Working, Loc!CreateSyncJob, Loc!CompareAndSwap, Loc!MarkRunning,
       Loc!Import, Loc!DeleteKey, Loc!Progress, Loc!DeletePrefix, Loc!Complete, Loc!MarkFailed
  <2>2. worker[j].list \in Lists
    BY <2>1, LcWorker
  <2>3. ASSUME NEW at, NEW list, WorkerMoves(j, at, list), at # "create",
               up' = up, stuck' = stuck, OtherRowsStay(j)
        PROVE  JobsEnd'
    <3>1. OthersStay(j) /\ worker'[j] # Nil /\ worker'[j].at # "create"
      BY <2>3 DEF WorkerMoves, OthersStay
    <3>. QED
      BY <2>3, <3>1, LcJobSteps
  <2>4. ASSUME WorkerEnds(j), up' = up, stuck => stuck', OtherRowsStay(j),
               stuck' \/ job'[j] \notin Loc!Active
        PROVE  JobsEnd'
    <3>1. OthersStay(j) /\ worker'[j] = Nil
      BY <2>4 DEF WorkerEnds, OthersStay
    <3>. QED
      BY <2>4, <3>1, LcJobSteps
  <2>5. job' = job => OtherRowsStay(j)
    BY DEF OtherRowsStay
  <2>6. ASSUME NEW status \in Loc!Status, Loc!SetStatus(j, status)
        PROVE  OtherRowsStay(j) /\ job'[j] = status
    BY <2>6, LcStatus DEF OtherRowsStay
  <2>7. /\ "queued" \in Loc!Status /\ "running" \in Loc!Status
        /\ "completed" \in Loc!Status /\ "failed" \in Loc!Status
        /\ "completed" \notin Loc!Active /\ "failed" \notin Loc!Active
    BY DEF Loc!Status, Loc!Active
  <2>8. CASE Loc!CreateSyncJob(j)
    <3>1. job[j] \notin Loc!Active /\ up' = up /\ stuck' = stuck
      BY <2>8 DEF Loc!CreateSyncJob, Loc!ghosts, JobsEnd
    <3>2. CASE Loc!SetStatus(j, "queued") /\ Loc!Go(j, "start")
      BY <2>1, <2>3, <2>6, <2>7, <3>1, <3>2, LcGo
    <3>3. CASE worker' = [ worker EXCEPT ![j] = Nil ] /\ UNCHANGED job
      BY <2>4, <2>5, <3>1, <3>3, LcEnds
    <3>. QED
      BY <2>8, <3>2, <3>3 DEF Loc!CreateSyncJob
  <2>9. CASE Loc!CompareAndSwap(j)
    <3>1. (Loc!Go(j, "refuse") \/ Loc!Go(j, "run")) /\ UNCHANGED <<job, up, stuck>>
      BY <2>9 DEF Loc!CompareAndSwap, Loc!rows, Loc!ghosts
    <3>. QED
      BY <2>1, <2>3, <2>5, <3>1, LcGo
  <2>10. CASE Loc!MarkRunning(j)
    <3>1. CASE Loc!SetStatus(j, "running") /\ Loc!Go(j, "import") /\ stuck' = stuck
      BY <2>1, <2>3, <2>6, <2>7, <2>10, <3>1, LcGo DEF Loc!MarkRunning
    <3>2. CASE Loc!Return(j) /\ stuck' = TRUE /\ UNCHANGED job
      BY <2>1, <2>4, <2>5, <2>10, <3>2, LcReturn DEF Loc!MarkRunning
    <3>. QED
      BY <2>10, <3>1, <3>2 DEF Loc!MarkRunning
  <2>11. CASE Loc!Import(j)
    <3>1. (Loc!Go(j, "forget") \/ Loc!Go(j, "fail")) /\ UNCHANGED <<job, up, stuck>>
      BY <2>11 DEF Loc!Import, Loc!ghosts
    <3>. QED
      BY <2>1, <2>3, <2>5, <3>1, LcGo
  <2>12. CASE Loc!DeleteKey(j)
    <3>1. (Loc!Go(j, "progress") \/ Loc!Go(j, "complete")) /\ UNCHANGED <<job, up, stuck>>
      BY <2>12 DEF Loc!DeleteKey, Loc!rows
    <3>. QED
      BY <2>1, <2>3, <2>5, <3>1, LcGo
  <2>13. CASE Loc!Progress(j)
    <3>1. OtherRowsStay(j) /\ UNCHANGED <<up, stuck>>
      BY <2>5, <2>6, <2>7, <2>13 DEF Loc!Progress, Loc!ghosts
    <3>2. CASE worker[j].list + 1 \in Lists
      <4>1. WorkerMoves(j, "import", worker[j].list + 1)
        BY <2>1, <2>13, <3>2, LcMoves DEF Loc!Progress
      <4>. QED
        BY <2>3, <3>1, <4>1
    <3>3. CASE worker[j].list + 1 \notin Lists
      <4>1. Loc!Go(j, "sweep")
        BY <2>13, <3>3 DEF Loc!Progress, Loc!Go
      <4>. QED
        BY <2>1, <2>3, <3>1, <4>1, LcGo
    <3>. QED
      BY <3>2, <3>3
  <2>14. CASE Loc!DeletePrefix(j)
    <3>1. Loc!Go(j, "complete") /\ UNCHANGED <<job, up, stuck>>
      BY <2>14 DEF Loc!DeletePrefix, Loc!rows, Loc!ghosts
    <3>. QED
      BY <2>1, <2>3, <2>5, <3>1, LcGo
  <2>15. CASE Loc!Complete(j)
    <3>1. WorkerEnds(j) /\ up' = up
      BY <2>1, <2>15, LcReturn DEF Loc!Complete
    <3>2. CASE Loc!SetStatus(j, "completed") /\ UNCHANGED stuck
      BY <2>4, <2>6, <2>7, <3>1, <3>2
    <3>3. CASE stuck' = TRUE /\ UNCHANGED job
      BY <2>4, <2>5, <3>1, <3>3
    <3>. QED
      BY <2>15, <3>2, <3>3 DEF Loc!Complete
  <2>16. CASE Loc!MarkFailed(j)
    <3>1. WorkerEnds(j) /\ up' = up
      BY <2>1, <2>16, LcReturn, LcEnds DEF Loc!MarkFailed, Loc!Refuse
    <3>2. CASE Loc!SetStatus(j, "failed") /\ UNCHANGED stuck
      BY <2>4, <2>6, <2>7, <3>1, <3>2
    <3>3. CASE stuck' = TRUE /\ UNCHANGED job
      BY <2>4, <2>5, <3>1, <3>3
    <3>. QED
      BY <2>16, <3>2, <3>3 DEF Loc!MarkFailed
  <2>. QED
    BY <1>2, <2>8, <2>9, <2>10, <2>11, <2>12, <2>13, <2>14, <2>15, <2>16 DEF Loc!Work
<1>3. ASSUME NEW r \in Readers,
             \/ \E p \in Processes, list \in Lists : Loc!Get(r, p, list)
             \/ Loc!ListRows(r) \/ Loc!ImportRows(r) \/ Loc!Set(r) \/ Loc!Fail(r)
      PROVE  JobsEnd'
  BY <1>0, <1>3
  DEF Loc!Get, Loc!ListRows, Loc!ImportRows, Loc!Set, Loc!Fail, Loc!rows, Loc!ghosts
\* Its process is down.
<1>4. ASSUME NEW p \in Processes, Loc!Crash(p) PROVE JobsEnd'
  <2>1. up' # Processes /\ job' = job /\ \A j \in Jobs : worker'[j] \in {Nil, worker[j]}
    BY <1>4 DEF Loc!Crash, Loc!rows
  <2>. QED
    BY <2>1 DEF JobsEnd, Loc!NobodyWaitsInVain, Loc!ActiveJobs, Loc!Working
<1>5. ASSUME NEW p \in Processes, Loc!Start(p) PROVE JobsEnd'
  <2>1. worker' = worker
    BY <1>5 DEF Loc!Start
  <2>2. CASE job' = [ j \in Jobs |-> IF job[j] \in Loc!Interrupted THEN "failed" ELSE job[j] ]
    <3>1. \A j \in Jobs : job'[j] \notin Loc!Active
      BY <2>2 DEF Loc!Interrupted, Loc!Active
    <3>. QED
      BY <3>1 DEF JobsEnd, Loc!NobodyWaitsInVain, Loc!ActiveJobs
  <2>3. CASE stuck' = TRUE /\ UNCHANGED job
    BY <2>1, <2>3 DEF JobsEnd, Loc!NobodyWaitsInVain, Loc!Working
  <2>. QED
    BY <1>5, <2>2, <2>3 DEF Loc!Start
<1>6. ASSUME NEW list \in Lists, Loc!Expire(list) PROVE JobsEnd'
  BY <1>0, <1>6 DEF Loc!Expire, Loc!rows, Loc!ghosts
<1>7. CASE UNCHANGED Loc!vars
  BY <1>0, <1>7 DEF Loc!vars, Loc!rows, Loc!ghosts
<1>. QED
  BY <1>1, <1>2, <1>3, <1>4, <1>5, <1>6, <1>7 DEF Loc!Next

-----------------------------------------------------------------------------
(* LocationSync: what is cached *)

\* What CacheFollowsTable says of one list.
Cached(list) ==
    \/ cache[list] \in {Nil, catalogue[list]} \/ overtaken
    \/ \E j \in Jobs : Loc!Working(j, "forget") /\ worker[j].list = list
    \/ \E r \in Readers : Loc!At(r, "set") /\ read[r].list = list

\* Whoever was about to delete the key of a list, or to write it, still is.
WritersStay(list) ==
    /\ \A j \in Jobs : Loc!Working(j, "forget") /\ worker[j].list = list =>
           overtaken' \/ (Loc!Working(j, "forget")' /\ worker'[j].list = list)
    /\ \A r \in Readers : Loc!At(r, "set") /\ read[r].list = list =>
           overtaken' \/ (Loc!At(r, "set")' /\ read'[r].list = list)

LEMMA LcCachedKept ==
    ASSUME NEW list \in Lists, Cached(list), WritersStay(list),
           cache'[list] \in {Nil, cache[list]}, catalogue'[list] = catalogue[list],
           overtaken => overtaken'
    PROVE  Cached(list)'
<1>1. CASE cache[list] \in {Nil, catalogue[list]} \/ overtaken
  BY <1>1 DEF Cached
<1>2. CASE \E j \in Jobs : Loc!Working(j, "forget") /\ worker[j].list = list
  BY <1>2 DEF WritersStay, Cached
<1>3. CASE \E r \in Readers : Loc!At(r, "set") /\ read[r].list = list
  BY <1>3 DEF WritersStay, Cached
<1>. QED
  BY <1>1, <1>2, <1>3 DEF Cached

\* A request only goes on to cache what it has just read.
LEMMA LcReadsKept ==
    ASSUME ReadsAreFresh, catalogue' = catalogue,
           \A r \in Readers : read'[r] # read[r] =>
               read'[r] = Nil \/ read'[r].at # "set"
                 \/ (read'[r].got \in Versions /\ read'[r].got = catalogue[read'[r].list])
    PROVE  ReadsAreFresh'
  BY DEF ReadsAreFresh, Loc!At

\* Steps that import nothing and cache nothing, and after which all the writers are
\* left that are not excused.
LEMMA LcQuietSteps ==
    ASSUME CacheIsFresh, catalogue' = catalogue, read' = read, overtaken => overtaken',
           \A list \in Lists : cache'[list] \in {Nil, cache[list]},
           \A j \in Jobs : Loc!Working(j, "forget") => worker'[j] = worker[j]
    PROVE  CacheIsFresh'
<1>1. ReadsAreFresh'
  BY LcReadsKept DEF CacheIsFresh
<1>2. ASSUME NEW list \in Lists PROVE Cached(list)'
  <2>1. WritersStay(list)
    BY DEF WritersStay, Loc!Working, Loc!At
  <2>. QED
    BY <2>1, LcCachedKept DEF CacheIsFresh, Loc!CacheFollowsTable, Cached
<1>. QED
  BY <1>1, <1>2 DEF CacheIsFresh, Loc!CacheFollowsTable, Cached

LEMMA LcCacheIsFresh == LcTypes /\ CacheIsFresh /\ [Loc!Next]_(Loc!vars) => CacheIsFresh'
<1>. SUFFICES ASSUME LcTypes, CacheIsFresh, [Loc!Next]_(Loc!vars)
              PROVE  CacheIsFresh'
  OBVIOUS
<1>a. /\ ReadsAreFresh /\ \A list \in Lists : Cached(list)
      /\ ReadsAreFresh' /\ (\A list \in Lists : Cached(list)') => CacheIsFresh'
  BY DEF CacheIsFresh, Loc!CacheFollowsTable, Cached
<1>b. \A r \in Readers : read[r] # Nil =>
        /\ read[r] \in Loc!Request /\ read[r].list \in Lists
  BY DEF LcTypes, Loc!Request
<1>0. ASSUME UNCHANGED <<worker, catalogue, cache, read, overtaken>> PROVE CacheIsFresh'
  BY <1>0, LcQuietSteps
<1>1. ASSUME NEW j \in Jobs, ~ Loc!Working(j, "forget"), OthersStay(j),
             UNCHANGED <<catalogue, read, overtaken>>,
             \A list \in Lists : cache'[list] \in {Nil, cache[list]}
      PROVE  CacheIsFresh'
  BY <1>1, LcQuietSteps DEF OthersStay
<1>2. ASSUME NEW j \in Jobs, NEW p \in Processes, NEW level \in Loc!Levels,
             Loc!StartSync(j, p, level)
      PROVE  CacheIsFresh'
  <2>1. OthersStay(j) /\ ~ Loc!Working(j, "forget")
    BY <1>2 DEF Loc!StartSync, LcTypes, OthersStay, Loc!Working
  <2>2. UNCHANGED <<catalogue, cache, read, overtaken>>
    BY <1>2 DEF Loc!StartSync, Loc!rows, Loc!ghosts
  <2>. QED
    BY <1>1, <2>1, <2>2
<1>3. ASSUME NEW j \in Jobs, Loc!Work(j) PROVE CacheIsFresh'
  <2>1. worker[j] # Nil
    BY <1>3 DEF Loc!Work, Loc!Working, Loc!CreateSyncJob, Loc!CompareAndSwap, Loc!MarkRunning,
       Loc!Import, Loc!DeleteKey, Loc!Progress, Loc!DeletePrefix, Loc!Complete, Loc!MarkFailed
  <2>2. worker[j].list \in Lists
    BY <2>1, LcWorker
  <2>3. \A at, list : WorkerMoves(j, at, list) => OthersStay(j)
    BY DEF WorkerMoves, OthersStay
  <2>4. WorkerEnds(j) => OthersStay(j)
    BY DEF WorkerEnds, OthersStay
  <2>5. CASE Loc!CreateSyncJob(j)
    <3>1. OthersStay(j)
      BY <2>1, <2>3, <2>4, <2>5, LcGo, LcEnds DEF Loc!CreateSyncJob
    <3>. QED
      BY <1>1, <2>5, <3>1 DEF Loc!CreateSyncJob, Loc!Working, Loc!ghosts
  <2>6. CASE Loc!CompareAndSwap(j)
    <3>1. Loc!Go(j, "refuse") \/ Loc!Go(j, "run")
      BY <2>6 DEF Loc!CompareAndSwap
    <3>2. OthersStay(j)
      BY <2>1, <2>3, <3>1, LcGo
    <3>. QED
      BY <1>1, <2>6, <3>2 DEF Loc!CompareAndSwap, Loc!Working, Loc!rows, Loc!ghosts
  <2>7. CASE Loc!MarkRunning(j)
    <3>1. OthersStay(j)
      BY <2>1, <2>3, <2>4, <2>7, LcGo, LcReturn DEF Loc!MarkRunning
    <3>. QED
      BY <1>1, <2>7, <3>1 DEF Loc!MarkRunning, Loc!Working
  <2>8. CASE Loc!Import(j)
    <3>0. /\ worker[j].at = "import" /\ cache' = cache /\ overtaken' = overtaken
      BY <2>8 DEF Loc!Import, Loc!Working, Loc!ghosts
    <3>1. CASE \E version \in Versions :
                 Loc!Upsert(worker[j].list, version) /\ Loc!Go(j, "forget")
      <4>1. PICK version \in Versions :
                 Loc!Upsert(worker[j].list, version) /\ Loc!Go(j, "forget")
        BY <3>1
      <4>2. /\ catalogue' = [ catalogue EXCEPT ![worker[j].list] = version ]
            /\ read' = Loc!Overtaken(worker[j].list, version)
            /\ WorkerMoves(j, "forget", worker[j].list)
        BY <4>1, <2>1, LcGo DEF Loc!Upsert
      <4>3. \A r \in Readers :
              /\ read'[r] = Nil <=> read[r] = Nil
              /\ read[r] # Nil =>
                   /\ read'[r].at = read[r].at /\ read'[r].list = read[r].list
                   /\ read'[r].got = read[r].got
                   /\ ~ read'[r].stale =>
                        ~ read[r].stale /\ (read[r].list = worker[j].list =>
                                              version = catalogue[worker[j].list])
        BY <1>a, <2>2, <4>2, LcOvertaken
      <4>4. /\ \A list \in Lists \ {worker[j].list} : catalogue'[list] = catalogue[list]
            /\ catalogue'[worker[j].list] = version
        BY <2>2, <4>2 DEF LcTypes
      <4>5. ReadsAreFresh'
        <5>1. ASSUME NEW r \in Readers, read'[r] # Nil, read'[r].at = "set"
              PROVE  /\ read'[r].got \in Versions
                     /\ read'[r].stale \/ read'[r].got = catalogue'[read'[r].list]
          <6>1. read[r] # Nil /\ read[r].at = "set" /\ read[r].list \in Lists
            BY <1>b, <4>3, <5>1
          <6>2. read[r].got \in Versions
                /\ (read[r].stale \/ read[r].got = catalogue[read[r].list])
            BY <1>a, <6>1 DEF ReadsAreFresh, Loc!At
          <6>. QED
            BY <4>3, <4>4, <6>1, <6>2
        <5>. QED
          BY <5>1 DEF ReadsAreFresh, Loc!At
      <4>6. ASSUME NEW list \in Lists PROVE Cached(list)'
        <5>1. CASE list = worker[j].list
          BY <4>2, <5>1 DEF WorkerMoves, Cached, Loc!Working
        <5>2. CASE list # worker[j].list
          <6>1. WritersStay(list)
            BY <3>0, <4>2, <4>3 DEF WorkerMoves, WritersStay, Loc!Working, Loc!At
          <6>. QED
            BY <1>a, <3>0, <4>4, <5>2, <6>1, LcCachedKept
        <5>. QED
          BY <5>1, <5>2
      <4>. QED
        BY <1>a, <4>5, <4>6
    <3>2. CASE Loc!Go(j, "fail") /\ UNCHANGED <<catalogue, read>>
      <4>1. OthersStay(j)
        BY <2>1, <2>3, <3>2, LcGo
      <4>. QED
        BY <1>1, <3>0, <3>2, <4>1 DEF Loc!Working
    <3>. QED
      BY <2>8, <3>1, <3>2 DEF Loc!Import
  <2>9. CASE Loc!DeleteKey(j)
    <3>1. /\ Loc!Go(j, "progress") \/ Loc!Go(j, "complete")
          /\ UNCHANGED <<catalogue, read>>
          /\ \/ cache' = [ cache EXCEPT ![worker[j].list] = Nil ] /\ UNCHANGED overtaken
             \/ overtaken' = TRUE /\ UNCHANGED cache
      BY <2>9 DEF Loc!DeleteKey, Loc!Deleted, Loc!rows
    <3>2. OthersStay(j)
      BY <2>1, <2>3, <3>1, LcGo
    <3>3. ReadsAreFresh'
      BY <1>a, <3>1, LcReadsKept
    <3>4. ASSUME NEW list \in Lists PROVE Cached(list)'
      <4>1. CASE overtaken'
        BY <4>1 DEF Cached
      <4>2. CASE cache' = [ cache EXCEPT ![worker[j].list] = Nil ] /\ list = worker[j].list
        BY <4>2 DEF Cached, LcTypes
      <4>3. CASE /\ cache' = [ cache EXCEPT ![worker[j].list] = Nil ] /\ UNCHANGED overtaken
                 /\ list # worker[j].list
        <5>1. WritersStay(list)
          BY <3>1, <3>2, <4>3 DEF OthersStay, WritersStay, Loc!Working, Loc!At
        <5>2. cache'[list] = cache[list]
          BY <4>3 DEF LcTypes
        <5>. QED
          BY <1>a, <3>1, <4>3, <5>1, <5>2, LcCachedKept
      <4>. QED
        BY <3>1, <4>1, <4>2, <4>3
    <3>. QED
      BY <1>a, <3>3, <3>4
  <2>10. CASE Loc!Progress(j)
    <3>1. OthersStay(j)
      <4>1. CASE worker[j].list + 1 \in Lists
        <5>1. WorkerMoves(j, "import", worker[j].list + 1)
          BY <2>1, <2>10, <4>1, LcMoves DEF Loc!Progress
        <5>. QED
          BY <2>3, <5>1
      <4>2. CASE worker[j].list + 1 \notin Lists
        <5>1. Loc!Go(j, "sweep")
          BY <2>10, <4>2 DEF Loc!Progress, Loc!Go
        <5>. QED
          BY <2>1, <2>3, <5>1, LcGo
      <4>. QED
        BY <4>1, <4>2
    <3>. QED
      BY <1>1, <2>10, <3>1 DEF Loc!Progress, Loc!Working, Loc!ghosts
  <2>11. CASE Loc!DeletePrefix(j)
    <3>1. OthersStay(j)
      BY <2>1, <2>3, <2>11, LcGo DEF Loc!DeletePrefix
    <3>2. \A list \in Lists : cache'[list] \in {Nil, cache[list]}
      BY <2>11 DEF Loc!DeletePrefix
    <3>. QED
      BY <1>1, <2>11, <3>1, <3>2 DEF Loc!DeletePrefix, Loc!Working, Loc!rows, Loc!ghosts
  <2>12. CASE Loc!Complete(j)
    <3>1. OthersStay(j)
      BY <2>1, <2>4, <2>12, LcReturn DEF Loc!Complete
    <3>. QED
      BY <1>1, <2>12, <3>1 DEF Loc!Complete, Loc!Working
  <2>13. CASE Loc!MarkFailed(j)
    <3>1. OthersStay(j)
      BY <2>1, <2>4, <2>13, LcReturn, LcEnds DEF Loc!MarkFailed, Loc!Refuse
    <3>. QED
      BY <1>1, <2>13, <3>1 DEF Loc!MarkFailed, Loc!Working
  <2>. QED
    BY <1>3, <2>5, <2>6, <2>7, <2>8, <2>9, <2>10, <2>11, <2>12, <2>13 DEF Loc!Work
\* A request that does not write the cache and was not about to.
<1>4. ASSUME NEW r \in Readers, ~ Loc!At(r, "set"), read' = [ read EXCEPT ![r] = read'[r] ],
             ReadsAreFresh', UNCHANGED <<worker, catalogue, cache, overtaken>>
      PROVE  CacheIsFresh'
  <2>1. \A list \in Lists : WritersStay(list)
    BY <1>4 DEF WritersStay, Loc!Working, Loc!At, LcTypes
  <2>. QED
    BY <1>4, <1>a, <2>1, LcCachedKept
<1>5. ASSUME NEW r \in Readers, NEW p \in Processes, NEW list \in Lists, Loc!Get(r, p, list)
      PROVE  CacheIsFresh'
  <2>. DEFINE q == [ process |-> p, at |-> "list", list |-> list, got |-> 0, stale |-> FALSE ]
  <2>1. read' = [ read EXCEPT ![r] = q ] /\ read[r] = Nil
        /\ UNCHANGED <<worker, catalogue, cache, overtaken>>
    BY <1>5 DEF Loc!Get, Loc!Begin, Loc!rows, Loc!ghosts
  <2>2. q.at # "set"
    OBVIOUS
  <2>. HIDE DEF q
  <2>3. read'[r] = q /\ \A o \in Readers \ {r} : read'[o] = read[o]
    BY <2>1 DEF LcTypes
  <2>4. ReadsAreFresh'
    BY <1>a, <2>1, <2>2, <2>3 DEF ReadsAreFresh, Loc!At
  <2>. QED
    BY <1>4, <2>1, <2>3, <2>4 DEF Loc!At
<1>6. ASSUME NEW r \in Readers, Loc!ListRows(r) PROVE CacheIsFresh'
  <2>. DEFINE got == catalogue[read[r].list]
              q == [ read[r] EXCEPT !.got = got, !.stale = FALSE,
                                    !.at = IF got = 0 THEN "import" ELSE "set" ]
  <2>1. /\ read[r] # Nil /\ read[r].at = "list" /\ read' = [ read EXCEPT ![r] = q ]
        /\ UNCHANGED <<worker, catalogue, cache, overtaken>>
    BY <1>6 DEF Loc!ListRows, Loc!At, Loc!rows, Loc!ghosts, LcTypes
  <2>2. read[r] \in Loc!Request /\ read[r].list \in Lists
    BY <1>b, <2>1
  <2>3. got \in Versions \union {0}
    BY <2>2 DEF LcTypes
  <2>. HIDE DEF got
  <2>4. q.at = "set" => q.got \in Versions /\ q.got = got /\ q.list = read[r].list
    BY <2>2, <2>3 DEF Loc!Request
  <2>. HIDE DEF q
  <2>5. read'[r] = q /\ \A o \in Readers \ {r} : read'[o] = read[o]
    BY <2>1 DEF LcTypes
  <2>6. ReadsAreFresh'
    BY <1>a, <2>1, <2>4, <2>5 DEF ReadsAreFresh, Loc!At, got
  <2>. QED
    BY <1>4, <2>1, <2>5, <2>6 DEF Loc!At
<1>7. ASSUME NEW r \in Readers, Loc!ImportRows(r) PROVE CacheIsFresh'
  <2>. DEFINE list == read[r].list
  <2>1. /\ read[r] # Nil /\ read[r].at = "import" /\ list \in Lists
        /\ UNCHANGED <<worker, cache, overtaken>>
    BY <1>7, <1>b DEF Loc!ImportRows, Loc!At, Loc!ghosts
  <2>2. PICK version \in Versions :
          /\ catalogue' = [ catalogue EXCEPT ![list] = version ]
          /\ read' = [ Loc!Overtaken(list, version) EXCEPT
                        ![r].at = "set", ![r].got = version, ![r].stale = FALSE ]
    BY <1>7 DEF Loc!ImportRows
  <2>. DEFINE over == Loc!Overtaken(list, version)
              q == [ over[r] EXCEPT !.at = "set", !.got = version, !.stale = FALSE ]
  <2>3. /\ over \in [ Readers -> Loc!Request \union {Nil} ]
        /\ \A o \in Readers :
             /\ over[o] = Nil <=> read[o] = Nil
             /\ read[o] # Nil =>
                  /\ over[o].at = read[o].at /\ over[o].list = read[o].list
                  /\ over[o].got = read[o].got
                  /\ ~ over[o].stale =>
                       ~ read[o].stale /\ (read[o].list = list => version = catalogue[list])
    BY <1>a, <2>1, LcOvertaken
  <2>4. read' = [ over EXCEPT ![r] = q ]
    BY <2>2, <2>3
  <2>. HIDE DEF over
  <2>5. q \in Loc!Request /\ q.at = "set" /\ q.got = version /\ q.list = list
    <3>1. over[r] \in Loc!Request /\ over[r].list = list
      BY <2>1, <2>3
    <3>. HIDE DEF list
    <3>. QED
      BY <2>2, <3>1 DEF Loc!Request
  <2>. HIDE DEF list
  <2>. HIDE DEF q
  <2>6. read'[r] = q /\ q # Nil /\ \A o \in Readers \ {r} : read'[o] = over[o]
    BY <2>3, <2>4, <2>5, LcConstants
  <2>7. catalogue'[list] = version /\ \A l \in Lists \ {list} : catalogue'[l] = catalogue[l]
    BY <2>1, <2>2 DEF LcTypes
  <2>8. ASSUME NEW o \in Readers, read'[o] # Nil, read'[o].at = "set"
        PROVE  /\ read'[o].got \in Versions
               /\ read'[o].stale \/ read'[o].got = catalogue'[read'[o].list]
    <3>1. CASE o = r
      BY <2>5, <2>6, <2>7, <3>1
    <3>2. CASE o # r
      <4>1. read'[o] = over[o] /\ read[o] # Nil /\ read[o].at = "set" /\ read[o].list \in Lists
        BY <1>b, <2>3, <2>6, <2>8, <3>2
      <4>2. read[o].got \in Versions
            /\ (read[o].stale \/ read[o].got = catalogue[read[o].list])
        BY <1>a, <4>1 DEF ReadsAreFresh, Loc!At
      <4>. QED
        BY <2>3, <2>7, <4>1, <4>2
    <3>. QED
      BY <3>1, <3>2
  <2>9. ReadsAreFresh'
    BY <2>8 DEF ReadsAreFresh, Loc!At
  <2>10. ASSUME NEW l \in Lists PROVE Cached(l)'
    <3>1. CASE l = list
      BY <2>5, <2>6, <3>1 DEF Cached, Loc!At
    <3>2. CASE l # list
      <4>1. WritersStay(l)
        BY <2>1, <2>3, <2>6 DEF WritersStay, Loc!Working, Loc!At
      <4>. QED
        BY <1>a, <2>1, <2>7, <3>2, <4>1, LcCachedKept
    <3>. QED
      BY <3>1, <3>2
  <2>. QED
    BY <1>a, <2>9, <2>10
<1>8. ASSUME NEW r \in Readers, Loc!Set(r) PROVE CacheIsFresh'
  <2>. DEFINE list == read[r].list
  <2>1. /\ read[r] # Nil /\ read[r].at = "set" /\ list \in Lists
        /\ cache' = [ cache EXCEPT ![list] = read[r].got ]
        /\ overtaken' = (overtaken \/ read[r].stale) /\ read' = [ read EXCEPT ![r] = Nil ]
        /\ UNCHANGED <<worker, catalogue>>
    BY <1>8, <1>b DEF Loc!Set, Loc!At, Loc!Finish, Loc!rows
  <2>2. read'[r] = Nil /\ \A o \in Readers \ {r} : read'[o] = read[o]
    BY <2>1 DEF LcTypes
  <2>3. ReadsAreFresh'
    BY <1>a, <2>1, <2>2, LcReadsKept
  <2>4. ASSUME NEW l \in Lists PROVE Cached(l)'
    <3>1. CASE l = list
      <4>1. cache'[l] = read[r].got
        BY <2>1, <3>1 DEF LcTypes
      <4>2. read[r].stale \/ read[r].got = catalogue[l]
        BY <1>a, <2>1, <3>1 DEF ReadsAreFresh, Loc!At
      <4>. QED
        BY <2>1, <4>1, <4>2 DEF Cached
    <3>2. CASE l # list
      <4>1. WritersStay(l)
        BY <2>1, <2>2, <3>2 DEF WritersStay, Loc!Working, Loc!At
      <4>2. cache'[l] = cache[l]
        BY <2>1, <3>2 DEF LcTypes
      <4>. QED
        BY <1>a, <2>1, <4>1, <4>2, LcCachedKept
    <3>. QED
      BY <3>1, <3>2
  <2>. QED
    BY <1>a, <2>3, <2>4
<1>9. ASSUME NEW r \in Readers, Loc!Fail(r) PROVE CacheIsFresh'
  <2>1. /\ read[r] # Nil /\ read' = [ read EXCEPT ![r] = Nil ]
        /\ overtaken' = (overtaken \/ Loc!At(r, "set"))
        /\ UNCHANGED <<worker, catalogue, cache>>
    BY <1>9 DEF Loc!Fail, Loc!Finish, Loc!rows
  <2>2. read'[r] = Nil /\ \A o \in Readers \ {r} : read'[o] = read[o]
    BY <2>1 DEF LcTypes
  <2>3. ReadsAreFresh'
    BY <1>a, <2>1, <2>2, LcReadsKept
  <2>4. \A list \in Lists : WritersStay(list)
    BY <2>1, <2>2 DEF WritersStay, Loc!Working, Loc!At
  <2>. QED
    BY <1>a, <2>1, <2>3, <2>4, LcCachedKept
<1>10. ASSUME NEW p \in Processes, Loc!Crash(p) PROVE CacheIsFresh'
  <2>1. /\ \A j \in Jobs : worker'[j] \in {Nil, worker[j]}
        /\ \A r \in Readers : read'[r] \in {Nil, read[r]}
        /\ \A j \in Jobs : Loc!Working(j, "forget") /\ worker'[j] = Nil => overtaken'
        /\ \A r \in Readers : Loc!At(r, "set") /\ read'[r] = Nil => overtaken'
        /\ overtaken => overtaken'
        /\ UNCHANGED <<catalogue, cache>>
    BY <1>10 DEF Loc!Crash, Loc!rows
  <2>2. ReadsAreFresh'
    BY <1>a, <2>1, LcReadsKept
  <2>3. \A list \in Lists : WritersStay(list)
    BY <2>1 DEF WritersStay, Loc!Working, Loc!At
  <2>. QED
    BY <1>a, <2>1, <2>2, <2>3, LcCachedKept
<1>11. ASSUME NEW p \in Processes, Loc!Start(p) PROVE CacheIsFresh'
  BY <1>0, <1>11 DEF Loc!Start
<1>12. ASSUME NEW list \in Lists, Loc!Expire(list) PROVE CacheIsFresh'
  <2>1. /\ UNCHANGED <<worker, catalogue, read, overtaken>>
        /\ \A l \in Lists : cache'[l] \in {Nil, cache[l]}
    BY <1>12 DEF Loc!Expire, Loc!rows, Loc!ghosts, LcTypes
  <2>. QED
    BY <2>1, LcQuietSteps
<1>13. CASE UNCHANGED Loc!vars
  BY <1>0, <1>13 DEF Loc!vars, Loc!rows, Loc!ghosts
<1>. QED
  BY <1>2, <1>3, <1>5, <1>6, <1>7, <1>8, <1>9, <1>10, <1>11, <1>12, <1>13 DEF Loc!Next

-----------------------------------------------------------------------------
(* LocationSync: the theorems *)

LEMMA LcNext == LcInv /\ [Loc!Next]_(Loc!vars) => LcInv'
  BY LcTypesKept, LcOneImport, LcJobsEnd, LcCacheIsFresh DEF LcInv, CacheIsFresh

LEMMA LcInit == Loc!Init => LcInv
<1>. SUFFICES ASSUME Loc!Init PROVE LcInv
  OBVIOUS
<1>1. /\ job = [ j \in Jobs |-> Nil ] /\ worker = [ j \in Jobs |-> Nil ]
      /\ up = Processes /\ syncing = [ p \in Processes |-> FALSE ]
      /\ catalogue \in [ Lists -> {0, 1} ]
      /\ cache = [ list \in Lists |-> Nil ] /\ read = [ r \in Readers |-> Nil ]
      /\ faults = 0 /\ stuck = FALSE /\ overtaken = FALSE
  BY DEF Loc!Init
<1>2. 1 \in Versions
  BY LcConstants
<1>3. LcTypes
  <2>1. catalogue \in [ Lists -> Versions \union {0} ]
    BY <1>1, <1>2
  <2>2. faults \in 0..MaxFaults
    BY <1>1, LcConstants
  <2>. QED
    BY <1>1, <2>1, <2>2 DEF LcTypes
<1>4. OneImport
  BY <1>1 DEF OneImport, Loc!Importing
<1>5. JobsEnd
  BY <1>1, LcConstants DEF JobsEnd, Loc!NobodyWaitsInVain, Loc!ActiveJobs, Loc!Working,
     Loc!Active, Loc!Status
<1>6. CacheIsFresh
  BY <1>1 DEF CacheIsFresh, ReadsAreFresh, Loc!At, Loc!CacheFollowsTable
<1>. QED
  BY <1>3, <1>4, <1>5, <1>6 DEF LcInv

\* A process imports for one job at a time, and syncing says so.
LEMMA LcTypeOK == LcInv => Loc!TypeOK
<1>. SUFFICES ASSUME LcInv, NEW p \in Processes
              PROVE  Loc!Cardinality(Loc!ImportingIn(p)) = IF syncing[p] THEN 1 ELSE 0
  BY DEF LcInv, LcTypes, Loc!TypeOK
<1>0. Loc!Cardinality(Loc!ImportingIn(p)) = Cardinality(Loc!ImportingIn(p))
  BY DEF Loc!Cardinality, Cardinality
<1>1. CASE syncing[p]
  <2>1. PICK j \in Jobs : Loc!Importing(j) /\ worker[j].process = p
    BY <1>1 DEF LcInv, OneImport
  <2>2. Loc!ImportingIn(p) = {j}
    BY <2>1 DEF LcInv, OneImport, Loc!ImportingIn
  <2>. QED
    BY <1>0, <1>1, <2>2, FS_Singleton
<1>2. CASE ~ syncing[p]
  <2>1. Loc!ImportingIn(p) = {}
    BY <1>2 DEF LcInv, OneImport, Loc!ImportingIn
  <2>. QED
    BY <1>0, <1>2, <2>1, FS_EmptySet
<1>. QED
  BY <1>1, <1>2

\* NobodyWaitsInVain (see LocationSync): a job that keeps others from starting is
\* worked on, or fails when a process that died starts again.
THEOREM JobsAreWorkedOn == Loc!Spec => []NobodyWaitsInVain
<1>1. LcInv => NobodyWaitsInVain
  BY DEF LcInv, JobsEnd, NobodyWaitsInVain
<1>. QED
  BY <1>1, LcInit, LcNext, PTL DEF Loc!Spec

\* CacheFollowsTable (see LocationSync): a cached list is the one in the table, or
\* about to be deleted or written, unless a write was overtaken.
THEOREM CachedListsAreImported == Loc!Spec => []CacheFollowsTable
<1>1. LcInv => CacheFollowsTable
  BY DEF LcInv, CacheIsFresh, CacheFollowsTable
<1>. QED
  BY <1>1, LcInit, LcNext, PTL DEF Loc!Spec

-----------------------------------------------------------------------------
(* Codes: the invariant *)

Running == Cardinality(Requests)
Lesser(m, n) == IF m < n THEN m ELSE n
Doing(r) == IF reqOfCodes[r] = Nil THEN "nothing" ELSE reqOfCodes[r].at
Code(r) == IF reqOfCodes[r] = Nil THEN Nil ELSE reqOfCodes[r].code

\* Requests that were counted and may still mail.
Mailing == { r \in Requests : Doing(r) \in {"store", "clear", "cool", "mail"} }

\* Requests about to forget the attempts at a code they are not about, to delete a
\* code, or to try one.
Clearing(c) == { r \in Requests : Doing(r) = "forget" \/ (Doing(r) = "clear" /\ Code(r) # c) }
Deleting == { r \in Requests : Doing(r) = "delete" }
Trying(c) == { r \in Requests : Doing(r) = "attempt" /\ Code(r) = c }

\* The codes that are compared, and whose attempts are forgotten, are codes.
CodesAreKnown ==
    \A r \in Requests : Doing(r) \in {"attempt", "clear"} => Code(r) \in CodeIds

\* The first request that is counted goes with all that run, a later one alone.
MailsLeft ==
    /\ sends = 0 => mails = 0
    /\ sends > 0 => mails + Cardinality(Mailing) <= Running + Lesser(sends, RateLimit) - 1

\* Tokens of a reset are not tried out: they are looked up.
TokensAreNotTried ==
    purpose = "reset" => /\ \A c \in CodeIds : tries[c] = 0
                         /\ \A r \in Requests : Doing(r) \notin {"attempt", "clear"}

\* Attempts at the stored code are those counted, and those that one of the other
\* requests made forgotten; the last one is followed by a deletion.  Once the code
\* is gone, only requests that have read it try it.
TriesLeft(c) ==
    IF c \in stored
    THEN /\ Cardinality(Clearing(c)) < Running
         /\ tries[c] <= Lesser(attempts, MaxAttempts - 1)
                          + (MaxAttempts - 1) * (Running - 1 - Cardinality(Clearing(c)))
                          + Cardinality(Deleting)
    ELSE tries[c] + Cardinality(Trying(c)) <= MaxAttempts * Running

TriesInv == ~ failed /\ purpose = "register" => \A c \in CodeIds : TriesLeft(c)

CdInv == Cd!TypeOK /\ CodesAreKnown /\ MailsLeft /\ TokensAreNotTried /\ TriesInv

-----------------------------------------------------------------------------
(* Codes: counting requests *)

LEMMA CdConstants ==
    /\ Nil \notin CodeIds /\ Nil \notin Cd!Request /\ IsFiniteSet(Requests)
    /\ MaxAttempts \in Nat \ {0} /\ RateLimit \in Nat \ {0} /\ MaxTries \in Nat \ {0}
    /\ Running \in Nat
<1>1. IsFiniteSet(Requests)
  <2>1. Cd!IsFiniteSet(Requests) => IsFiniteSet(Requests)
    BY DEF Cd!IsFiniteSet, IsFiniteSet
  <2>. QED
    BY <2>1, CodesBounds DEF Cd!CodesAssumption
<1>. QED
  BY <1>1, CodesBounds, FS_CardinalityType DEF Cd!CodesAssumption, Running

\* Sets that differ in one element.
LEMMA CountChange ==
    ASSUME NEW S, NEW T, NEW r, IsFiniteSet(S), S \ {r} = T \ {r}
    PROVE  Cardinality(T) = Cardinality(S) + (IF r \in T THEN 1 ELSE 0)
                                           - (IF r \in S THEN 1 ELSE 0)
<1>1. CASE r \in S /\ r \in T
  BY <1>1, FS_CardinalityType
<1>2. CASE r \notin S /\ r \notin T
  BY <1>2, FS_CardinalityType
<1>3. CASE r \notin S /\ r \in T
  <2>1. T = S \union {r}
    BY <1>3
  <2>. QED
    BY <1>3, <2>1, FS_AddElement, FS_CardinalityType
<1>4. CASE r \in S /\ r \notin T
  <2>1. T = S \ {r}
    BY <1>4
  <2>2. Cardinality(S \ {r}) = Cardinality(S) - 1
    BY <1>4, FS_RemoveElement
  <2>3. Cardinality(S) \in Nat
    BY FS_CardinalityType
  <2>. QED
    BY <1>4, <2>1, <2>2, <2>3
<1>. QED
  BY <1>1, <1>2, <1>3, <1>4

\* Some of the requests.
LEMMA SomeRequests ==
    ASSUME NEW S \in SUBSET Requests
    PROVE  IsFiniteSet(S) /\ Cardinality(S) \in Nat /\ Cardinality(S) <= Running
  BY CdConstants, FS_Subset, FS_CardinalityType DEF Running

\* A request goes on to do something with a code, the others do what they did.
Does(r, at, c) ==
    /\ Doing(r)' = at /\ Code(r)' = c
    /\ \A q \in Requests \ {r} : Doing(q)' = Doing(q) /\ Code(q)' = Code(q)

One(b) == IF b THEN 1 ELSE 0

LEMMA CdCounts ==
    ASSUME NEW r \in Requests, NEW at, NEW k, Does(r, at, k)
    PROVE  /\ Cardinality(Mailing) \in Nat
           /\ Cardinality(Mailing)' = Cardinality(Mailing)
                + One(at \in {"store", "clear", "cool", "mail"})
                - One(Doing(r) \in {"store", "clear", "cool", "mail"})
           /\ Cardinality(Mailing)' <= Running
           /\ Cardinality(Deleting) \in Nat
           /\ Cardinality(Deleting)' = Cardinality(Deleting) + One(at = "delete")
                                                             - One(Doing(r) = "delete")
<1>1. ASSUME NEW S \in SUBSET Requests, NEW T \in SUBSET Requests,
             \A q \in Requests \ {r} : q \in S <=> q \in T
      PROVE  /\ Cardinality(S) \in Nat /\ Cardinality(T) <= Running
             /\ Cardinality(T) = Cardinality(S) + One(r \in T) - One(r \in S)
  BY <1>1, CountChange, SomeRequests DEF One
<1>2. /\ Mailing \in SUBSET Requests /\ Mailing' \in SUBSET Requests
      /\ \A q \in Requests \ {r} : q \in Mailing <=> q \in Mailing'
      /\ r \in Mailing <=> Doing(r) \in {"store", "clear", "cool", "mail"}
      /\ r \in Mailing' <=> at \in {"store", "clear", "cool", "mail"}
  BY DEF Mailing, Does
<1>3. /\ Deleting \in SUBSET Requests /\ Deleting' \in SUBSET Requests
      /\ \A q \in Requests \ {r} : q \in Deleting <=> q \in Deleting'
      /\ r \in Deleting <=> Doing(r) = "delete"
      /\ r \in Deleting' <=> at = "delete"
  BY DEF Deleting, Does
<1>4. /\ Cardinality(Mailing) \in Nat /\ Cardinality(Mailing') <= Running
      /\ Cardinality(Mailing') = Cardinality(Mailing) + One(r \in Mailing') - One(r \in Mailing)
  BY <1>1, <1>2
<1>5. /\ Cardinality(Deleting) \in Nat
      /\ Cardinality(Deleting') = Cardinality(Deleting) + One(r \in Deleting') - One(r \in Deleting)
  BY <1>1, <1>3
<1>. QED
  BY <1>2, <1>3, <1>4, <1>5 DEF One

LEMMA CdCountsOfCode ==
    ASSUME NEW r \in Requests, NEW at, NEW k, Does(r, at, k), NEW c
    PROVE  /\ Cardinality(Clearing(c)) \in Nat
           /\ Cardinality(Clearing(c))' = Cardinality(Clearing(c))
                + One(at = "forget" \/ (at = "clear" /\ k # c))
                - One(Doing(r) = "forget" \/ (Doing(r) = "clear" /\ Code(r) # c))
           /\ Cardinality(Trying(c)) \in Nat
           /\ Cardinality(Trying(c))' = Cardinality(Trying(c))
                + One(at = "attempt" /\ k = c) - One(Doing(r) = "attempt" /\ Code(r) = c)
<1>1. ASSUME NEW S \in SUBSET Requests, NEW T \in SUBSET Requests,
             \A q \in Requests \ {r} : q \in S <=> q \in T
      PROVE  /\ Cardinality(S) \in Nat
             /\ Cardinality(T) = Cardinality(S) + One(r \in T) - One(r \in S)
  BY <1>1, CountChange, SomeRequests DEF One
<1>2. /\ Clearing(c) \in SUBSET Requests /\ Clearing(c)' \in SUBSET Requests
      /\ \A q \in Requests \ {r} : q \in Clearing(c) <=> q \in Clearing(c)'
      /\ r \in Clearing(c) <=> Doing(r) = "forget" \/ (Doing(r) = "clear" /\ Code(r) # c)
      /\ r \in Clearing(c)' <=> at = "forget" \/ (at = "clear" /\ k # c)
  BY DEF Clearing, Does
<1>3. /\ Trying(c) \in SUBSET Requests /\ Trying(c)' \in SUBSET Requests
      /\ \A q \in Requests \ {r} : q \in Trying(c) <=> q \in Trying(c)'
      /\ r \in Trying(c) <=> Doing(r) = "attempt" /\ Code(r) = c
      /\ r \in Trying(c)' <=> at = "attempt" /\ k = c
  BY DEF Trying, Does
<1>4. /\ Cardinality(Clearing(c)) \in Nat
      /\ Cardinality(Clearing(c)') =
           Cardinality(Clearing(c)) + One(r \in Clearing(c)') - One(r \in Clearing(c))
  BY <1>1, <1>2
<1>5. /\ Cardinality(Trying(c)) \in Nat
      /\ Cardinality(Trying(c)') =
           Cardinality(Trying(c)) + One(r \in Trying(c)') - One(r \in Trying(c))
  BY <1>1, <1>3
<1>. QED
  BY <1>2, <1>3, <1>4, <1>5 DEF One

\* Those that forget, delete and try are different requests.
LEMMA CdApart ==
    ASSUME NEW c
    PROVE  /\ Cardinality(Clearing(c)) \in Nat /\ Cardinality(Deleting) \in Nat
           /\ Cardinality(Trying(c)) \in Nat
           /\ Cardinality(Clearing(c)) + Cardinality(Deleting) + Cardinality(Trying(c)) <= Running
<1>1. /\ Clearing(c) \in SUBSET Requests /\ Deleting \in SUBSET Requests
      /\ Trying(c) \in SUBSET Requests
      /\ Clearing(c) \intersect Deleting = {}
      /\ (Clearing(c) \union Deleting) \intersect Trying(c) = {}
  BY DEF Clearing, Deleting, Trying
<1>2. /\ IsFiniteSet(Clearing(c)) /\ IsFiniteSet(Deleting) /\ IsFiniteSet(Trying(c))
      /\ Cardinality(Clearing(c)) \in Nat /\ Cardinality(Deleting) \in Nat
      /\ Cardinality(Trying(c)) \in Nat
  BY <1>1, SomeRequests
<1>. DEFINE S == Clearing(c) \union Deleting
<1>3. IsFiniteSet(S) /\ Cardinality(S) = Cardinality(Clearing(c)) + Cardinality(Deleting)
  <2>1. Cardinality(Clearing(c) \intersect Deleting) = 0
    BY <1>1, FS_EmptySet
  <2>2. IsFiniteSet(S)
        /\ Cardinality(S) = Cardinality(Clearing(c)) + Cardinality(Deleting)
                              - Cardinality(Clearing(c) \intersect Deleting)
    BY <1>2, FS_Union
  <2>. HIDE DEF S
  <2>. QED
    BY <1>2, <2>1, <2>2
<1>4. Cardinality(S \union Trying(c)) = Cardinality(S) + Cardinality(Trying(c))
  <2>1. Cardinality(S \intersect Trying(c)) = 0
    BY <1>1, FS_EmptySet
  <2>. QED
    BY <1>2, <1>3, <2>1, FS_Union, FS_CardinalityType
<1>5. Cardinality(S \union Trying(c)) <= Running
  BY <1>1, SomeRequests
<1>. QED
  BY <1>2, <1>3, <1>4, <1>5

-----------------------------------------------------------------------------
(* Codes: what a step makes a request do *)

Stages == {"count", "store", "clear", "cool", "mail", "attempt", "delete", "forget"}
CodeOps == {"send", "uncool", "undo", "verify", "refuse", "accept"}

\* The requests have their type.
TypedRequests == reqOfCodes \in [ Requests -> Cd!Request \union {Nil} ]

\* One request is written.
LEMMA CdWrites ==
    ASSUME TypedRequests, NEW r \in Requests, NEW q \in Cd!Request,
           reqOfCodes' = [ reqOfCodes EXCEPT ![r] = q ]
    PROVE  TypedRequests' /\ Does(r, q.at, q.code)
<1>1. q # Nil
  BY CdConstants
<1>2. TypedRequests' /\ reqOfCodes'[r] = q
      /\ \A o \in Requests \ {r} : reqOfCodes'[o] = reqOfCodes[o]
  BY DEF TypedRequests
<1>. QED
  BY <1>1, <1>2 DEF Does, Doing, Code

LEMMA CdBegins ==
    ASSUME TypedRequests, NEW r \in Requests, NEW op \in CodeOps, NEW at \in Stages,
           NEW c \in CodeIds \union {Nil}, Cd!Begin(r, op, at, c)
    PROVE  TypedRequests' /\ Does(r, at, c) /\ Doing(r) = "nothing"
<1>. DEFINE q == [ op |-> op, at |-> at, code |-> c ]
<1>1. q \in Cd!Request /\ q.at = at /\ q.code = c
  BY DEF Cd!Request, CodeOps, Stages
<1>2. reqOfCodes' = [ reqOfCodes EXCEPT ![r] = q ] /\ reqOfCodes[r] = Nil
  BY DEF Cd!Begin
<1>. HIDE DEF q
<1>3. TypedRequests' /\ Does(r, q.at, q.code)
  BY <1>1, <1>2, CdWrites
<1>. QED
  BY <1>1, <1>2, <1>3 DEF Doing

LEMMA CdRuns ==
    ASSUME TypedRequests, NEW r \in Requests, reqOfCodes[r] # Nil
    PROVE  /\ reqOfCodes[r] \in Cd!Request
           /\ reqOfCodes[r].at = Doing(r) /\ reqOfCodes[r].code = Code(r)
           /\ Code(r) \in CodeIds \union {Nil} /\ Doing(r) \in Stages
  BY DEF TypedRequests, Doing, Code, Cd!Request, Stages

LEMMA CdMoves ==
    ASSUME TypedRequests, NEW r \in Requests, reqOfCodes[r] # Nil,
           NEW op \in CodeOps, NEW at \in Stages, Cd!Move(r, op, at)
    PROVE  TypedRequests' /\ Does(r, at, Code(r))
<1>. DEFINE q == [ reqOfCodes[r] EXCEPT !.op = op, !.at = at ]
<1>1. q \in Cd!Request /\ q.at = at /\ q.code = Code(r)
  BY CdRuns DEF Cd!Request, CodeOps, Stages
<1>2. reqOfCodes' = [ reqOfCodes EXCEPT ![r] = q ]
  BY DEF Cd!Move, TypedRequests
<1>. HIDE DEF q
<1>. QED
  BY <1>1, <1>2, CdWrites

LEMMA CdFinishes ==
    ASSUME TypedRequests, NEW r \in Requests, Cd!Finish(r)
    PROVE  TypedRequests' /\ Does(r, "nothing", Nil)
<1>1. TypedRequests' /\ reqOfCodes'[r] = Nil
      /\ \A o \in Requests \ {r} : reqOfCodes'[o] = reqOfCodes[o]
  BY DEF TypedRequests, Cd!Finish
<1>. QED
  BY <1>1 DEF Does, Doing, Code

LEMMA CdAt ==
    ASSUME NEW r \in Requests, NEW at, Cd!At(r, at)
    PROVE  reqOfCodes[r] # Nil /\ Doing(r) = at
  BY DEF Cd!At, Doing

LEMMA CdStores ==
    ASSUME TypedRequests, NEW r \in Requests, NEW c \in CodeIds, Cd!Store(r, c)
    PROVE  /\ TypedRequests' /\ Doing(r) = "store"
           /\ Does(r, IF purpose = "register" THEN "clear" ELSE "cool", c)
           /\ c \notin stored /\ \A q \in Requests : Doing(q) # "nothing" => Code(q) # c
<1>. DEFINE at == IF purpose = "register" THEN "clear" ELSE "cool"
            q == [ reqOfCodes[r] EXCEPT !.code = c, !.at = at ]
<1>1. reqOfCodes[r] # Nil /\ Doing(r) = "store"
  BY CdAt DEF Cd!Store
<1>2. q \in Cd!Request /\ q.at = at /\ q.code = c
  BY <1>1, CdRuns DEF Cd!Request
<1>3. reqOfCodes' = [ reqOfCodes EXCEPT ![r] = q ]
  BY DEF Cd!Store, TypedRequests
<1>. HIDE DEF q
<1>4. TypedRequests' /\ Does(r, at, c)
  BY <1>2, <1>3, CdWrites
<1>. QED
  BY <1>1, <1>4 DEF Cd!Store, Doing, Code

LEMMA CdDeletes ==
    ASSUME TypedRequests, NEW r \in Requests, Cd!DeleteCode(r)
    PROVE  /\ TypedRequests' /\ Doing(r) = "delete" /\ Does(r, "forget", Code(r))
<1>. DEFINE q == [ reqOfCodes[r] EXCEPT !.at = "forget" ]
<1>1. reqOfCodes[r] # Nil /\ Doing(r) = "delete"
  BY CdAt DEF Cd!DeleteCode
<1>2. q \in Cd!Request /\ q.at = "forget" /\ q.code = Code(r)
  BY <1>1, CdRuns DEF Cd!Request
<1>3. reqOfCodes' = [ reqOfCodes EXCEPT ![r] = q ]
  BY DEF Cd!DeleteCode, TypedRequests
<1>. HIDE DEF q
<1>. QED
  BY <1>1, <1>2, <1>3, CdWrites

\* The steps of requests, by what the requests do.
LEMMA CdSteps ==
    ASSUME TypedRequests, NEW r \in Requests
    PROVE  /\ (Cd!SendRegisterOTP(r) \/ Cd!ForgotPassword(r)) =>
                TypedRequests' /\ Doing(r) = "nothing" /\ Does(r, "count", Nil)
           /\ Cd!IncrementSendCount(r) =>
                /\ TypedRequests' /\ Doing(r) = "count"
                /\ IF sends' > RateLimit THEN Does(r, "nothing", Nil) ELSE Does(r, "store", Code(r))
           /\ Cd!NotStored(r) =>
                TypedRequests' /\ Doing(r) = "store" /\ Does(r, "nothing", Nil)
           /\ Cd!ResetAttempts(r) =>
                /\ TypedRequests' /\ Doing(r) = "clear" /\ Does(r, "cool", Code(r))
                /\ reqOfCodes[r].code = Code(r)
           /\ Cd!SetCooldown(r) =>
                TypedRequests' /\ Doing(r) = "cool" /\ Does(r, "mail", Code(r))
           /\ Cd!Mail(r) =>
                TypedRequests' /\ Doing(r) = "mail" /\ Does(r, "nothing", Nil)
           /\ Cd!Undo(r) =>
                TypedRequests' /\ Doing(r) \in {"cool", "mail"} /\ Does(r, "delete", Code(r))
           /\ Cd!Forget(r) =>
                TypedRequests' /\ Doing(r) = "forget" /\ Does(r, "nothing", Nil)
           /\ Cd!Fail(r) =>
                TypedRequests' /\ Doing(r) \in Stages /\ Does(r, "nothing", Nil)
<1>0. {"count", "store", "cool", "mail", "delete"} \subseteq Stages
      /\ {"send", "uncool", "undo"} \subseteq CodeOps
  BY DEF Stages, CodeOps
<1>1. (Cd!SendRegisterOTP(r) \/ Cd!ForgotPassword(r)) =>
        TypedRequests' /\ Doing(r) = "nothing" /\ Does(r, "count", Nil)
  BY <1>0, CdBegins DEF Cd!SendRegisterOTP, Cd!ForgotPassword, Cd!Send
<1>2. Cd!IncrementSendCount(r) =>
        /\ TypedRequests' /\ Doing(r) = "count"
        /\ IF sends' > RateLimit THEN Does(r, "nothing", Nil) ELSE Does(r, "store", Code(r))
  BY <1>0, CdAt, CdMoves, CdFinishes DEF Cd!IncrementSendCount, Cd!Exceeds
<1>3. Cd!NotStored(r) => TypedRequests' /\ Doing(r) = "store" /\ Does(r, "nothing", Nil)
  BY CdAt, CdFinishes DEF Cd!NotStored
<1>4. Cd!ResetAttempts(r) =>
        /\ TypedRequests' /\ Doing(r) = "clear" /\ Does(r, "cool", Code(r))
        /\ reqOfCodes[r].code = Code(r)
  BY <1>0, CdAt, CdMoves, CdRuns DEF Cd!ResetAttempts
<1>5. Cd!SetCooldown(r) => TypedRequests' /\ Doing(r) = "cool" /\ Does(r, "mail", Code(r))
  BY <1>0, CdAt, CdMoves DEF Cd!SetCooldown
<1>6. Cd!Mail(r) => TypedRequests' /\ Doing(r) = "mail" /\ Does(r, "nothing", Nil)
  BY CdAt, CdFinishes DEF Cd!Mail
<1>7. Cd!Undo(r) =>
        TypedRequests' /\ Doing(r) \in {"cool", "mail"} /\ Does(r, "delete", Code(r))
  BY <1>0, CdAt, CdMoves DEF Cd!Undo
<1>8. Cd!Forget(r) => TypedRequests' /\ Doing(r) = "forget" /\ Does(r, "nothing", Nil)
  BY CdAt, CdFinishes DEF Cd!Forget
<1>9. Cd!Fail(r) => TypedRequests' /\ Doing(r) \in Stages /\ Does(r, "nothing", Nil)
  BY CdRuns, CdFinishes DEF Cd!Fail
<1>. QED
  BY <1>1, <1>2, <1>3, <1>4, <1>5, <1>6, <1>7, <1>8, <1>9

\* The steps of an attempt: it is refused, compared and wrong, or settled.
LEMMA CdVerifies ==
    ASSUME TypedRequests, NEW r \in Requests, NEW c \in CodeIds
    PROVE  /\ Cd!VerifyRegisterOTP(r, c) =>
                TypedRequests' /\ Doing(r) = "nothing" /\ Does(r, "attempt", c)
           /\ Cd!VerifyReset(r, c) =>
                TypedRequests' /\ Doing(r) = "nothing" /\ Does(r, "delete", c)
<1>1. "attempt" \in Stages /\ "delete" \in Stages /\ "verify" \in CodeOps
  BY DEF Stages, CodeOps
<1>. QED
  BY <1>1, CdBegins DEF Cd!VerifyRegisterOTP, Cd!VerifyReset

LEMMA CdAttempts ==
    ASSUME TypedRequests, NEW r \in Requests, Cd!IncrementAttempts(r)
    PROVE  /\ TypedRequests' /\ Doing(r) = "attempt" /\ tries[Code(r)] < MaxTries
           /\ attempts' = Cd!Counted(attempts, MaxAttempts)
           /\ \/ attempts' > MaxAttempts /\ Does(r, "delete", Code(r)) /\ tries' = tries
              \/ /\ ~ attempts' > MaxAttempts
                 /\ tries' = [ tries EXCEPT ![Code(r)] = @ + 1 ]
                 /\ \/ Does(r, "delete", Code(r))
                    \/ Does(r, "nothing", Nil) /\ ~ attempts' >= MaxAttempts
           /\ UNCHANGED <<purpose, stored, cooldown, sends, mails, failed>>
<1>0. "delete" \in Stages /\ "refuse" \in CodeOps /\ "accept" \in CodeOps
  BY DEF Stages, CodeOps
<1>1. reqOfCodes[r] # Nil /\ Doing(r) = "attempt" /\ reqOfCodes[r].code = Code(r)
  BY CdAt, CdRuns DEF Cd!IncrementAttempts
<1>2. (Cd!Move(r, "refuse", "delete") \/ Cd!Move(r, "accept", "delete")) =>
        TypedRequests' /\ Does(r, "delete", Code(r))
  BY <1>0, <1>1, CdMoves
<1>3. Cd!Finish(r) => TypedRequests' /\ Does(r, "nothing", Nil)
  BY CdFinishes
<1>. QED
  BY <1>1, <1>2, <1>3 DEF Cd!IncrementAttempts, Cd!SpentBy

-----------------------------------------------------------------------------
(* Codes: the types *)

CdTypes == Cd!TypeOK /\ CodesAreKnown

LEMMA CdKnown ==
    ASSUME CodesAreKnown, NEW r \in Requests, NEW at, NEW c, Does(r, at, c),
           at \in {"attempt", "clear"} => c \in CodeIds
    PROVE  CodesAreKnown'
  BY DEF CodesAreKnown, Does

LEMMA CdTypesKept == CdTypes /\ [Cd!Next]_(Cd!vars) => CdTypes'
<1>. SUFFICES ASSUME CdTypes, [Cd!Next]_(Cd!vars)
              PROVE  CdTypes'
  OBVIOUS
<1>1. /\ purpose \in {"register", "reset"} /\ stored \subseteq CodeIds
      /\ attempts \in Nat /\ sends \in Nat /\ mails \in Nat
      /\ cooldown \in BOOLEAN /\ failed \in BOOLEAN
      /\ tries \in [ CodeIds -> 0..MaxTries ] /\ TypedRequests /\ CodesAreKnown
  BY DEF CdTypes, Cd!TypeOK, TypedRequests
<1>. DEFINE Keys == /\ purpose' \in {"register", "reset"} /\ stored' \subseteq CodeIds
                    /\ attempts' \in Nat /\ sends' \in Nat /\ mails' \in Nat
                    /\ cooldown' \in BOOLEAN /\ failed' \in BOOLEAN
                    /\ tries' \in [ CodeIds -> 0..MaxTries ]
<1>2. Keys /\ TypedRequests' /\ CodesAreKnown' => CdTypes'
  BY DEF CdTypes, Cd!TypeOK, TypedRequests
<1>3. ASSUME NEW r \in Requests, NEW at, NEW c, Does(r, at, c), TypedRequests', Keys,
             at \notin {"attempt", "clear"}
      PROVE  CdTypes'
  <2>1. CodesAreKnown'
    BY <1>1, <1>3, CdKnown
  <2>. QED
    BY <1>2, <1>3, <2>1
<1>4. ASSUME NEW r \in Requests, Cd!SendRegisterOTP(r) \/ Cd!ForgotPassword(r)
      PROVE  CdTypes'
  <2>1. Keys
    BY <1>1, <1>4 DEF Cd!SendRegisterOTP, Cd!ForgotPassword, Cd!Send, Cd!keys, Cd!counts
  <2>. HIDE DEF Keys
  <2>. QED
    BY <1>1, <1>3, <1>4, <2>1, CdSteps
<1>5. ASSUME NEW r \in Requests, Cd!IncrementSendCount(r) PROVE CdTypes'
  <2>1. Keys
    BY <1>1, <1>5 DEF Cd!IncrementSendCount, Cd!Counted, Cd!counts
  <2>. HIDE DEF Keys
  <2>. QED
    BY <1>1, <1>3, <1>5, <2>1, CdSteps
<1>6. ASSUME NEW r \in Requests, NEW c \in CodeIds, Cd!Store(r, c) PROVE CdTypes'
  <2>1. Keys
    BY <1>1, <1>6, CdConstants DEF Cd!Store
  <2>. HIDE DEF Keys
  <2>. DEFINE at == IF purpose = "register" THEN "clear" ELSE "cool"
  <2>2. TypedRequests' /\ Does(r, at, c)
    BY <1>1, <1>6, CdStores
  <2>. HIDE DEF at
  <2>3. CodesAreKnown'
    BY <1>1, <2>2, CdKnown
  <2>. QED
    BY <1>2, <2>1, <2>2, <2>3
<1>7. ASSUME NEW r \in Requests, Cd!NotStored(r) PROVE CdTypes'
  <2>1. Keys
    BY <1>1, <1>7 DEF Cd!NotStored
  <2>. HIDE DEF Keys
  <2>. QED
    BY <1>1, <1>3, <1>7, <2>1, CdSteps
<1>8. ASSUME NEW r \in Requests, Cd!ResetAttempts(r) PROVE CdTypes'
  <2>1. tries' \in [ CodeIds -> 0..MaxTries ]
    <3>1. tries' = [ tries EXCEPT ![reqOfCodes[r].code] = 0 ] /\ 0 \in 0..MaxTries
      BY <1>8, CdConstants DEF Cd!ResetAttempts
    <3>. QED
      BY <1>1, <3>1
  <2>2. Keys
    BY <1>1, <1>8, <2>1 DEF Cd!ResetAttempts
  <2>. HIDE DEF Keys
  <2>. QED
    BY <1>1, <1>3, <1>8, <2>2, CdSteps
<1>9. ASSUME NEW r \in Requests, Cd!SetCooldown(r) PROVE CdTypes'
  <2>1. Keys
    BY <1>1, <1>9 DEF Cd!SetCooldown, Cd!counts
  <2>. HIDE DEF Keys
  <2>. QED
    BY <1>1, <1>3, <1>9, <2>1, CdSteps
<1>10. ASSUME NEW r \in Requests, Cd!Mail(r) PROVE CdTypes'
  <2>1. Keys
    BY <1>1, <1>10 DEF Cd!Mail, Cd!keys
  <2>. HIDE DEF Keys
  <2>. QED
    BY <1>1, <1>3, <1>10, <2>1, CdSteps
<1>11. ASSUME NEW r \in Requests, Cd!Undo(r) PROVE CdTypes'
  <2>1. Keys
    BY <1>1, <1>11 DEF Cd!Undo, Cd!keys
  <2>. HIDE DEF Keys
  <2>. QED
    BY <1>1, <1>3, <1>11, <2>1, CdSteps
<1>12. ASSUME NEW r \in Requests, NEW c \in CodeIds,
              Cd!VerifyRegisterOTP(r, c) \/ Cd!VerifyReset(r, c)
       PROVE  CdTypes'
  <2>1. Keys
    BY <1>1, <1>12 DEF Cd!VerifyRegisterOTP, Cd!VerifyReset, Cd!keys, Cd!counts
  <2>. HIDE DEF Keys
  <2>2. TypedRequests' /\ (Does(r, "attempt", c) \/ Does(r, "delete", c))
    BY <1>1, <1>12, CdVerifies
  <2>3. CodesAreKnown'
    BY <1>1, <2>2, CdKnown
  <2>. QED
    BY <1>2, <2>1, <2>2, <2>3
<1>13. ASSUME NEW r \in Requests, Cd!IncrementAttempts(r) PROVE CdTypes'
  <2>1. /\ TypedRequests' /\ Doing(r) = "attempt" /\ tries[Code(r)] < MaxTries
        /\ attempts' = Cd!Counted(attempts, MaxAttempts)
        /\ tries' = tries \/ tries' = [ tries EXCEPT ![Code(r)] = @ + 1 ]
        /\ UNCHANGED <<purpose, stored, cooldown, sends, mails, failed>>
        /\ Does(r, "delete", Code(r)) \/ Does(r, "nothing", Nil)
    BY <1>1, <1>13, CdAttempts
  <2>2. Code(r) \in CodeIds
    BY <1>1, <2>1 DEF CodesAreKnown
  <2>3. Keys
    BY <1>1, <2>1, <2>2, CdConstants DEF Cd!Counted
  <2>. HIDE DEF Keys
  <2>. QED
    BY <1>3, <2>1, <2>3
<1>14. ASSUME NEW r \in Requests, Cd!DeleteCode(r) PROVE CdTypes'
  <2>1. Keys
    BY <1>1, <1>14 DEF Cd!DeleteCode
  <2>. HIDE DEF Keys
  <2>. QED
    BY <1>1, <1>3, <1>14, <2>1, CdDeletes
<1>15. ASSUME NEW r \in Requests, Cd!Forget(r) PROVE CdTypes'
  <2>1. Keys
    BY <1>1, <1>15 DEF Cd!Forget
  <2>. HIDE DEF Keys
  <2>. QED
    BY <1>1, <1>3, <1>15, <2>1, CdSteps
<1>16. ASSUME NEW r \in Requests, Cd!Fail(r) PROVE CdTypes'
  <2>1. Keys
    BY <1>1, <1>16 DEF Cd!Fail, Cd!keys
  <2>. HIDE DEF Keys
  <2>. QED
    BY <1>1, <1>3, <1>16, <2>1, CdSteps
<1>17. ASSUME (\E c \in CodeIds : Cd!ExpireCode(c)) \/ Cd!ExpireAttempts \/ Cd!ExpireCooldown
                \/ Cd!ExpireSends \/ UNCHANGED Cd!vars
       PROVE  CdTypes'
  <2>1. Keys
    <3>1. CASE \E c \in CodeIds : Cd!ExpireCode(c)
      BY <1>1, <3>1 DEF Cd!ExpireCode, Cd!counts
    <3>2. CASE Cd!ExpireAttempts
      BY <1>1, <3>2 DEF Cd!ExpireAttempts, Cd!counts
    <3>4. CASE Cd!ExpireCooldown
      BY <1>1, <3>4 DEF Cd!ExpireCooldown, Cd!counts
    <3>3. CASE Cd!ExpireSends \/ UNCHANGED Cd!vars
      BY <1>1, <3>3 DEF Cd!ExpireSends, Cd!vars, Cd!keys, Cd!counts
    <3>. QED
      BY <1>17, <3>1, <3>2, <3>3, <3>4
  <2>2. reqOfCodes' = reqOfCodes
    BY <1>17 DEF Cd!ExpireCode, Cd!ExpireAttempts, Cd!ExpireCooldown, Cd!ExpireSends, Cd!vars
  <2>3. TypedRequests' /\ CodesAreKnown'
    BY <1>1, <2>2 DEF TypedRequests, CodesAreKnown, Doing, Code
  <2>. HIDE DEF Keys
  <2>. QED
    BY <1>2, <2>1, <2>3
<1>. QED
  BY <1>4, <1>5, <1>6, <1>7, <1>8, <1>9, <1>10, <1>11, <1>12, <1>13, <1>14, <1>15, <1>16, <1>17
  DEF Cd!Next

-----------------------------------------------------------------------------
(* Codes: mails *)

\* A step that leaves the counter, and as many requests that may still mail.
LEMMA CdSameMails ==
    ASSUME CdTypes, MailsLeft, sends' = sends, mails' = mails,
           Cardinality(Mailing) \in Nat, Cardinality(Mailing)' \in Nat,
           Cardinality(Mailing)' <= Cardinality(Mailing)
    PROVE  MailsLeft'
  BY CdConstants DEF CdTypes, Cd!TypeOK, MailsLeft, Lesser

LEMMA CdMailsKept == CdTypes /\ MailsLeft /\ [Cd!Next]_(Cd!vars) => MailsLeft'
<1>. SUFFICES ASSUME CdTypes, MailsLeft, [Cd!Next]_(Cd!vars)
              PROVE  MailsLeft'
  OBVIOUS
<1>1. /\ sends \in Nat /\ mails \in Nat /\ TypedRequests
      /\ RateLimit \in Nat \ {0} /\ Running \in Nat
  BY CdConstants DEF CdTypes, Cd!TypeOK, TypedRequests
<1>2. /\ Cardinality(Mailing) \in Nat /\ Cardinality(Mailing)' \in Nat
      /\ Cardinality(Mailing) <= Running /\ Cardinality(Mailing)' <= Running
  <2>1. Mailing \in SUBSET Requests /\ Mailing' \in SUBSET Requests
    BY DEF Mailing
  <2>. QED
    BY <2>1, SomeRequests
\* A request is done with mailing, or was never counted.
<1>3. ASSUME NEW r \in Requests, NEW at, NEW c, Does(r, at, c), sends' = sends, mails' = mails,
             at \in {"store", "clear", "cool", "mail"} =>
                Doing(r) \in {"store", "clear", "cool", "mail"}
      PROVE  MailsLeft'
  <2>1. Cardinality(Mailing)' <= Cardinality(Mailing)
    BY <1>2, <1>3, CdCounts DEF One
  <2>. QED
    BY <1>2, <1>3, <2>1, CdSameMails
<1>4. ASSUME sends' = 0, mails' = 0 PROVE MailsLeft'
  BY <1>4 DEF MailsLeft
<1>5. ASSUME NEW r \in Requests, Cd!IncrementSendCount(r) PROVE MailsLeft'
  <2>1. /\ Doing(r) = "count" /\ mails' = mails
        /\ IF sends' > RateLimit THEN Does(r, "nothing", Nil) ELSE Does(r, "store", Code(r))
        /\ sends' = IF sends > RateLimit THEN sends ELSE sends + 1
    BY <1>1, <1>5, CdSteps DEF Cd!IncrementSendCount, Cd!Counted, Cd!counts
  <2>2. CASE sends' > RateLimit
    <3>1. Does(r, "nothing", Nil)
      BY <2>1, <2>2
    <3>2. Cardinality(Mailing)' = Cardinality(Mailing)
      BY <1>2, <2>1, <3>1, CdCounts DEF One
    <3>. QED
      BY <1>1, <1>2, <2>1, <2>2, <3>2 DEF MailsLeft, Lesser
  <2>3. CASE ~ sends' > RateLimit
    <3>1. Does(r, "store", Code(r))
      BY <2>1, <2>3
    <3>2. Cardinality(Mailing)' = Cardinality(Mailing) + 1
      BY <1>2, <2>1, <3>1, CdCounts DEF One
    <3>. QED
      BY <1>1, <1>2, <2>1, <2>3, <3>2 DEF MailsLeft, Lesser
  <2>. QED
    BY <2>2, <2>3
<1>6. ASSUME NEW r \in Requests, Cd!Mail(r) PROVE MailsLeft'
  <2>1. /\ Doing(r) = "mail" /\ Does(r, "nothing", Nil)
        /\ sends' = sends /\ mails' = IF sends = 0 THEN 0 ELSE mails + 1
    BY <1>1, <1>6, CdSteps DEF Cd!Mail, Cd!keys
  <2>2. Cardinality(Mailing)' = Cardinality(Mailing) - 1
    BY <1>2, <2>1, CdCounts DEF One
  <2>. QED
    BY <1>1, <1>2, <2>1, <2>2 DEF MailsLeft, Lesser
<1>7. ASSUME NEW r \in Requests, NEW c \in CodeIds, Cd!Store(r, c) PROVE MailsLeft'
  <2>. DEFINE at == IF purpose = "register" THEN "clear" ELSE "cool"
  <2>1. Doing(r) = "store" /\ Does(r, at, c) /\ sends' = sends /\ mails' = mails
    BY <1>1, <1>7, CdStores DEF Cd!Store
  <2>. HIDE DEF at
  <2>. QED
    BY <1>3, <2>1
<1>8. ASSUME NEW r \in Requests,
             \/ Cd!SendRegisterOTP(r) \/ Cd!ForgotPassword(r) \/ Cd!ResetAttempts(r)
             \/ Cd!SetCooldown(r) \/ Cd!Undo(r) \/ Cd!IncrementAttempts(r) \/ Cd!DeleteCode(r)
             \/ Cd!Fail(r) \/ \E c \in CodeIds : Cd!VerifyRegisterOTP(r, c) \/ Cd!VerifyReset(r, c)
      PROVE  MailsLeft'
  <2>1. sends' = sends /\ mails' = mails
    BY <1>8 DEF Cd!SendRegisterOTP, Cd!ForgotPassword, Cd!Send, Cd!ResetAttempts, Cd!SetCooldown,
       Cd!Undo, Cd!IncrementAttempts, Cd!DeleteCode, Cd!Fail, Cd!VerifyRegisterOTP,
       Cd!VerifyReset, Cd!keys, Cd!counts
  <2>2. \E at, c : /\ Does(r, at, c)
                   /\ at \in {"store", "clear", "cool", "mail"} =>
                        Doing(r) \in {"store", "clear", "cool", "mail"}
    BY <1>1, <1>8, CdSteps, CdVerifies, CdAttempts, CdDeletes
  <2>. QED
    BY <1>3, <2>1, <2>2
<1>9. ASSUME NEW r \in Requests, Cd!NotStored(r) PROVE MailsLeft'
  BY <1>4, <1>9 DEF Cd!NotStored
<1>10. ASSUME NEW r \in Requests, Cd!Forget(r) PROVE MailsLeft'
  <2>1. /\ Doing(r) = "forget" /\ Does(r, "nothing", Nil)
        /\ (sends' = sends /\ mails' = mails) \/ (sends' = 0 /\ mails' = 0)
    BY <1>1, <1>10, CdSteps DEF Cd!Forget
  <2>. QED
    BY <1>3, <1>4, <2>1
<1>11. ASSUME (\E c \in CodeIds : Cd!ExpireCode(c)) \/ Cd!ExpireAttempts \/ Cd!ExpireCooldown
                \/ UNCHANGED Cd!vars
       PROVE  MailsLeft'
  <2>1. sends' = sends /\ mails' = mails /\ reqOfCodes' = reqOfCodes
    BY <1>11 DEF Cd!ExpireCode, Cd!ExpireAttempts, Cd!ExpireCooldown, Cd!vars, Cd!keys, Cd!counts
  <2>2. Mailing' = Mailing
    BY <2>1 DEF Mailing, Doing
  <2>. QED
    BY <1>2, <2>1, <2>2, CdSameMails
<1>12. ASSUME Cd!ExpireSends PROVE MailsLeft'
  BY <1>4, <1>12 DEF Cd!ExpireSends
<1>. QED
  BY <1>5, <1>6, <1>7, <1>8, <1>9, <1>10, <1>11, <1>12 DEF Cd!Next

-----------------------------------------------------------------------------
(* Codes: tokens of a reset *)

LEMMA CdTokensKept == CdTypes /\ TokensAreNotTried /\ [Cd!Next]_(Cd!vars) => TokensAreNotTried'
<1>. SUFFICES ASSUME CdTypes, TokensAreNotTried, [Cd!Next]_(Cd!vars), purpose' = "reset"
              PROVE  /\ \A c \in CodeIds : tries'[c] = 0
                     /\ \A r \in Requests : Doing(r)' \notin {"attempt", "clear"}
  BY DEF TokensAreNotTried
<1>1. TypedRequests /\ tries \in [ CodeIds -> 0..MaxTries ]
  BY DEF CdTypes, Cd!TypeOK, TypedRequests
<1>2. purpose' = purpose
  BY DEF Cd!Next, Cd!vars, Cd!SendRegisterOTP, Cd!ForgotPassword, Cd!Send,
     Cd!IncrementSendCount, Cd!Store, Cd!NotStored, Cd!ResetAttempts, Cd!SetCooldown, Cd!Mail,
     Cd!Undo, Cd!VerifyRegisterOTP, Cd!VerifyReset, Cd!IncrementAttempts, Cd!DeleteCode,
     Cd!Forget, Cd!Fail, Cd!ExpireCode, Cd!ExpireAttempts, Cd!ExpireCooldown, Cd!ExpireSends
<1>3. /\ purpose = "reset" /\ \A c \in CodeIds : tries[c] = 0
      /\ \A r \in Requests : Doing(r) \notin {"attempt", "clear"}
  BY <1>2 DEF TokensAreNotTried
<1>. DEFINE Goal == /\ \A c \in CodeIds : tries'[c] = 0
                    /\ \A r \in Requests : Doing(r)' \notin {"attempt", "clear"}
<1>4. ASSUME NEW r \in Requests, NEW at, NEW c, Does(r, at, c), at \notin {"attempt", "clear"},
             tries' = tries
      PROVE  Goal
  BY <1>3, <1>4 DEF Does
<1>5. ASSUME NEW r \in Requests, NEW c \in CodeIds, Cd!Store(r, c) PROVE Goal
  <2>1. Does(r, "cool", c) /\ tries' = [ tries EXCEPT ![c] = 0 ]
    BY <1>1, <1>3, <1>5, CdStores DEF Cd!Store
  <2>2. tries' = tries
    BY <1>1, <1>3, <2>1
  <2>. QED
    BY <1>4, <2>1, <2>2
<1>6. ASSUME NEW r \in Requests,
             \/ Cd!SendRegisterOTP(r) \/ Cd!ForgotPassword(r) \/ Cd!IncrementSendCount(r)
             \/ Cd!NotStored(r) \/ Cd!SetCooldown(r) \/ Cd!Mail(r) \/ Cd!Undo(r)
             \/ Cd!DeleteCode(r) \/ Cd!Forget(r) \/ Cd!Fail(r)
      PROVE  Goal
  <2>1. tries' = tries
    BY <1>6 DEF Cd!SendRegisterOTP, Cd!ForgotPassword, Cd!Send, Cd!IncrementSendCount,
       Cd!NotStored, Cd!SetCooldown, Cd!Mail, Cd!Undo, Cd!DeleteCode, Cd!Forget, Cd!Fail, Cd!counts
  <2>2. \E at, c : Does(r, at, c) /\ at \notin {"attempt", "clear"}
    BY <1>1, <1>6, CdSteps, CdDeletes
  <2>. QED
    BY <1>4, <2>1, <2>2
<1>7. ASSUME NEW r \in Requests, NEW c \in CodeIds,
             Cd!VerifyRegisterOTP(r, c) \/ Cd!VerifyReset(r, c)
      PROVE  Goal
  <2>1. Cd!VerifyReset(r, c) /\ tries' = tries
    BY <1>3, <1>7 DEF Cd!VerifyRegisterOTP, Cd!VerifyReset, Cd!counts
  <2>. QED
    BY <1>1, <1>4, <2>1, CdVerifies
<1>8. ASSUME NEW r \in Requests, Cd!ResetAttempts(r) \/ Cd!IncrementAttempts(r) PROVE FALSE
  BY <1>1, <1>3, <1>8, CdSteps, CdAttempts
<1>9. ASSUME (\E c \in CodeIds : Cd!ExpireCode(c)) \/ Cd!ExpireAttempts \/ Cd!ExpireCooldown
                \/ Cd!ExpireSends \/ UNCHANGED Cd!vars
       PROVE  Goal
  <2>1. tries' = tries /\ reqOfCodes' = reqOfCodes
    BY <1>9 DEF Cd!ExpireCode, Cd!ExpireAttempts, Cd!ExpireCooldown, Cd!ExpireSends, Cd!vars,
       Cd!counts
  <2>. QED
    BY <1>3, <2>1 DEF Doing
<1>. HIDE DEF Goal
<1>10. Goal
  BY <1>5, <1>6, <1>7, <1>8, <1>9 DEF Cd!Next
<1>. QED
  BY <1>10 DEF Goal

-----------------------------------------------------------------------------
(* Codes: attempts *)

\* Products.
LEMMA Times ==
    ASSUME NEW k \in Nat, NEW m \in Nat, NEW n \in Nat
    PROVE  /\ k * (m + n) = k * m + k * n /\ k * m \in Nat /\ (k + 1) * m = k * m + m
           /\ m <= n => k * m <= k * n
<1>1. k * (m + n) = k * m + k * n /\ (k + 1) * m = k * m + m
  OBVIOUS
<1>2. \A i \in Nat : k * i \in Nat
  OBVIOUS
<1>3. ASSUME m <= n PROVE k * m <= k * n
  <2>1. n - m \in Nat /\ n = m + (n - m)
    BY <1>3
  <2>2. k * (m + (n - m)) = k * m + k * (n - m)
    OBVIOUS
  <2>. QED
    BY <1>2, <2>1, <2>2
<1>. QED
  BY <1>1, <1>2, <1>3

\* A code that stays: fewer forget, no fewer attempts are counted or deletions due.
LEMMA CdStays ==
    ASSUME NEW c \in CodeIds, c \in stored, c \in stored', TriesLeft(c), CdTypes,
           tries'[c] = tries[c], attempts' \in Nat, attempts' >= attempts,
           Cardinality(Clearing(c))' \in Nat, Cardinality(Deleting)' \in Nat,
           Cardinality(Clearing(c))' <= Cardinality(Clearing(c)),
           Cardinality(Deleting)' >= Cardinality(Deleting)
    PROVE  TriesLeft(c)'
<1>. DEFINE k == MaxAttempts - 1
            m == Running - 1 - Cardinality(Clearing(c))
            n == Running - 1 - Cardinality(Clearing(c))'
<1>1. /\ k \in Nat /\ Running \in Nat /\ attempts \in Nat /\ tries[c] \in Nat
      /\ Cardinality(Clearing(c)) \in Nat /\ Cardinality(Deleting) \in Nat
  BY CdConstants, CdApart DEF CdTypes, Cd!TypeOK
<1>2. /\ Cardinality(Clearing(c)) < Running
      /\ tries[c] <= Lesser(attempts, k) + k * m + Cardinality(Deleting)
  BY DEF TriesLeft
<1>3. m \in Nat /\ n \in Nat /\ m <= n /\ Cardinality(Clearing(c))' < Running
  BY <1>1, <1>2
<1>4. Lesser(attempts, k) <= Lesser(attempts', k) /\ Lesser(attempts, k) \in Nat
      /\ Lesser(attempts', k) \in Nat
  BY <1>1 DEF Lesser
<1>. HIDE DEF k, m, n
<1>5. k * m <= k * n /\ k * m \in Nat /\ k * n \in Nat
  BY <1>1, <1>3, Times
<1>6. tries'[c] <= Lesser(attempts', k) + k * n + Cardinality(Deleting)'
  BY <1>1, <1>2, <1>4, <1>5
<1>. QED
  BY <1>3, <1>6 DEF TriesLeft, k, n

\* A code that goes: those who have read it try it once more each.
LEMMA CdGoes ==
    ASSUME NEW c \in CodeIds, c \in stored, c \notin stored', TriesLeft(c), CdTypes,
           tries'[c] = tries[c], Cardinality(Trying(c))' \in Nat,
           Cardinality(Trying(c))' <= Cardinality(Trying(c))
    PROVE  TriesLeft(c)'
<1>. DEFINE k == MaxAttempts - 1
            left == Cardinality(Clearing(c))
            m == Running - 1 - left
<1>1. /\ k \in Nat /\ MaxAttempts = k + 1 /\ Running \in Nat /\ attempts \in Nat
      /\ tries[c] \in Nat
      /\ left \in Nat /\ Cardinality(Deleting) \in Nat /\ Cardinality(Trying(c)) \in Nat
      /\ left + Cardinality(Deleting) + Cardinality(Trying(c)) <= Running
  BY CdConstants, CdApart DEF CdTypes, Cd!TypeOK
<1>2. /\ left < Running
      /\ tries[c] <= Lesser(attempts, k) + k * m + Cardinality(Deleting)
  BY DEF TriesLeft
<1>4. Lesser(attempts, k) <= k /\ Lesser(attempts, k) \in Nat
  BY <1>1 DEF Lesser
<1>. HIDE DEF k, left
<1>3. m \in Nat /\ Running = m + (left + 1) /\ left + 1 \in Nat
  BY <1>1, <1>2
<1>. HIDE DEF m
<1>5. /\ k * Running = k * m + k * (left + 1) /\ k * m \in Nat
      /\ MaxAttempts * Running = k * Running + Running
  <2>1. k * (m + (left + 1)) = k * m + k * (left + 1) /\ k * m \in Nat
    BY <1>1, <1>3, Times
  <2>2. (k + 1) * Running = k * Running + Running
    BY <1>1, Times
  <2>. QED
    BY <1>1, <1>3, <2>1, <2>2
<1>6. k * (left + 1) = k * left + k /\ k * left \in Nat
  <2>1. k * (left + 1) = k * left + k * 1 /\ k * left \in Nat
    BY <1>1, Times
  <2>. QED
    BY <1>1, <2>1
<1>7. tries'[c] + Cardinality(Trying(c))' <= MaxAttempts * Running
  BY <1>1, <1>2, <1>4, <1>5, <1>6
<1>. QED
  BY <1>7 DEF TriesLeft

\* A code that is gone: whoever tries it has read it before.
LEMMA CdStaysGone ==
    ASSUME NEW c \in CodeIds, c \notin stored, c \notin stored', TriesLeft(c), CdTypes,
           tries'[c] \in Nat, Cardinality(Trying(c))' \in Nat,
           tries'[c] + Cardinality(Trying(c))' <= tries[c] + Cardinality(Trying(c))
    PROVE  TriesLeft(c)'
<1>1. tries[c] \in Nat /\ Cardinality(Trying(c)) \in Nat /\ MaxAttempts * Running \in Nat
  BY CdConstants, CdApart DEF CdTypes, Cd!TypeOK
<1>. QED
  BY <1>1 DEF TriesLeft

\* Steps that leave what is stored and counted.
LEMMA CdQuiet ==
    ASSUME CdTypes, CdTypes', NEW r \in Requests, NEW at, NEW k, Does(r, at, k),
           NEW c \in CodeIds, TriesLeft(c),
           stored' = stored, attempts' = attempts, tries' = tries,
           at # "forget", at # "clear", at = "attempt" => k \in stored,
           Doing(r) # "delete"
    PROVE  TriesLeft(c)'
<1>1. /\ Cardinality(Clearing(c)) \in Nat /\ Cardinality(Clearing(c))' \in Nat
      /\ Cardinality(Trying(c)) \in Nat /\ Cardinality(Trying(c))' \in Nat
      /\ Cardinality(Deleting) \in Nat /\ Cardinality(Deleting)' \in Nat
  <2>1. /\ Clearing(c) \in SUBSET Requests /\ Clearing(c)' \in SUBSET Requests
        /\ Trying(c) \in SUBSET Requests /\ Trying(c)' \in SUBSET Requests
        /\ Deleting \in SUBSET Requests /\ Deleting' \in SUBSET Requests
    BY DEF Clearing, Trying, Deleting
  <2>. QED
    BY <2>1, SomeRequests
<1>2. attempts \in Nat /\ tries[c] \in Nat
  BY CdConstants DEF CdTypes, Cd!TypeOK
<1>3. CASE c \in stored
  <2>1. /\ Cardinality(Clearing(c))' <= Cardinality(Clearing(c))
        /\ Cardinality(Deleting)' >= Cardinality(Deleting)
    BY <1>1, CdCounts, CdCountsOfCode DEF One
  <2>. QED
    BY <1>1, <1>2, <1>3, <2>1, CdStays
<1>4. CASE c \notin stored
  <2>1. Cardinality(Trying(c))' <= Cardinality(Trying(c))
    BY <1>1, <1>4, CdCountsOfCode DEF One
  <2>. QED
    BY <1>1, <1>2, <1>4, <2>1, CdStaysGone
<1>. QED
  BY <1>3, <1>4

\* One that would forget the attempts has done so.
LEMMA CdForgets ==
    ASSUME NEW c \in CodeIds, c \in stored, c \in stored', TriesLeft(c), CdTypes,
           tries'[c] = tries[c], attempts' = 0,
           Cardinality(Clearing(c))' = Cardinality(Clearing(c)) - 1,
           Cardinality(Clearing(c))' \in Nat,
           Cardinality(Deleting)' = Cardinality(Deleting)
    PROVE  TriesLeft(c)'
<1>. DEFINE k == MaxAttempts - 1
            left == Cardinality(Clearing(c))
            m == Running - 1 - left
            n == Running - 1 - Cardinality(Clearing(c))'
<1>1. /\ k \in Nat /\ Running \in Nat /\ attempts \in Nat /\ tries[c] \in Nat
      /\ left \in Nat /\ Cardinality(Deleting) \in Nat
  BY CdConstants, CdApart DEF CdTypes, Cd!TypeOK
<1>2. /\ left < Running
      /\ tries[c] <= Lesser(attempts, k) + k * m + Cardinality(Deleting)
  BY DEF TriesLeft
<1>4. Cardinality(Clearing(c))' = left - 1
  OBVIOUS
<1>. HIDE DEF k, left
<1>3. Lesser(attempts, k) <= k /\ Lesser(attempts, k) \in Nat /\ Lesser(0, k) = 0
  BY <1>1 DEF Lesser
<1>5. m \in Nat /\ n = m + 1 /\ Cardinality(Clearing(c))' < Running
  BY <1>1, <1>2, <1>4
<1>. HIDE DEF m, n
<1>6. k * n = k * m + k /\ k * m \in Nat
  <2>1. k * (m + 1) = k * m + k * 1 /\ k * m \in Nat
    BY <1>1, <1>5, Times
  <2>. QED
    BY <1>1, <1>5, <2>1
<1>7. tries'[c] <= Lesser(attempts', k) + k * n + Cardinality(Deleting)'
  BY <1>1, <1>2, <1>3, <1>6
<1>. QED
  BY <1>5, <1>7 DEF TriesLeft, k, n

\* The code nobody has tried since it was stored, or since the attempts were forgotten.
LEMMA CdUntried ==
    ASSUME NEW c \in CodeIds, c \in stored', tries'[c] = 0, attempts' \in Nat,
           Cardinality(Clearing(c))' \in Nat, Cardinality(Clearing(c))' < Running,
           Cardinality(Deleting)' \in Nat
    PROVE  TriesLeft(c)'
<1>. DEFINE k == MaxAttempts - 1
            n == Running - 1 - Cardinality(Clearing(c))'
<1>1. k \in Nat /\ Running \in Nat
  BY CdConstants
<1>2. n \in Nat
  BY <1>1
<1>3. Lesser(attempts', k) \in Nat
  BY <1>1 DEF Lesser
<1>. HIDE DEF k, n
<1>4. k * n \in Nat
  BY <1>1, <1>2, Times
<1>5. tries'[c] <= Lesser(attempts', k) + k * n + Cardinality(Deleting)'
  BY <1>3, <1>4
<1>. QED
  BY <1>5 DEF TriesLeft, k, n

\* An attempt at the stored code, or at another.
LEMMA CdTried ==
    ASSUME CdTypes, CdTypes', NEW r \in Requests, Cd!IncrementAttempts(r),
           NEW c \in CodeIds, TriesLeft(c)
    PROVE  TriesLeft(c)'
<1>1. /\ Doing(r) = "attempt" /\ attempts' = Cd!Counted(attempts, MaxAttempts)
      /\ \/ attempts' > MaxAttempts /\ Does(r, "delete", Code(r)) /\ tries' = tries
         \/ /\ ~ attempts' > MaxAttempts
            /\ tries' = [ tries EXCEPT ![Code(r)] = @ + 1 ]
            /\ \/ Does(r, "delete", Code(r))
               \/ Does(r, "nothing", Nil) /\ ~ attempts' >= MaxAttempts
      /\ stored' = stored
  BY CdAttempts DEF CdTypes, Cd!TypeOK, TypedRequests
<1>2. /\ tries \in [ CodeIds -> 0..MaxTries ] /\ attempts \in Nat /\ attempts' \in Nat
      /\ tries[c] \in Nat /\ tries'[c] \in Nat /\ Code(r) \in CodeIds
      /\ MaxAttempts \in Nat \ {0} /\ Running \in Nat
  BY <1>1, CdConstants DEF CdTypes, Cd!TypeOK, CodesAreKnown
<1>3. /\ Cardinality(Clearing(c)) \in Nat /\ Cardinality(Clearing(c))' \in Nat
      /\ Cardinality(Trying(c)) \in Nat /\ Cardinality(Trying(c))' \in Nat
      /\ Cardinality(Deleting) \in Nat /\ Cardinality(Deleting)' \in Nat
  <2>1. /\ Clearing(c) \in SUBSET Requests /\ Clearing(c)' \in SUBSET Requests
        /\ Trying(c) \in SUBSET Requests /\ Trying(c)' \in SUBSET Requests
        /\ Deleting \in SUBSET Requests /\ Deleting' \in SUBSET Requests
    BY DEF Clearing, Trying, Deleting
  <2>. QED
    BY <2>1, SomeRequests
<1>4. PICK at, k : /\ Does(r, at, k) /\ (at = "delete" \/ (at = "nothing" /\ ~ attempts' >= MaxAttempts))
  BY <1>1
<1>5. /\ Cardinality(Clearing(c))' = Cardinality(Clearing(c))
      /\ Cardinality(Deleting)' = Cardinality(Deleting) + One(at = "delete")
      /\ Cardinality(Trying(c))' = Cardinality(Trying(c)) - One(Code(r) = c)
  BY <1>1, <1>3, <1>4, CdCounts, CdCountsOfCode DEF One
<1>6. attempts' >= attempts
      /\ (attempts' > MaxAttempts \/ attempts' = attempts + 1)
  BY <1>1, <1>2 DEF Cd!Counted
<1>7. tries'[c] <= tries[c] + One(Code(r) = c)
      /\ (tries'[c] # tries[c] => tries'[c] = tries[c] + 1 /\ ~ attempts' > MaxAttempts)
  BY <1>1, <1>2 DEF One
<1>8. CASE c \notin stored
  <2>1. tries'[c] + Cardinality(Trying(c))' <= tries[c] + Cardinality(Trying(c))
    BY <1>2, <1>3, <1>5, <1>7 DEF One
  <2>. QED
    BY <1>1, <1>2, <1>3, <1>8, <2>1, CdStaysGone
<1>9. CASE c \in stored /\ tries'[c] = tries[c]
  BY <1>1, <1>2, <1>3, <1>5, <1>6, <1>9, CdStays DEF One
<1>10. CASE c \in stored /\ tries'[c] # tries[c]
  <2>. DEFINE k1 == MaxAttempts - 1
              rest == k1 * (Running - 1 - Cardinality(Clearing(c)))
  <2>1. /\ tries'[c] = tries[c] + 1 /\ attempts' = attempts + 1 /\ attempts' <= MaxAttempts
    BY <1>2, <1>6, <1>7, <1>10
  <2>2. /\ Cardinality(Clearing(c)) < Running
        /\ tries[c] <= Lesser(attempts, k1) + rest + Cardinality(Deleting)
    BY <1>10 DEF TriesLeft
  <2>3. rest \in Nat
    <3>1. k1 \in Nat /\ Running - 1 - Cardinality(Clearing(c)) \in Nat
      BY <1>2, <1>3, <2>2
    <3>. HIDE DEF k1
    <3>. QED
      BY <3>1, Times
  <2>4. Lesser(attempts', k1) + One(at = "delete") >= Lesser(attempts, k1) + 1
    BY <1>2, <1>4, <2>1 DEF Lesser, One
  <2>5. Lesser(attempts, k1) \in Nat /\ Lesser(attempts', k1) \in Nat
    BY <1>2 DEF Lesser
  <2>6. rest = k1 * (Running - 1 - Cardinality(Clearing(c))')
    BY <1>5
  <2>7. One(at = "delete") \in Nat
    BY DEF One
  <2>. HIDE DEF rest, k1
  <2>8. tries'[c] <= Lesser(attempts', k1) + rest + Cardinality(Deleting)'
    BY <1>2, <1>3, <1>5, <2>1, <2>2, <2>3, <2>4, <2>5, <2>7
  <2>. QED
    BY <1>1, <1>5, <1>10, <2>2, <2>6, <2>8 DEF TriesLeft, k1
<1>. QED
  BY <1>8, <1>9, <1>10

LEMMA CdTriesKept == CdTypes /\ CdTypes' /\ TriesInv /\ [Cd!Next]_(Cd!vars) => TriesInv'
<1>. SUFFICES ASSUME CdTypes, CdTypes', TriesInv, [Cd!Next]_(Cd!vars),
                     ~ failed', purpose' = "register", NEW c \in CodeIds
              PROVE  TriesLeft(c)'
  BY DEF TriesInv
<1>0. failed \in BOOLEAN /\ failed' \in BOOLEAN
  BY DEF CdTypes, Cd!TypeOK
<1>1. purpose' = purpose
  BY DEF Cd!Next, Cd!vars, Cd!SendRegisterOTP, Cd!ForgotPassword, Cd!Send, Cd!counts,
     Cd!IncrementSendCount, Cd!Store, Cd!NotStored, Cd!ResetAttempts, Cd!SetCooldown, Cd!Mail,
     Cd!Undo, Cd!VerifyRegisterOTP, Cd!VerifyReset, Cd!IncrementAttempts, Cd!DeleteCode,
     Cd!Forget, Cd!Fail, Cd!ExpireCode, Cd!ExpireAttempts, Cd!ExpireCooldown, Cd!ExpireSends
<1>a. failed' = failed \/ failed' = TRUE
  BY DEF Cd!Next, Cd!vars, Cd!SendRegisterOTP, Cd!ForgotPassword, Cd!Send, Cd!counts,
     Cd!IncrementSendCount, Cd!Store, Cd!NotStored, Cd!ResetAttempts, Cd!SetCooldown, Cd!Mail,
     Cd!Undo, Cd!VerifyRegisterOTP, Cd!VerifyReset, Cd!IncrementAttempts, Cd!DeleteCode,
     Cd!Forget, Cd!Fail, Cd!ExpireCode, Cd!ExpireAttempts, Cd!ExpireCooldown, Cd!ExpireSends
<1>2. purpose = "register" /\ TriesLeft(c)
  BY <1>0, <1>1, <1>a DEF TriesInv
<1>3. /\ TypedRequests /\ attempts \in Nat /\ attempts' \in Nat
      /\ tries \in [ CodeIds -> 0..MaxTries ] /\ tries[c] \in Nat /\ tries'[c] \in Nat
      /\ stored \subseteq CodeIds
  BY CdConstants DEF CdTypes, Cd!TypeOK, TypedRequests
<1>4. /\ Cardinality(Clearing(c)) \in Nat /\ Cardinality(Clearing(c))' \in Nat
      /\ Cardinality(Trying(c)) \in Nat /\ Cardinality(Trying(c))' \in Nat
      /\ Cardinality(Deleting) \in Nat /\ Cardinality(Deleting)' \in Nat
  <2>1. /\ Clearing(c) \in SUBSET Requests /\ Clearing(c)' \in SUBSET Requests
        /\ Trying(c) \in SUBSET Requests /\ Trying(c)' \in SUBSET Requests
        /\ Deleting \in SUBSET Requests /\ Deleting' \in SUBSET Requests
    BY DEF Clearing, Trying, Deleting
  <2>. QED
    BY <2>1, SomeRequests
<1>5. ASSUME NEW r \in Requests,
             \/ Cd!SendRegisterOTP(r) \/ Cd!ForgotPassword(r) \/ Cd!IncrementSendCount(r)
             \/ Cd!SetCooldown(r) \/ Cd!Mail(r) \/ Cd!Undo(r)
             \/ \E k \in CodeIds : Cd!VerifyRegisterOTP(r, k)
      PROVE  TriesLeft(c)'
  <2>1. stored' = stored /\ attempts' = attempts /\ tries' = tries
    BY <1>5 DEF Cd!SendRegisterOTP, Cd!ForgotPassword, Cd!Send, Cd!IncrementSendCount,
       Cd!SetCooldown, Cd!Mail, Cd!Undo, Cd!VerifyRegisterOTP, Cd!keys, Cd!counts
  <2>2. \E at, k : /\ Does(r, at, k) /\ Doing(r) # "delete"
                   /\ at # "forget" /\ at # "clear" /\ (at = "attempt" => k \in stored)
    <3>1. CASE \E k \in CodeIds : Cd!VerifyRegisterOTP(r, k)
      BY <1>3, <3>1, CdVerifies DEF Cd!VerifyRegisterOTP
    <3>2. CASE Cd!IncrementSendCount(r)
      BY <1>3, <3>2, CdSteps
    <3>3. CASE Cd!SendRegisterOTP(r) \/ Cd!ForgotPassword(r) \/ Cd!SetCooldown(r)
                 \/ Cd!Mail(r) \/ Cd!Undo(r)
      BY <1>3, <3>3, CdSteps
    <3>. QED
      BY <1>5, <3>1, <3>2, <3>3
  <2>. QED
    BY <1>2, <2>1, <2>2, CdQuiet
<1>6. ASSUME NEW r \in Requests, Cd!NotStored(r) \/ Cd!Fail(r) PROVE FALSE
  BY <1>6 DEF Cd!NotStored, Cd!Fail
<1>7. ASSUME NEW r \in Requests, NEW k \in CodeIds, Cd!Store(r, k) PROVE TriesLeft(c)'
  <2>1. /\ Doing(r) = "store" /\ Does(r, "clear", k) /\ k \notin stored
        /\ stored' = {k} /\ tries' = [ tries EXCEPT ![k] = 0 ]
    BY <1>2, <1>3, <1>7, CdStores DEF Cd!Store
  <2>2. CASE c = k
    <3>1. r \notin Clearing(c)' /\ Clearing(c)' \in SUBSET Requests
      BY <2>1, <2>2 DEF Clearing, Does
    <3>2. Cardinality(Clearing(c)')+ 1 <= Running
      <4>1. IsFiniteSet(Clearing(c)') /\ Clearing(c)' \union {r} \in SUBSET Requests
        BY <3>1, SomeRequests
      <4>2. Cardinality(Clearing(c)' \union {r}) = Cardinality(Clearing(c)') + 1
        BY <3>1, <4>1, FS_AddElement
      <4>. QED
        BY <4>1, <4>2, SomeRequests
    <3>3. Cardinality(Clearing(c))' < Running
      BY <1>4, <3>2, CdConstants
    <3>. QED
      BY <1>3, <1>4, <2>1, <2>2, <3>3, CdUntried
  <2>3. CASE c # k
    <3>1. tries'[c] = tries[c] /\ c \notin stored'
      BY <1>3, <2>1, <2>3
    <3>2. Cardinality(Trying(c))' = Cardinality(Trying(c))
      BY <1>4, <2>1, CdCountsOfCode DEF One
    <3>3. CASE c \in stored
      BY <1>2, <1>4, <3>1, <3>2, <3>3, CdGoes
    <3>4. CASE c \notin stored
      BY <1>2, <1>3, <1>4, <3>1, <3>2, <3>4, CdStaysGone
    <3>. QED
      BY <3>3, <3>4
  <2>. QED
    BY <2>2, <2>3
<1>8. ASSUME NEW r \in Requests, Cd!ResetAttempts(r) PROVE TriesLeft(c)'
  <2>1. /\ Doing(r) = "clear" /\ Does(r, "cool", Code(r))
        /\ attempts' = 0 /\ stored' = stored
        /\ tries' = [ tries EXCEPT ![Code(r)] = 0 ]
    BY <1>3, <1>8, CdSteps DEF Cd!ResetAttempts
  <2>2. /\ Cardinality(Clearing(c))' = Cardinality(Clearing(c)) - One(Code(r) # c)
        /\ Cardinality(Trying(c))' = Cardinality(Trying(c))
        /\ Cardinality(Deleting)' = Cardinality(Deleting)
    BY <1>4, <2>1, CdCounts, CdCountsOfCode DEF One
  <2>3. tries'[c] = IF c = Code(r) THEN 0 ELSE tries[c]
    BY <1>3, <2>1
  <2>4. CASE c \notin stored
    <3>1. tries'[c] + Cardinality(Trying(c))' <= tries[c] + Cardinality(Trying(c))
      BY <1>3, <1>4, <2>2, <2>3
    <3>. QED
      BY <1>2, <1>3, <1>4, <2>1, <2>4, <3>1, CdStaysGone
  <2>5. CASE c \in stored /\ c = Code(r)
    <3>1. Cardinality(Clearing(c))' < Running
      BY <1>2, <1>4, <2>2, <2>5 DEF TriesLeft, One
    <3>. QED
      BY <1>3, <1>4, <2>1, <2>3, <2>5, <3>1, CdUntried
  <2>6. CASE c \in stored /\ c # Code(r)
    BY <1>2, <1>4, <2>1, <2>2, <2>3, <2>6, CdForgets DEF One
  <2>. QED
    BY <2>4, <2>5, <2>6
<1>9. ASSUME NEW r \in Requests, NEW k \in CodeIds, Cd!VerifyReset(r, k) PROVE FALSE
  BY <1>2, <1>9 DEF Cd!VerifyReset
<1>10. ASSUME NEW r \in Requests, Cd!DeleteCode(r) PROVE TriesLeft(c)'
  <2>1. /\ Doing(r) = "delete" /\ Does(r, "forget", Code(r))
        /\ stored' = {} /\ tries' = tries
    BY <1>2, <1>3, <1>10, CdDeletes DEF Cd!DeleteCode
  <2>2. Cardinality(Trying(c))' = Cardinality(Trying(c))
    BY <1>4, <2>1, CdCountsOfCode DEF One
  <2>3. CASE c \in stored
    BY <1>2, <1>4, <2>1, <2>2, <2>3, CdGoes
  <2>4. CASE c \notin stored
    BY <1>2, <1>3, <1>4, <2>1, <2>2, <2>4, CdStaysGone
  <2>. QED
    BY <2>3, <2>4
<1>11. ASSUME NEW r \in Requests, Cd!Forget(r) PROVE TriesLeft(c)'
  <2>1. /\ Doing(r) = "forget" /\ Does(r, "nothing", Nil)
        /\ attempts' = 0 /\ stored' = stored /\ tries' = tries
    BY <1>3, <1>11, CdSteps DEF Cd!Forget
  <2>2. /\ Cardinality(Clearing(c))' = Cardinality(Clearing(c)) - 1
        /\ Cardinality(Trying(c))' = Cardinality(Trying(c))
        /\ Cardinality(Deleting)' = Cardinality(Deleting)
    BY <1>4, <2>1, CdCounts, CdCountsOfCode DEF One
  <2>3. CASE c \in stored
    BY <1>2, <1>4, <2>1, <2>2, <2>3, CdForgets
  <2>4. CASE c \notin stored
    BY <1>2, <1>3, <1>4, <2>1, <2>2, <2>4, CdStaysGone
  <2>. QED
    BY <2>3, <2>4
\* Nobody does anything.
<1>12. ASSUME reqOfCodes' = reqOfCodes, tries' = tries, attempts' = attempts,
              stored' \subseteq stored
       PROVE  TriesLeft(c)'
  <2>1. /\ Clearing(c)' = Clearing(c) /\ Trying(c)' = Trying(c) /\ Deleting' = Deleting
    BY <1>12 DEF Clearing, Trying, Deleting, Doing, Code
  <2>2. /\ Cardinality(Clearing(c))' = Cardinality(Clearing(c))
        /\ Cardinality(Trying(c))' = Cardinality(Trying(c))
        /\ Cardinality(Deleting)' = Cardinality(Deleting)
    BY <2>1
  <2>3. CASE c \in stored /\ c \in stored'
    BY <1>2, <1>3, <1>4, <1>12, <2>2, <2>3, CdStays
  <2>4. CASE c \in stored /\ c \notin stored'
    BY <1>2, <1>4, <1>12, <2>2, <2>4, CdGoes
  <2>5. CASE c \notin stored
    BY <1>2, <1>3, <1>4, <1>12, <2>2, <2>5, CdStaysGone
  <2>. QED
    BY <2>3, <2>4, <2>5
<1>13. ASSUME (\E k \in CodeIds : Cd!ExpireCode(k)) \/ Cd!ExpireCooldown \/ Cd!ExpireSends
                \/ UNCHANGED Cd!vars
       PROVE  TriesLeft(c)'
  <2>1. reqOfCodes' = reqOfCodes /\ tries' = tries /\ attempts' = attempts
        /\ stored' \subseteq stored
    BY <1>13 DEF Cd!ExpireCode, Cd!ExpireCooldown, Cd!ExpireSends, Cd!vars, Cd!keys, Cd!counts
  <2>. QED
    BY <1>12, <2>1
<1>14. ASSUME Cd!ExpireAttempts PROVE TriesLeft(c)'
  <2>1. c \notin stored /\ c \notin stored' /\ tries' = tries /\ Trying(c)' = Trying(c)
    BY <1>14 DEF Cd!ExpireAttempts, Cd!counts, Trying, Doing, Code
  <2>2. Cardinality(Trying(c))' = Cardinality(Trying(c))
    BY <2>1
  <2>. QED
    BY <1>2, <1>3, <1>4, <2>1, <2>2, CdStaysGone
<1>15. ASSUME NEW r \in Requests, Cd!IncrementAttempts(r) PROVE TriesLeft(c)'
  BY <1>2, <1>15, CdTried
<1>. QED
  BY <1>5, <1>6, <1>7, <1>8, <1>9, <1>10, <1>11, <1>13, <1>14, <1>15 DEF Cd!Next

-----------------------------------------------------------------------------
(* Codes: the theorem *)

LEMMA CdNext == CdInv /\ [Cd!Next]_(Cd!vars) => CdInv'
  BY CdTypesKept, CdMailsKept, CdTokensKept, CdTriesKept DEF CdInv, CdTypes

LEMMA CdInit == Cd!Init => CdInv
<1>. SUFFICES ASSUME Cd!Init PROVE CdInv
  OBVIOUS
<1>1. /\ purpose \in {"register", "reset"} /\ stored = {}
      /\ attempts = 0 /\ sends = 0 /\ mails = 0 /\ cooldown = FALSE /\ failed = FALSE
      /\ tries = [ c \in CodeIds |-> 0 ] /\ reqOfCodes = [ r \in Requests |-> Nil ]
  BY DEF Cd!Init
<1>2. \A r \in Requests : Doing(r) = "nothing"
  BY <1>1 DEF Doing
<1>3. Cd!TypeOK
  <2>1. tries \in [ CodeIds -> 0..MaxTries ]
    BY <1>1, CdConstants
  <2>. QED
    BY <1>1, <2>1 DEF Cd!TypeOK
<1>4. CodesAreKnown /\ MailsLeft /\ TokensAreNotTried
  BY <1>1, <1>2 DEF CodesAreKnown, MailsLeft, TokensAreNotTried
<1>5. ASSUME NEW c \in CodeIds PROVE TriesLeft(c)
  <2>1. Trying(c) = {}
    BY <1>2 DEF Trying
  <2>2. tries[c] + Cardinality(Trying(c)) = 0
    BY <1>1, <2>1, FS_EmptySet
  <2>3. MaxAttempts * Running \in Nat
    BY CdConstants
  <2>. QED
    BY <1>1, <2>2, <2>3 DEF TriesLeft
<1>. QED
  BY <1>3, <1>4, <1>5 DEF CdInv, TriesInv

LEMMA CdBounded == CdInv => BothBounded
<1>. SUFFICES ASSUME CdInv PROVE Cd!TriesBounded /\ Cd!MailsBounded
  BY DEF BothBounded, Cd!BothBounded
<1>0. Cd!Cardinality(Requests) = Running
  BY DEF Cd!Cardinality, Cardinality, Running
<1>1. Cd!TypeOK /\ CodesAreKnown /\ MailsLeft /\ TokensAreNotTried /\ TriesInv
  BY DEF CdInv
<1>2. /\ MaxAttempts \in Nat \ {0} /\ RateLimit \in Nat \ {0} /\ Running \in Nat
      /\ attempts \in Nat /\ sends \in Nat /\ mails \in Nat
      /\ purpose \in {"register", "reset"} /\ \A c \in CodeIds : tries[c] \in Nat
  BY <1>1, CdConstants DEF Cd!TypeOK
<1>3. MaxAttempts * Running \in Nat
  BY <1>2
<1>4. Cd!MailsBounded
  <2>1. Cardinality(Mailing) \in Nat /\ Cardinality(Mailing) <= Running
    <3>1. Mailing \in SUBSET Requests
      BY DEF Mailing
    <3>. QED
      BY <3>1, SomeRequests
  <2>2. mails <= RateLimit + (Running - 1)
    BY <1>1, <1>2, <2>1 DEF MailsLeft, Lesser
  <2>. QED
    BY <1>0, <2>2 DEF Cd!MailsBounded, Cd!Others
<1>5. Cd!TriesBounded
  <2>. SUFFICES ASSUME ~ failed, NEW c \in CodeIds PROVE tries[c] <= MaxAttempts * Running
    BY <1>0 DEF Cd!TriesBounded
  <2>1. CASE purpose = "reset"
    BY <1>1, <1>3, <2>1 DEF TokensAreNotTried
  <2>2. CASE purpose = "register" /\ c \notin stored
    <3>1. TriesLeft(c) /\ Cardinality(Trying(c)) \in Nat
      BY <1>1, <2>2, CdApart DEF TriesInv
    <3>. QED
      BY <1>2, <1>3, <2>2, <3>1 DEF TriesLeft
  <2>3. CASE purpose = "register" /\ c \in stored
    <3>. DEFINE k == MaxAttempts - 1
                left == Cardinality(Clearing(c))
                m == Running - 1 - left
    <3>1. TriesLeft(c)
      BY <1>1, <2>3 DEF TriesInv
    <3>2. /\ left \in Nat /\ Cardinality(Deleting) \in Nat /\ Cardinality(Trying(c)) \in Nat
          /\ left + Cardinality(Deleting) + Cardinality(Trying(c)) <= Running
      BY CdApart
    <3>3. left < Running /\ tries[c] <= Lesser(attempts, k) + k * m + Cardinality(Deleting)
      BY <2>3, <3>1 DEF TriesLeft
    <3>4. k \in Nat /\ MaxAttempts = k + 1
      BY <1>2
    <3>. HIDE DEF k, left
    <3>5. Lesser(attempts, k) <= k /\ Lesser(attempts, k) \in Nat
      BY <1>2, <3>4 DEF Lesser
    <3>6. m \in Nat /\ m + 1 <= Running /\ m + 1 \in Nat
      BY <1>2, <3>2, <3>3
    <3>. HIDE DEF m
    <3>7. /\ k * (m + 1) = k * m + k /\ k * m \in Nat /\ k * (m + 1) <= k * Running
          /\ MaxAttempts * Running = k * Running + Running /\ k * Running \in Nat
      <4>1. k * (m + 1) = k * m + k * 1 /\ k * m \in Nat
        BY <3>4, <3>6, Times
      <4>2. k * (m + 1) <= k * Running
        BY <1>2, <3>4, <3>6, Times
      <4>3. (k + 1) * Running = k * Running + Running /\ k * Running \in Nat
        BY <1>2, <3>4, Times
      <4>. QED
        BY <3>4, <4>1, <4>2, <4>3
    <3>. QED
      BY <1>2, <3>2, <3>3, <3>4, <3>5, <3>7
  <2>. QED
    BY <1>2, <2>1, <2>2, <2>3
<1>. QED
  BY <1>4, <1>5

\* BothBounded (see Codes): while every call is answered a code is compared at most
\* MaxAttempts times for each request that runs, and whatever fails, mails are as many
\* as the limit of requests and those that run.
THEOREM GuessesAndMailsAreBounded == Cd!Spec => []BothBounded
  BY CdInit, CdNext, CdBounded, PTL DEF Cd!Spec

-----------------------------------------------------------------------------
(* The calendar: the search in a zone that is set back across midnight *)

Rec == INSTANCE Recurrence_proofs WITH Offset <- Zone

\* The calendar that Recurrence_proofs speaks of is the one the run asks.
LEMMA SameDates ==
    /\ Rec!Instants = Cal!Instants
    /\ \A t : Rec!Local(t) = Cal!Local(t)
    /\ \A t : Rec!CivilDate(t) = Cal!CivilDate(t) /\ Rec!WallClock(t) = Cal!WallClock(t)
    /\ \A date, wall : Rec!WallTimeMatches(date, wall) = Cal!WallTimeMatches(date, wall)
    /\ \A r : Rec!RecurrencePeriod(r) = Cal!RecurrencePeriod(r)
    /\ \A S : Rec!Cardinality(S) = Cal!Cardinality(S)
<1>1. /\ Rec!Instants = Cal!Instants
      /\ \A t : Rec!Local(t) = Cal!Local(t)
      /\ \A t : Rec!CivilDate(t) = Cal!CivilDate(t) /\ Rec!WallClock(t) = Cal!WallClock(t)
      /\ \A r : Rec!RecurrencePeriod(r) = Cal!RecurrencePeriod(r)
  BY DEF Rec!Instants, Cal!Instants, Rec!Local, Cal!Local, Rec!CivilDate, Cal!CivilDate,
         Rec!WallClock, Cal!WallClock, Rec!RecurrencePeriod, Cal!RecurrencePeriod
<1>2. \A date, wall : Rec!WallTimeMatches(date, wall) = Cal!WallTimeMatches(date, wall)
  BY <1>1 DEF Rec!WallTimeMatches, Cal!WallTimeMatches
<1>3. \A S : Rec!Cardinality(S) = Cal!Cardinality(S)
  BY DEF Rec!Cardinality, Cal!Cardinality
<1>. QED
  BY <1>1, <1>2, <1>3

LEMMA SameSearch == Rec!NextOccurrence = Cal!NextOccurrence
<1>1. ASSUME NEW date, NEW wall, NEW t
      PROVE  Rec!OccurrenceOnDate(date, wall, t) = Cal!OccurrenceOnDate(date, wall, t)
  <2>. DEFINE Contribution(matches, many, today, now) ==
         LET future == { u \in matches : u > t }
             passed == IF matches = {} THEN date = today /\ now >= wall
                       ELSE future = {} /\ many <= 2
         IN  IF passed THEN Nil
             ELSE IF many = 1 THEN CHOOSE u \in matches : TRUE ELSE Invalid
  <2>1. Rec!OccurrenceOnDate(date, wall, t) =
          Contribution(Rec!WallTimeMatches(date, wall),
                       Rec!Cardinality(Rec!WallTimeMatches(date, wall)),
                       Rec!CivilDate(Rec!Local(t)), Rec!WallClock(Rec!Local(t)))
    BY DEF Rec!OccurrenceOnDate
  <2>2. Cal!OccurrenceOnDate(date, wall, t) =
          Contribution(Cal!WallTimeMatches(date, wall),
                       Cal!Cardinality(Cal!WallTimeMatches(date, wall)),
                       Cal!CivilDate(Cal!Local(t)), Cal!WallClock(Cal!Local(t)))
    BY DEF Cal!OccurrenceOnDate
  <2>. HIDE DEF Contribution
  <2>. QED
    BY <2>1, <2>2, SameDates
<1>2. \A r, s, t : Rec!FirstStep(r, s, t) = Cal!FirstStep(r, s, t)
  BY SameDates DEF Rec!FirstStep, Cal!FirstStep
<1>3. \A r, s, t : Rec!FirstFutureOccurrence(r, s, t) = Cal!FirstFutureOccurrence(r, s, t)
  BY <1>1, <1>2, SameDates DEF Rec!FirstFutureOccurrence, Cal!FirstFutureOccurrence
<1>. QED
  BY <1>3, SameDates DEF Rec!NextOccurrence, Cal!NextOccurrence, Rec!Rules, Cal!Rules

LEMMA SameOccurrences ==
    /\ \A r, s : Rec!Occurrences(r, s) = Cal!Occurrences(r, s)
    /\ \A s, t : Rec!IsUnique(s, t) = Cal!IsUnique(s, t)
    /\ \A r, s, t, date : Rec!IsBlocked(r, s, t, date) = Cal!IsBlocked(r, s, t, date)
<1>1. \A r, s, date : Rec!IsNamed(r, s, date) = Cal!IsNamed(r, s, date)
  BY SameDates DEF Rec!IsNamed, Cal!IsNamed
<1>2. \A s, date : Rec!Showing(s, date) = Cal!Showing(s, date)
  BY SameDates DEF Rec!Showing, Cal!Showing
<1>3. \A r, s : Rec!Occurrences(r, s) = Cal!Occurrences(r, s)
  BY <1>1, <1>2, SameDates DEF Rec!Occurrences, Cal!Occurrences
<1>4. \A s, t : Rec!IsUnique(s, t) = Cal!IsUnique(s, t)
  BY <1>2, SameDates DEF Rec!IsUnique, Cal!IsUnique
<1>5. \A r, s, t, date : Rec!IsBlocked(r, s, t, date) = Cal!IsBlocked(r, s, t, date)
  BY <1>1, <1>2, SameDates DEF Rec!IsBlocked, Cal!IsBlocked
<1>. QED
  BY <1>3, <1>4, <1>5

\* The theorem on the search, of the calendar of the run.
LEMMA CalendarFacts ==
    /\ DayLength \in Nat \ {0} /\ Horizon \in Nat /\ LastAfter \in Nat
    /\ FirstStarts \subseteq 0..LastAfter /\ LastAfter + 22 * DayLength + 2 <= Horizon
    /\ Cal!Instants = 0..Horizon /\ Nil \notin Int /\ Invalid \notin Int
    /\ \A t \in Cal!Instants : Cal!Local(t) = t + (IF t \in 42..64 THEN 2 ELSE 0)
<1>1. Cal!Instants = 0..Horizon
  BY DEF Cal!Instants
<1>2. \A t \in Cal!Instants : Cal!Local(t) = t + (IF t \in 42..64 THEN 2 ELSE 0)
  BY <1>1 DEF Cal!Local, Zone
<1>. QED
  BY <1>1, <1>2, CalendarBounds DEF Cal!CalendarAssumption, Cal!SearchAssumption

LEMMA TheSearchIsRight ==
    ASSUME NEW r \in {"DAILY", "WEEKLY"}, NEW s \in Cal!Instants, NEW t \in Cal!Instants
    PROVE  LET found == Cal!NextOccurrence[r][s][t]
           IN  \/ Rec!IsNext(r, s, t, found)
               \/ found = Invalid /\ \E date \in Int : Rec!IsGivenUp(r, s, t, date)
<1>1. Rec!CalendarAssumption
  BY CalendarBounds, SameDates DEF Rec!CalendarAssumption, Cal!CalendarAssumption
<1>2. s \in Rec!Instants /\ t \in Rec!Instants
  BY SameDates
<1>. QED
  BY <1>1, <1>2, SameSearch, Rec!SearchFindsTheNextOne DEF Rec!CalendarAssumption

LEMMA DateAndClock ==
    ASSUME NEW t \in Cal!Instants
    PROVE  /\ Cal!CivilDate(Cal!Local(t)) \in Nat /\ Cal!WallClock(Cal!Local(t)) \in 0..(DayLength - 1)
           /\ Cal!Local(t) = DayLength * Cal!CivilDate(Cal!Local(t)) + Cal!WallClock(Cal!Local(t))
           /\ Cal!Local(t) \in Nat /\ t \in Nat
<1>1. Cal!Local(t) \in Nat /\ t \in Nat
  BY CalendarFacts
<1>2. \A x \in Nat, n \in Nat \ {0} :
         x \div n \in Nat /\ x % n \in 0..(n - 1) /\ x = n * (x \div n) + (x % n)
  OBVIOUS
<1>. QED
  BY <1>1, <1>2, CalendarFacts DEF Cal!CivilDate, Cal!WallClock

LEMMA DateBegins ==
    ASSUME NEW t \in Cal!Instants
    PROVE  LET begin == DayLength * Cal!CivilDate(Cal!Local(t))
           IN  begin \in Nat /\ begin <= Cal!Local(t) /\ Cal!Local(t) < begin + DayLength
<1>. DEFINE begin == DayLength * Cal!CivilDate(Cal!Local(t))
            clock == Cal!WallClock(Cal!Local(t))
<1>1. begin \in Nat
  <2>1. Cal!CivilDate(Cal!Local(t)) \in Nat /\ DayLength \in Nat
    BY DateAndClock, CalendarFacts
  <2>2. \A m, n \in Nat : m * n \in Nat
    OBVIOUS
  <2>. QED
    BY <2>1, <2>2
<1>2. Cal!Local(t) = begin + clock /\ clock \in 0..(DayLength - 1) /\ DayLength \in Nat
  BY DateAndClock, CalendarFacts
<1>. HIDE DEF begin, clock
<1>3. begin <= Cal!Local(t) /\ Cal!Local(t) < begin + DayLength
  BY <1>1, <1>2
<1>. QED
  BY <1>1, <1>3 DEF begin

\* A date begins after the one before it.
LEMMA DatesInOrder ==
    ASSUME NEW d \in Nat, NEW e \in Nat, d < e
    PROVE  DayLength * d + DayLength <= DayLength * e /\ DayLength * d \in Nat /\ DayLength * e \in Nat
<1>1. DayLength * (e - d) >= DayLength
  BY CalendarFacts
<1>2. DayLength * e = DayLength * d + DayLength * (e - d)
  BY CalendarFacts
<1>3. DayLength * d \in Nat /\ DayLength * e \in Nat
  BY CalendarFacts
<1>. QED
  BY <1>1, <1>2, <1>3, CalendarFacts

\* The zone of the run: an instant ahead that shows an earlier date is the one behind
\* the setback at 65, the present is the last one before it, and midnight lies between.
LEMMA AcrossMidnight ==
    ASSUME NEW a \in Cal!Instants, NEW t \in Cal!Instants, t > a,
           Cal!CivilDate(Cal!Local(t)) < Cal!CivilDate(Cal!Local(a))
    PROVE  /\ a = 64 /\ t = 65 /\ Cal!Local(t) = 65 /\ Cal!Local(63) = 65 /\ 63 \in Cal!Instants
           /\ Cal!WallClock(65) = DayLength - 1
           /\ DayLength * Cal!CivilDate(Cal!Local(a)) = 66
<1>. DEFINE d == Cal!CivilDate(Cal!Local(t))
            e == Cal!CivilDate(Cal!Local(a))
            w == Cal!WallClock(Cal!Local(t))
            v == Cal!WallClock(Cal!Local(a))
<1>1. /\ d \in Nat /\ e \in Nat /\ w \in 0..(DayLength - 1) /\ v \in 0..(DayLength - 1)
      /\ Cal!Local(t) = DayLength * d + w /\ Cal!Local(a) = DayLength * e + v
      /\ t \in Nat /\ a \in Nat
  BY DateAndClock
<1>2. DayLength * d + DayLength <= DayLength * e /\ DayLength * d \in Nat /\ DayLength * e \in Nat
  BY <1>1, DatesInOrder
<1>3. DayLength \in Nat \ {0}
  BY CalendarFacts
<1>. HIDE DEF d, e, w, v
<1>4. Cal!Local(t) < Cal!Local(a)
  BY <1>1, <1>2, <1>3
<1>5. a = 64 /\ t = 65 /\ Cal!Local(t) = 65 /\ Cal!Local(a) = 66
  BY <1>1, <1>4, CalendarFacts
<1>6. 63 \in Cal!Instants /\ Cal!Local(63) = 65
  BY <1>1, <1>5, CalendarFacts
<1>7. w = DayLength - 1 /\ DayLength * e = 66
  BY <1>1, <1>2, <1>3, <1>5
<1>. QED
  BY <1>5, <1>6, <1>7 DEF d, e, w, v

\* That instant shows a local time that was shown before.
LEMMA PassedOverTwice ==
    ASSUME NEW r, NEW s \in Cal!Instants, NEW a \in Cal!Instants,
           NEW t \in Cal!Occurrences(r, s), t > a,
           Cal!CivilDate(Cal!Local(t)) < Cal!CivilDate(Cal!Local(a))
    PROVE  ~ Cal!IsUnique(s, t)
<1>1. t \in Cal!Instants /\ t \in Cal!Showing(s, Cal!CivilDate(Cal!Local(t)))
  BY DEF Cal!Occurrences
<1>2. t = 65 /\ Cal!Local(t) = 65 /\ Cal!Local(63) = 65 /\ 63 \in Cal!Instants
  BY <1>1, AcrossMidnight
<1>3. 63 \in Cal!Showing(s, Cal!CivilDate(Cal!Local(t)))
  BY <1>1, <1>2 DEF Cal!Showing, Cal!WallTimeMatches
<1>. QED
  BY <1>2, <1>3 DEF Cal!IsUnique

\* Once the setback has passed, the clock shows every local time it reaches, once.
LEMMA BlockedNotAfterwards ==
    ASSUME NEW s \in Cal!Instants, NEW date \in Nat,
           DayLength * date >= 66, DayLength * date + DayLength <= Horizon,
           Cal!WallClock(Cal!Local(s)) = DayLength - 1
    PROVE  Cal!Cardinality(Cal!Showing(s, date)) = 1
<1>. DEFINE x == DayLength * date + (DayLength - 1)
<1>0. DayLength >= 2
  <2>1. 0 \in 0..Horizon /\ 42 \in 0..Horizon
    BY CalendarFacts
  <2>2. Zone[42] = 2 /\ Zone[0] = 0
    BY <2>1 DEF Zone
  <2>3. Zone[42] - Zone[0] <= DayLength
    BY <2>1, CalendarBounds DEF Cal!CalendarAssumption, Cal!Instants
  <2>. QED
    BY <2>2, <2>3
<1>1. /\ DayLength \in Nat \ {0} /\ DayLength * date \in Nat /\ x \in Nat
      /\ x > 66 /\ x <= Horizon /\ x = date * DayLength + (DayLength - 1)
  BY <1>0, CalendarFacts
<1>. HIDE DEF x
<1>2. \A t \in Cal!Instants : Cal!Local(t) = x <=> t = x
  BY <1>1, CalendarFacts
<1>3. Cal!Showing(s, date) = { t \in Cal!Instants : Cal!Local(t) = x }
  BY <1>1 DEF Cal!Showing, Cal!WallTimeMatches
<1>4. x \in Cal!Instants
  BY <1>1, CalendarFacts
<1>5. Cal!Showing(s, date) = {x}
  BY <1>2, <1>3, <1>4
<1>6. Cal!Cardinality({x}) = Cardinality({x})
  BY DEF Cal!Cardinality, Cardinality
<1>. QED
  BY <1>5, <1>6, FS_Singleton

\* A date at which the search gives up is among those the clock reaches.
LEMMA GivenUpInTime ==
    ASSUME NEW r \in {"DAILY", "WEEKLY"}, NEW s \in FirstStarts, NEW a \in 0..LastAfter,
           NEW date \in Int, Rec!IsGivenUp(r, s, a, date)
    PROVE  /\ date \in 0..Cal!CivilDate(Cal!Local(Horizon))
           /\ DayLength * date + DayLength <= Horizon
           /\ date >= Cal!CivilDate(Cal!Local(a))
<1>. DEFINE from  == Cal!CivilDate(Cal!Local(s))
            today == Cal!CivilDate(Cal!Local(a))
<1>1. s \in Cal!Instants /\ a \in Cal!Instants /\ Horizon \in Cal!Instants
  BY CalendarFacts
<1>2. Cal!Local(s) <= LastAfter + 2 /\ Cal!Local(a) <= LastAfter + 2 /\ Cal!Local(Horizon) >= Horizon
  BY <1>1, CalendarFacts
<1>3. /\ from \in Nat /\ DayLength * from \in Nat /\ DayLength * from <= LastAfter + 2
      /\ today \in Nat /\ DayLength * today \in Nat /\ DayLength * today <= LastAfter + 2
  <2>. DEFINE x == DayLength * from
              y == DayLength * today
  <2>1. from \in Nat /\ today \in Nat /\ Cal!Local(s) \in Nat /\ Cal!Local(a) \in Nat
    BY <1>1, DateAndClock
  <2>2. x \in Nat /\ x <= Cal!Local(s) /\ y \in Nat /\ y <= Cal!Local(a)
    BY <1>1, DateBegins
  <2>. HIDE DEF x, y
  <2>3. x <= LastAfter + 2 /\ y <= LastAfter + 2
    BY <1>2, <2>1, <2>2, CalendarFacts
  <2>. QED
    BY <2>1, <2>2, <2>3 DEF x, y
<1>4. /\ Cal!IsBlocked(r, s, a, date)
      /\ date < today + 3 * Cal!RecurrencePeriod(r) \/ date < from + 3 * Cal!RecurrencePeriod(r)
  BY SameOccurrences, SameDates DEF Rec!IsGivenUp
<1>5. date >= from /\ date >= today
  BY <1>3, <1>4 DEF Cal!IsBlocked, Cal!IsNamed
<1>6. date \in Nat /\ (date <= today + 20 \/ date <= from + 20)
  BY <1>3, <1>4, <1>5 DEF Cal!RecurrencePeriod
<1>. HIDE DEF from, today
<1>7. DayLength * date \in Nat /\ DayLength * date + 2 * DayLength <= Horizon
  <2>1. ASSUME NEW day \in Nat, DayLength * day \in Nat, DayLength * day <= LastAfter + 2, date <= day + 20
        PROVE  DayLength * date + 2 * DayLength <= Horizon
    <3>1. DayLength * (day + 20) = DayLength * day + 20 * DayLength
      BY <2>1, CalendarFacts
    <3>2. DayLength * date <= DayLength * (day + 20)
      <4>1. CASE date = day + 20
        BY <4>1, <2>1, CalendarFacts
      <4>2. CASE date < day + 20
        BY <4>2, <1>6, <2>1, DatesInOrder, CalendarFacts
      <4>. QED
        BY <4>1, <4>2, <1>6, <2>1
    <3>. DEFINE m == DayLength * date
                n == DayLength * day
                o == DayLength * (day + 20)
    <3>3. m \in Nat /\ m <= o /\ o = n + 20 * DayLength /\ n \in Nat /\ n <= LastAfter + 2
      BY <1>6, <2>1, <3>1, <3>2, CalendarFacts
    <3>. HIDE DEF m, n, o
    <3>4. m + 2 * DayLength <= Horizon
      BY <3>3, CalendarFacts
    <3>. QED
      BY <3>4 DEF m
  <2>. QED
    BY <1>3, <1>6, <2>1, CalendarFacts
<1>8. date <= Cal!CivilDate(Cal!Local(Horizon))
  <2>. DEFINE last == Cal!CivilDate(Cal!Local(Horizon))
  <2>1. /\ last \in Nat /\ DayLength * last \in Nat
        /\ DayLength * last + DayLength > Horizon
    <3>. DEFINE z == DayLength * last
    <3>1. z \in Nat /\ Cal!Local(Horizon) < z + DayLength /\ Cal!Local(Horizon) \in Nat
      BY <1>1, DateBegins, DateAndClock
    <3>. HIDE DEF z
    <3>2. z + DayLength > Horizon
      BY <1>2, <3>1, CalendarFacts
    <3>. QED
      BY <1>1, <3>1, <3>2, DateAndClock DEF z
  <2>2. CASE last < date
    <3>1. DayLength * last + DayLength <= DayLength * date
      BY <2>1, <2>2, <1>6, DatesInOrder
    <3>. QED
      BY <3>1, <2>1, <1>7, CalendarFacts
  <2>. QED
    BY <2>1, <2>2, <1>6
<1>. QED
  BY <1>5, <1>6, <1>7, <1>8, CalendarFacts DEF today

LEMMA FoundIsNext ==
    ASSUME NEW r \in {"DAILY", "WEEKLY"}, NEW s \in FirstStarts, NEW a \in 0..LastAfter,
           Cal!NextOccurrence[r][s][a] \in Cal!Instants
    PROVE  LET found == Cal!NextOccurrence[r][s][a]
           IN  /\ found > a /\ found \in Cal!Occurrences(r, s) /\ Cal!IsUnique(s, found)
               /\ \A t \in Cal!Occurrences(r, s) : t > a =>
                     t >= found \/ ( /\ Cal!CivilDate(Cal!Local(t)) < Cal!CivilDate(Cal!Local(a))
                                     /\ ~ Cal!IsUnique(s, t) )
<1>. DEFINE found == Cal!NextOccurrence[r][s][a]
<1>1. s \in Cal!Instants /\ a \in Cal!Instants
  BY CalendarFacts
<1>2. Rec!IsNext(r, s, a, found)
  <2>1. found # Invalid
    BY CalendarFacts
  <2>. QED
    BY <1>1, <2>1, TheSearchIsRight
<1>3. /\ found > a /\ found \in Cal!Occurrences(r, s) /\ Cal!IsUnique(s, found)
      /\ \A t \in Cal!Occurrences(r, s) :
            t > a /\ Cal!CivilDate(Cal!Local(t)) >= Cal!CivilDate(Cal!Local(a)) => t >= found
  BY <1>2, SameOccurrences, SameDates DEF Rec!IsNext
<1>4. ASSUME NEW t \in Cal!Occurrences(r, s)
      PROVE  /\ Cal!CivilDate(Cal!Local(t)) \in Nat
  BY DateAndClock DEF Cal!Occurrences
<1>5. Cal!CivilDate(Cal!Local(a)) \in Nat
  BY <1>1, DateAndClock
<1>. QED
  BY <1>1, <1>3, <1>4, <1>5, PassedOverTwice

LEMMA GivesUpWhenBlocked ==
    ASSUME NEW r \in {"DAILY", "WEEKLY"}, NEW s \in FirstStarts, NEW a \in 0..LastAfter,
           Cal!NextOccurrence[r][s][a] = Invalid
    PROVE  \E date \in 0..Cal!CivilDate(Cal!Local(Horizon)) :
              /\ Cal!IsBlocked(r, s, a, date)
              /\ \A t \in Cal!Occurrences(r, s) : t > a => Cal!CivilDate(Cal!Local(t)) >= date
<1>1. s \in Cal!Instants /\ a \in Cal!Instants
  BY CalendarFacts
<1>2. PICK date \in Int : Rec!IsGivenUp(r, s, a, date)
  <2>1. Invalid \notin Cal!Occurrences(r, s)
    BY CalendarFacts DEF Cal!Occurrences
  <2>. QED
    BY <1>1, <2>1, TheSearchIsRight, SameOccurrences DEF Rec!IsNext
<1>3. /\ Cal!IsBlocked(r, s, a, date)
      /\ \A t \in Cal!Occurrences(r, s) :
            t > a /\ Cal!CivilDate(Cal!Local(t)) >= Cal!CivilDate(Cal!Local(a)) =>
                Cal!CivilDate(Cal!Local(t)) >= date
  BY <1>2, SameOccurrences, SameDates DEF Rec!IsGivenUp
<1>4. /\ date \in 0..Cal!CivilDate(Cal!Local(Horizon)) /\ DayLength * date + DayLength <= Horizon
      /\ date >= Cal!CivilDate(Cal!Local(a))
  BY <1>2, GivenUpInTime
\* What was passed over was the second showing before midnight, which later dates show once.
<1>5. ASSUME NEW t \in Cal!Occurrences(r, s), t > a,
             Cal!CivilDate(Cal!Local(t)) < Cal!CivilDate(Cal!Local(a))
      PROVE  FALSE
  <2>1. t \in Cal!Instants /\ t \in Cal!Showing(s, Cal!CivilDate(Cal!Local(t)))
    BY DEF Cal!Occurrences
  <2>2. /\ Cal!Local(t) = 65 /\ Cal!WallClock(65) = DayLength - 1
        /\ DayLength * Cal!CivilDate(Cal!Local(a)) = 66
    BY <1>1, <1>5, <2>1, AcrossMidnight
  <2>3. Cal!WallClock(Cal!Local(s)) = DayLength - 1
    <3>. DEFINE d == Cal!CivilDate(Cal!Local(t))
                w == Cal!WallClock(Cal!Local(s))
    <3>1. Cal!Local(t) = d * DayLength + w
      BY <2>1 DEF Cal!Showing, Cal!WallTimeMatches
    <3>2. Cal!Local(t) = DayLength * d + (DayLength - 1) /\ d \in Nat /\ w \in 0..(DayLength - 1)
      BY <1>1, <2>1, <2>2, DateAndClock
    <3>. HIDE DEF d, w
    <3>3. w = DayLength - 1
      BY <3>1, <3>2, CalendarFacts
    <3>. QED
      BY <3>3 DEF w
  <2>4. date \in Nat /\ DayLength * date >= 66
    <3>1. Cal!CivilDate(Cal!Local(a)) \in Nat /\ date \in Nat
      BY <1>1, <1>4, DateAndClock
    <3>2. CASE date = Cal!CivilDate(Cal!Local(a))
      BY <2>2, <3>1, <3>2
    <3>3. CASE date > Cal!CivilDate(Cal!Local(a))
      BY <2>2, <3>1, <3>3, DatesInOrder, CalendarFacts
    <3>. QED
      BY <1>4, <3>1, <3>2, <3>3
  <2>5. Cal!Cardinality(Cal!Showing(s, date)) = 1
    BY <1>1, <1>4, <2>3, <2>4, BlockedNotAfterwards
  <2>. QED
    BY <1>3, <2>5 DEF Cal!IsBlocked
<1>6. \A t \in Cal!Occurrences(r, s) : t > a => Cal!CivilDate(Cal!Local(t)) >= date
  <2>1. \A t \in Cal!Occurrences(r, s) : Cal!CivilDate(Cal!Local(t)) \in Nat
    BY DateAndClock DEF Cal!Occurrences
  <2>. QED
    BY <1>1, <1>3, <1>5, <2>1, DateAndClock
<1>. QED
  BY <1>3, <1>4, <1>6

\* SearchIsRight (see MCRecurrence): in a zone set forward once and set back once, across
\* midnight, the search finds the next occurrence or gives up where there is none to be
\* told, from any start, and passes over nothing but a second showing.
THEOREM SearchesAreRight == Cal!Spec => []SearchIsRight
<1>. DEFINE Asked == /\ rule \in {"DAILY", "WEEKLY"} /\ start \in FirstStarts
                     /\ after \in 0..LastAfter
<1>1. Cal!Init => Asked
  BY CalendarFacts DEF Cal!Init
<1>2. Asked /\ [Cal!Next]_(Cal!vars) => Asked'
  BY CalendarFacts DEF Cal!Next, Cal!vars
<1>3. Asked => SearchIsRight
  <2>. SUFFICES ASSUME Asked PROVE Cal!SearchIsRight
    BY DEF SearchIsRight
  <2>1. Cal!FoundIsTheNextOne
    BY FoundIsNext DEF Cal!FoundIsTheNextOne, Cal!Found, Cal!Candidates, Cal!Unique
  <2>2. Cal!GivesUpOnlyWhenBlocked
    BY GivesUpWhenBlocked DEF Cal!GivesUpOnlyWhenBlocked, Cal!Found, Cal!Candidates
  <2>. QED
    BY <2>1, <2>2 DEF Cal!SearchIsRight
<1>. QED
  BY <1>1, <1>2, <1>3, PTL DEF Cal!Spec

-----------------------------------------------------------------------------
(* The components together *)

\* A step of one is a step of each: the others stay where they are.
LEMMA PartsStep ==
    ASSUME [PartsNext]_<<part, vars, ofId, ofCd, ofLoc, ofCal, ofFd>>
    PROVE  /\ [Next]_vars /\ [Id!Next]_(Id!vars) /\ [Cd!Next]_(Cd!vars)
           /\ [Loc!Next]_(Loc!vars) /\ [Fd!Next]_(Fd!vars)
<1>1. /\ UNCHANGED ofId => UNCHANGED Id!vars
      /\ UNCHANGED ofCd => UNCHANGED Cd!vars
      /\ UNCHANGED ofLoc => UNCHANGED Loc!vars
      /\ UNCHANGED ofFd => UNCHANGED Fd!vars
  BY DEF ofId, ofCd, ofLoc, ofFd, Id!vars, Cd!vars, Cd!keys, Cd!counts,
         Loc!vars, Loc!rows, Loc!ghosts, Fd!vars
<1>. QED
  BY <1>1 DEF PartsNext

\* Each variable of each component keeps its type.
THEOREM ComponentTypes == PartsSpec => []TypesOK
<1>. DEFINE PInv == Types /\ IdInv /\ CdInv /\ LcInv /\ FdInv
<1>1. PartsInit => PInv
  BY TypesInit, IdInitially, CdInit, LcInit, FdInit DEF PartsInit
<1>2. PInv /\ [PartsNext]_<<part, vars, ofId, ofCd, ofLoc, ofCal, ofFd>> => PInv'
  BY PartsStep, TypesNext, IdNext, CdNext, LcNext, FdNext
<1>3. PInv => TypesOK
  BY LcTypeOK DEF TypesOK, Types, IdInv, IdTypes, CdInv, FdInv
<1>. QED
  BY <1>1, <1>2, <1>3, PTL DEF PartsSpec
===============================================================================
