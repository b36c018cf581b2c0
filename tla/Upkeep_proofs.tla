---------------------------- MODULE Upkeep_proofs ----------------------------
(* Proofs of the safety of the login limiter and of the permission cache, for any
   limits, any finite set of requests, and any roles and permissions.            *)
EXTENDS MCUpkeep, FiniteSetTheorems, TLAPS

-----------------------------------------------------------------------------
(* Limiters: the invariant *)

\* A request whose wrong password is not yet among the attempts, or whose block and
\* clearing are still to come, has had a guess that the count does not show.
Uncounted(step) ==
    \/ step \in {"count", "block", "clear"}
    \/ LoginLimit = 1 /\ step = "window"

Busy == { r \in Requests : Uncounted(logins[r]) }

Lesser(a, b) == IF a <= b THEN a ELSE b

\* Every guess is an attempt below the limit, or that of a request that is busy.
GuessesAreCounted ==
    failed \/ guesses <= Lesser(attempts, LoginLimit - 1) + Cardinality(Busy)

LInv == Li!TypeOK /\ GuessesAreCounted

-----------------------------------------------------------------------------
(* Access: the invariant *)

\* What a request works on exists: rows of roles are never removed.
Sound(q) ==
    /\ q.at \in {"keys", "user", "edited", "assign"} => q.role \in Roles
    /\ q.at \in {"edited", "assign"} => roles[q.role] # "none"

RequestsAreSound == \A r \in Requests : req[r] # Nil => Sound(req[r])

\* Only a role that was created has permissions, so creating one changes nobody's.
GrantsAreOfRoles == \A role \in Roles : granted[role] # {} => roles[role] # "none"

\* What a reader of the tables holds is current while nothing was written since.
ReadersAreCurrent ==
    \A r \in Requests : req[r] # Nil /\ ~ req[r].stale =>
        /\ req[r].at = "keys" => req[r].role = roleOf
        /\ req[r].at = "fill" => req[r].keys = PermissionsOf(roleOf)

Types == TypeOK /\ RequestsAreSound /\ GrantsAreOfRoles
AInv == Types /\ ReadersAreCurrent /\ CacheIsCurrent

-----------------------------------------------------------------------------
(* Limiters: how many requests are busy *)

\* The instance counts as this module does.
LEMMA SameCounting ==
    \A S : Li!IsFiniteSet(S) = IsFiniteSet(S) /\ Li!Cardinality(S) = Cardinality(S)
<1>1. \A S : Li!IsFiniteSet(S) = IsFiniteSet(S)
  BY DEF Li!IsFiniteSet, IsFiniteSet
<1>2. \A S : Li!Cardinality(S) = Cardinality(S)
  BY DEF Li!Cardinality, Cardinality
<1>. QED
  BY <1>1, <1>2

LEMMA LimitersConstants ==
    /\ RateLimit \in Nat /\ RateLimit > 0 /\ LoginLimit \in Nat /\ LoginLimit > 0
    /\ IsFiniteSet(Requests) /\ Nil \notin Li!Steps
  BY LimitersBounds, SameCounting DEF Li!LimitersAssumption

LEMMA BusyType ==
    /\ IsFiniteSet(Busy) /\ Cardinality(Busy) \in Nat
    /\ Cardinality(Requests) \in Nat /\ Cardinality(Busy) <= Cardinality(Requests)
<1>1. Busy \subseteq Requests
  BY DEF Busy
<1>. QED
  BY <1>1, LimitersConstants, FS_Subset, FS_CardinalityType

\* A step of one request adds it to those that are busy, takes it away, or neither.
LEMMA BusyMoves ==
    ASSUME Li!TypeOK, NEW r \in Requests, NEW to \in Li!Steps \union {Nil},
           logins' = [ logins EXCEPT ![r] = to ]
    PROVE  /\ logins' \in [ Requests -> Li!Steps \union {Nil} ]
           /\ Uncounted(logins[r]) = Uncounted(to) => Busy' = Busy
           /\ ~ Uncounted(logins[r]) /\ Uncounted(to) =>
                Cardinality(Busy') = Cardinality(Busy) + 1
           /\ Uncounted(logins[r]) /\ ~ Uncounted(to) =>
                Cardinality(Busy') = Cardinality(Busy) - 1
<1>1. /\ logins' \in [ Requests -> Li!Steps \union {Nil} ]
      /\ logins'[r] = to /\ \A o \in Requests \ {r} : logins'[o] = logins[o]
  BY DEF Li!TypeOK
<1>2. ASSUME Uncounted(logins[r]) = Uncounted(to) PROVE Busy' = Busy
  <2>1. \A o \in Requests : Uncounted(logins'[o]) = Uncounted(logins[o])
    BY <1>1, <1>2, Zenon
  <2>. QED
    BY <2>1 DEF Busy, Uncounted
<1>3. ASSUME ~ Uncounted(logins[r]), Uncounted(to)
      PROVE  Cardinality(Busy') = Cardinality(Busy) + 1
  <2>1. Busy' = Busy \union {r} /\ r \notin Busy
    BY <1>1, <1>3 DEF Busy, Uncounted
  <2>. QED
    BY <2>1, BusyType, FS_AddElement
<1>4. ASSUME Uncounted(logins[r]), ~ Uncounted(to)
      PROVE  Cardinality(Busy') = Cardinality(Busy) - 1
  <2>1. Busy' = Busy \ {r} /\ r \in Busy
    BY <1>1, <1>4 DEF Busy, Uncounted
  <2>. QED
    BY <2>1, BusyType, FS_RemoveElement
<1>. QED
  BY <1>1, <1>2, <1>3, <1>4

-----------------------------------------------------------------------------
(* Limiters: every step keeps the invariant *)

LEMMA LimitersInit == Li!Init => LInv
<1>. SUFFICES ASSUME Li!Init PROVE LInv
  OBVIOUS
<1>1. Busy = {}
  BY LimitersConstants DEF Li!Init, Busy, Uncounted, Li!Steps
<1>2. Cardinality(Busy) = 0
  BY <1>1, FS_EmptySet
<1>3. GuessesAreCounted
  BY <1>2, LimitersConstants DEF Li!Init, GuessesAreCounted, Lesser
<1>4. current = 0 /\ attempts = 0 /\ guesses = 0
  BY DEF Li!Init
<1>5. logins \in [ Requests -> Li!Steps \union {Nil} ]
  BY DEF Li!Init
<1>6. /\ current \in 0..RateLimit + 1 /\ attempts \in 0..LoginLimit + 1 /\ guesses \in Nat
  BY <1>4, LimitersConstants
<1>7. Li!TypeOK
  BY <1>4, <1>5, <1>6 DEF Li!Init, Li!TypeOK
<1>. QED
  BY <1>3, <1>7 DEF LInv

LEMMA IncrStep ==
    ASSUME LInv, NEW r \in Requests, Li!Incr(r) \/ Li!IncrFails(r)
    PROVE  LInv'
<1>. USE LimitersConstants
<1>1. CASE Li!Incr(r)
  <2>. DEFINE to == IF current' = 1 THEN "expire"
                    ELSE IF current' > RateLimit THEN Nil ELSE "ask"
  <2>1. /\ logins[r] = Nil /\ logins' = [ logins EXCEPT ![r] = to ]
        /\ current' = IF current > RateLimit THEN current ELSE current + 1
        /\ UNCHANGED <<lapsing, attempts, blocked, guesses, failed>>
    BY <1>1 DEF Li!Incr, Li!Move, Li!First, Li!Counted
  <2>2. to \in {"expire", "ask", Nil} /\ (current' = 1 => to = "expire")
    OBVIOUS
  <2>. HIDE DEF to
  <2>3. logins' \in [ Requests -> Li!Steps \union {Nil} ] /\ Busy' = Busy
    BY <2>1, <2>2, BusyMoves DEF LInv, Uncounted, Li!Steps
  <2>4. GuessesAreCounted'
    BY <2>1, <2>3 DEF LInv, GuessesAreCounted, Lesser
  <2>5. logins'[r] = to /\ \A o \in Requests \ {r} : logins'[o] = logins[o]
    BY <2>1 DEF LInv, Li!TypeOK
  <2>6. current' \in 0..RateLimit + 1 /\ (current = 0 => current' = 1)
    BY <2>1 DEF LInv, Li!TypeOK
  <2>7. \/ failed'
        \/ /\ current' = 0 \/ "current" \in lapsing' \/ \E o \in Requests : logins'[o] = "expire"
           /\ attempts' = 0 \/ "attempts" \in lapsing' \/ \E o \in Requests : logins'[o] = "window"
    BY <2>1, <2>2, <2>5, <2>6 DEF LInv, Li!TypeOK, Li!Steps
  <2>8. Li!TypeOK'
    BY <2>1, <2>3, <2>6, <2>7 DEF LInv, Li!TypeOK
  <2>. QED
    BY <2>4, <2>8 DEF LInv
<1>2. CASE Li!IncrFails(r)
  <2>1. /\ logins' = [ logins EXCEPT ![r] = "ask" ] /\ failed'
        /\ UNCHANGED <<current, lapsing, attempts, blocked, guesses>>
    BY <1>2 DEF Li!IncrFails, Li!Move
  <2>. QED
    BY <1>2, <2>1 DEF Li!IncrFails, LInv, Li!TypeOK, GuessesAreCounted, Li!Steps
<1>. QED
  BY <1>1, <1>2

LEMMA SetExpiryStep ==
    ASSUME LInv, NEW r \in Requests, Li!SetExpiry(r)
    PROVE  LInv'
<1>. USE LimitersConstants
<1>1. /\ logins[r] = "expire" /\ logins' = [ logins EXCEPT ![r] = "ask" ]
      /\ \/ lapsing' = lapsing \union {"current"} /\ failed' = failed
         \/ failed' /\ failed' \in BOOLEAN /\ lapsing' = lapsing
      /\ UNCHANGED <<current, attempts, blocked, guesses>>
  BY DEF Li!SetExpiry, Li!Move
<1>2. logins' \in [ Requests -> Li!Steps \union {Nil} ] /\ Busy' = Busy
  BY <1>1, BusyMoves DEF LInv, Uncounted, Li!Steps
<1>3. GuessesAreCounted'
  BY <1>1, <1>2 DEF LInv, GuessesAreCounted, Lesser
<1>4. \A o \in Requests : logins[o] = "window" => logins'[o] = "window"
  BY <1>1 DEF LInv, Li!TypeOK
<1>5. Li!TypeOK'
  BY <1>1, <1>2, <1>4 DEF LInv, Li!TypeOK
<1>. QED
  BY <1>3, <1>5 DEF LInv

\* The steps that neither begin a count nor end one.
LEMMA IsBlockedStep ==
    ASSUME LInv, NEW r \in Requests, Li!IsBlocked(r)
    PROVE  LInv'
<1>. USE LimitersConstants
<1>1. PICK to \in {"login", Nil} :
        /\ logins[r] = "ask" /\ logins' = [ logins EXCEPT ![r] = to ]
        /\ failed' \in BOOLEAN /\ (failed => failed')
        /\ UNCHANGED <<current, lapsing, attempts, blocked, guesses>>
  BY DEF Li!IsBlocked, Li!Move, LInv, Li!TypeOK
<1>2. logins' \in [ Requests -> Li!Steps \union {Nil} ] /\ Busy' = Busy
  BY <1>1, BusyMoves DEF LInv, Uncounted, Li!Steps
<1>3. GuessesAreCounted'
  BY <1>1, <1>2 DEF LInv, GuessesAreCounted, Lesser
<1>4. \A o \in Requests : logins[o] \in {"expire", "window"} => logins'[o] = logins[o]
  BY <1>1 DEF LInv, Li!TypeOK
<1>5. Li!TypeOK'
  BY <1>1, <1>2, <1>4 DEF LInv, Li!TypeOK
<1>. QED
  BY <1>3, <1>5 DEF LInv

\* A wrong password makes a request busy and is one guess more.
LEMMA LoginStep ==
    ASSUME LInv, NEW r \in Requests, Li!LoginUser(r)
    PROVE  LInv'
<1>. USE LimitersConstants
<1>1. PICK to \in {"reset", "count"} :
        /\ logins[r] = "login" /\ logins' = [ logins EXCEPT ![r] = to ]
        /\ guesses' \in {guesses, guesses + 1}
        /\ to = "reset" => guesses' = guesses
        /\ UNCHANGED <<current, lapsing, attempts, blocked, failed>>
  BY DEF Li!LoginUser, Li!Move, Li!Counted
<1>2. /\ logins' \in [ Requests -> Li!Steps \union {Nil} ]
      /\ to = "reset" => Busy' = Busy
      /\ to = "count" => Cardinality(Busy') = Cardinality(Busy) + 1
  BY <1>1, BusyMoves DEF LInv, Uncounted, Li!Steps
<1>3. GuessesAreCounted'
  BY <1>1, <1>2, BusyType DEF LInv, Li!TypeOK, GuessesAreCounted, Lesser
<1>4. \A o \in Requests : logins[o] \in {"expire", "window"} => logins'[o] = logins[o]
  BY <1>1 DEF LInv, Li!TypeOK
<1>5. Li!TypeOK'
  BY <1>1, <1>2, <1>4 DEF LInv, Li!TypeOK
<1>. QED
  BY <1>3, <1>5 DEF LInv

\* A failure counted below the limit is one attempt more; one that reaches it keeps its
\* request busy until the counter is cleared.
LEMMA RegisterFailureStep ==
    ASSUME LInv, NEW r \in Requests, Li!RegisterFailure(r)
    PROVE  LInv'
<1>. USE LimitersConstants
<1>. DEFINE to == IF attempts' = 1 THEN "window"
                  ELSE IF attempts' >= LoginLimit THEN "block" ELSE Nil
<1>1. /\ logins[r] = "count" /\ logins' = [ logins EXCEPT ![r] = to ]
      /\ attempts' = IF attempts > LoginLimit THEN attempts ELSE attempts + 1
      /\ UNCHANGED <<current, lapsing, blocked, guesses, failed>>
  BY DEF Li!RegisterFailure, Li!Move, Li!First, Li!Reaches, Li!Counted
<1>2. attempts \in 0..LoginLimit + 1 /\ attempts' \in 1..LoginLimit + 1
  BY <1>1 DEF LInv, Li!TypeOK
<1>3. /\ to \in {"window", "block", Nil} /\ (attempts' = 1 => to = "window")
      /\ attempts' # 1 /\ attempts' >= LoginLimit => to = "block"
      /\ attempts' # 1 /\ attempts' < LoginLimit => to = Nil
  BY <1>2
<1>. HIDE DEF to
<1>4. /\ logins' \in [ Requests -> Li!Steps \union {Nil} ]
      /\ Uncounted(to) => Busy' = Busy
      /\ ~ Uncounted(to) => Cardinality(Busy') = Cardinality(Busy) - 1
  BY <1>1, <1>3, BusyMoves DEF LInv, Uncounted, Li!Steps
<1>5. GuessesAreCounted'
  <2>1. CASE Uncounted(to)
    BY <2>1, <1>1, <1>2, <1>4, BusyType DEF LInv, Li!TypeOK, GuessesAreCounted, Lesser
  <2>2. CASE ~ Uncounted(to)
    <3>1. attempts' <= LoginLimit - 1 /\ attempts' = attempts + 1
      BY <2>2, <1>1, <1>2, <1>3 DEF Uncounted
    <3>. QED
      BY <2>2, <3>1, <1>1, <1>2, <1>4, BusyType DEF LInv, Li!TypeOK, GuessesAreCounted, Lesser
  <2>. QED
    BY <2>1, <2>2
<1>6. logins'[r] = to /\ \A o \in Requests \ {r} : logins'[o] = logins[o]
  BY <1>1 DEF LInv, Li!TypeOK
<1>7. attempts = 0 => attempts' = 1
  BY <1>1
<1>8. \/ failed'
      \/ /\ current' = 0 \/ "current" \in lapsing' \/ \E o \in Requests : logins'[o] = "expire"
         /\ attempts' = 0 \/ "attempts" \in lapsing' \/ \E o \in Requests : logins'[o] = "window"
  BY <1>1, <1>3, <1>6, <1>7 DEF LInv, Li!TypeOK
<1>9. Li!TypeOK'
  BY <1>1, <1>2, <1>4, <1>8 DEF LInv, Li!TypeOK
<1>. QED
  BY <1>5, <1>9 DEF LInv

LEMMA SetWindowStep ==
    ASSUME LInv, NEW r \in Requests, Li!SetWindow(r)
    PROVE  LInv'
<1>. USE LimitersConstants
<1>. DEFINE to == IF LoginLimit = 1 THEN "block" ELSE Nil
<1>1. /\ logins[r] = "window" /\ logins' = [ logins EXCEPT ![r] = to ]
      /\ lapsing' = lapsing \union (IF attempts > 0 THEN {"attempts"} ELSE {})
      /\ UNCHANGED <<current, attempts, blocked, guesses, failed>>
  BY 1 >= LoginLimit <=> LoginLimit = 1 DEF Li!SetWindow, Li!Move, Li!Reaches
<1>2. to \in Li!Steps \union {Nil} /\ Uncounted("window") = Uncounted(to)
  BY DEF Uncounted, Li!Steps
<1>. HIDE DEF to
<1>3. logins' \in [ Requests -> Li!Steps \union {Nil} ] /\ Busy' = Busy
  BY <1>1, <1>2, BusyMoves DEF LInv
<1>4. GuessesAreCounted'
  BY <1>1, <1>3 DEF LInv, GuessesAreCounted, Lesser
<1>5. \A o \in Requests : logins[o] = "expire" => logins'[o] = "expire"
  BY <1>1 DEF LInv, Li!TypeOK
<1>6. /\ attempts \in 0..LoginLimit + 1 /\ lapsing \subseteq lapsing'
      /\ lapsing' \subseteq {"current", "attempts"}
      /\ attempts = 0 \/ "attempts" \in lapsing'
  BY <1>1 DEF LInv, Li!TypeOK
<1>7. Li!TypeOK'
  BY <1>1, <1>3, <1>5, <1>6 DEF LInv, Li!TypeOK
<1>. QED
  BY <1>4, <1>7 DEF LInv

\* Setting the block and removing it leave the counts alone.
LEMMA BlockStep ==
    ASSUME LInv, NEW r \in Requests, Li!SetBlock(r) \/ Li!Unblock(r)
    PROVE  LInv'
<1>. USE LimitersConstants
<1>1. PICK from \in {"block", "unblock"} :
        /\ logins[r] = from
        /\ logins' = [ logins EXCEPT ![r] = IF from = "block" THEN "clear" ELSE Nil ]
        /\ blocked' \in BOOLEAN
        /\ UNCHANGED <<current, lapsing, attempts, guesses, failed>>
  BY DEF Li!SetBlock, Li!Unblock, Li!Move
<1>2. logins' \in [ Requests -> Li!Steps \union {Nil} ] /\ Busy' = Busy
  BY <1>1, BusyMoves DEF LInv, Uncounted, Li!Steps
<1>3. GuessesAreCounted'
  BY <1>1, <1>2 DEF LInv, GuessesAreCounted, Lesser
<1>4. \A o \in Requests : logins[o] \in {"expire", "window"} => logins'[o] = logins[o]
  BY <1>1 DEF LInv, Li!TypeOK
<1>5. Li!TypeOK'
  BY <1>1, <1>2, <1>4 DEF LInv, Li!TypeOK
<1>. QED
  BY <1>3, <1>5 DEF LInv

\* Once the counter is cleared or lapses, no guess is remembered.
LEMMA ForgetStep ==
    ASSUME LInv, NEW r \in Requests, Li!Forget(r)
    PROVE  LInv'
<1>. USE LimitersConstants
<1>1. PICK from \in {"clear", "reset"} :
        /\ logins[r] = from
        /\ logins' = [ logins EXCEPT ![r] = IF from = "reset" THEN "unblock" ELSE Nil ]
        /\ attempts' = 0 /\ guesses' = 0 /\ lapsing' = lapsing \ {"attempts"}
        /\ UNCHANGED <<current, blocked, failed>>
  BY DEF Li!Forget, Li!Move
<1>2. logins' \in [ Requests -> Li!Steps \union {Nil} ]
  BY <1>1, BusyMoves DEF LInv, Li!Steps
<1>3. Cardinality(Busy') \in Nat
  BY LimitersConstants, FS_Subset, FS_CardinalityType DEF Busy
<1>4. GuessesAreCounted'
  BY <1>1, <1>3 DEF GuessesAreCounted, Lesser
<1>5. \A o \in Requests : logins[o] = "expire" => logins'[o] = "expire"
  BY <1>1 DEF LInv, Li!TypeOK
<1>6. Li!TypeOK'
  BY <1>1, <1>2, <1>5 DEF LInv, Li!TypeOK
<1>. QED
  BY <1>4, <1>6 DEF LInv

\* A command that failed voids both promises.
LEMMA LimitersFail ==
    ASSUME LInv, NEW r \in Requests, Li!Fail(r)
    PROVE  LInv'
<1>1. /\ logins' = [ logins EXCEPT ![r] = Nil ] /\ failed' /\ failed' \in BOOLEAN
      /\ UNCHANGED <<current, lapsing, attempts, blocked, guesses>>
  BY DEF Li!Fail, Li!Move
<1>. QED
  BY <1>1 DEF LInv, Li!TypeOK, GuessesAreCounted

LEMMA Lapses ==
    ASSUME LInv, Li!RateLapses \/ Li!AttemptsLapse \/ Li!BlockLapses
    PROVE  LInv'
<1>. USE LimitersConstants
<1>1. Busy' = Busy
  BY DEF Busy, Li!RateLapses, Li!AttemptsLapse, Li!BlockLapses
<1>2. GuessesAreCounted'
  BY <1>1, BusyType
  DEF LInv, GuessesAreCounted, Lesser, Li!RateLapses, Li!AttemptsLapse, Li!BlockLapses
<1>3. CASE Li!RateLapses
  BY <1>2, <1>3 DEF LInv, Li!TypeOK, Li!RateLapses
<1>4. CASE Li!AttemptsLapse
  BY <1>2, <1>4 DEF LInv, Li!TypeOK, Li!AttemptsLapse
<1>5. CASE Li!BlockLapses
  BY <1>2, <1>5 DEF LInv, Li!TypeOK, Li!BlockLapses
<1>. QED
  BY <1>2, <1>3, <1>4, <1>5 DEF LInv

LEMMA LimitersNext == LInv /\ [Li!Next]_(Li!vars) => LInv'
<1>. SUFFICES ASSUME LInv, [Li!Next]_(Li!vars) PROVE LInv'
  OBVIOUS
<1>1. CASE UNCHANGED Li!vars
  <2>1. UNCHANGED <<current, lapsing, attempts, blocked, guesses, logins, failed>>
    BY <1>1 DEF Li!vars
  <2>2. Busy' = Busy
    BY <2>1 DEF Busy
  <2>. QED
    BY <2>1, <2>2 DEF LInv, Li!TypeOK, GuessesAreCounted
<1>2. ASSUME NEW r \in Requests, Li!Proceed(r) PROVE LInv'
  BY <1>2, SetExpiryStep, IsBlockedStep, LoginStep, RegisterFailureStep, SetWindowStep,
     BlockStep, ForgetStep, LimitersFail
  DEF Li!Proceed
<1>. QED
  BY <1>1, <1>2, IncrStep, Lapses DEF Li!Next

\* The guesses are at most the attempts below the limit and those under way, and at
\* most all requests are under way.
LEMMA GuessesFollow == LInv => Li!GuessesBounded
  BY BusyType, LimitersConstants, SameCounting
  DEF LInv, Li!TypeOK, GuessesAreCounted, Li!GuessesBounded, Lesser

-----------------------------------------------------------------------------
(* Access: requests *)

Steps == {"role", "keys", "fill", "user", "edited", "named", "assign", "empty"}

LEMMA RequestFields ==
    ASSUME NEW q \in Request
    PROVE  /\ q.at \in Steps /\ q.role \in Roles \union {Nil}
           /\ q.keys \in SUBSET Perms /\ q.seen \in SUBSET Perms /\ q.stale \in BOOLEAN
           /\ q # Nil
  BY NilIsNoRequest DEF Request, Steps

LEMMA DoingType ==
    ASSUME NEW at \in Steps, NEW role \in Roles \union {Nil},
           NEW keys \in SUBSET Perms, NEW seen \in SUBSET Perms
    PROVE  /\ Doing(at, role, keys, seen) \in Request
           /\ Doing(at, role, keys, seen).at = at
           /\ Doing(at, role, keys, seen).role = role
           /\ Doing(at, role, keys, seen).keys = keys
           /\ ~ Doing(at, role, keys, seen).stale
  BY DEF Doing, Request, Steps

\* What was read can turn stale, and what a transaction saw can be deleted by another.
LEMMA StaleType ==
    ASSUME NEW q \in Request, NEW seen \in SUBSET Perms
    PROVE  /\ [ q EXCEPT !.stale = TRUE ] \in Request
           /\ [ q EXCEPT !.stale = TRUE ].at = q.at
           /\ [ q EXCEPT !.stale = TRUE ].role = q.role
           /\ [ q EXCEPT !.stale = TRUE ].stale
           /\ [ q EXCEPT !.stale = TRUE, !.seen = seen ] \in Request
           /\ [ q EXCEPT !.stale = TRUE, !.seen = seen ].at = q.at
           /\ [ q EXCEPT !.stale = TRUE, !.seen = seen ].role = q.role
           /\ [ q EXCEPT !.stale = TRUE, !.seen = seen ].stale
  BY DEF Request

\* What one request needs, and what it holds when nothing was written since.
Current(q) ==
    /\ q.at = "keys" => q.role = roleOf
    /\ q.at = "fill" => q.keys = PermissionsOf(roleOf)

Emptying == \E r \in Requests : At(r, "empty")

\* A step of one request that writes no table leaves the others as they were.
LEMMA OneRequest ==
    ASSUME AInv, UNCHANGED tables, NEW r \in Requests, NEW q \in Request \union {Nil},
           req' = [ req EXCEPT ![r] = q ],
           q # Nil => Sound(q) /\ (~ q.stale => Current(q))
    PROVE  /\ req' \in [ Requests -> Request \union {Nil} ]
           /\ RequestsAreSound' /\ GrantsAreOfRoles' /\ ReadersAreCurrent'
           /\ ~ At(r, "empty") => (Emptying => Emptying')
<1>. USE DEF tables
<1>1. /\ req' \in [ Requests -> Request \union {Nil} ]
      /\ req'[r] = q /\ \A o \in Requests \ {r} : req'[o] = req[o]
  BY DEF AInv, Types, TypeOK
<1>2. RequestsAreSound'
  BY <1>1 DEF AInv, Types, RequestsAreSound, Sound
<1>3. GrantsAreOfRoles'
  BY DEF AInv, Types, GrantsAreOfRoles
<1>4. PermissionsOf(roleOf)' = PermissionsOf(roleOf)
  BY DEF PermissionsOf, Live
<1>5. ReadersAreCurrent'
  <2>1. SUFFICES ASSUME NEW o \in Requests, req'[o] # Nil, ~ req'[o].stale
                 PROVE  /\ req'[o].at = "keys" => req'[o].role = roleOf'
                        /\ req'[o].at = "fill" => req'[o].keys = PermissionsOf(roleOf)'
    BY DEF ReadersAreCurrent
  <2>2. CASE o = r
    BY <1>1, <1>4, <2>1, <2>2 DEF Current
  <2>3. CASE o # r
    BY <1>1, <1>4, <2>1, <2>3 DEF AInv, ReadersAreCurrent
  <2>. QED
    BY <2>2, <2>3
<1>6. ~ At(r, "empty") => (Emptying => Emptying')
  BY <1>1 DEF At, Emptying
<1>. QED
  BY <1>1, <1>2, <1>3, <1>5, <1>6

\* After a commit nobody but its request holds what is current.
LEMMA EveryRequest ==
    ASSUME AInv, NEW r \in Requests, NEW next \in {Nil, Invalidating},
           req' \in [ Requests -> Request \union {Nil} ], req'[r] = next,
           \A o \in Requests \ {r} :
             IF req[o] = Nil THEN req'[o] = Nil
             ELSE req'[o].stale /\ req'[o].at = req[o].at /\ req'[o].role = req[o].role
                  /\ req'[o] # Nil,
           \A role \in Roles : roles[role] # "none" => roles'[role] # "none"
    PROVE  /\ RequestsAreSound' /\ ReadersAreCurrent'
           /\ next = Invalidating => Emptying'
           /\ ~ At(r, "empty") => (Emptying => Emptying')
<1>1. Invalidating # Nil /\ Invalidating.at = "empty"
  BY DoingType, RequestFields DEF Invalidating, Steps
<1>2. RequestsAreSound'
  BY <1>1 DEF AInv, Types, RequestsAreSound, Sound
<1>3. ReadersAreCurrent'
  <2>1. SUFFICES ASSUME NEW o \in Requests, req'[o] # Nil, ~ req'[o].stale
                 PROVE  req'[o].at = "empty"
    BY DEF ReadersAreCurrent
  <2>2. o = r
    BY <2>1
  <2>. QED
    BY <1>1, <2>1, <2>2
<1>4. next = Invalidating => Emptying'
  BY <1>1 DEF Emptying, At
<1>5. ~ At(r, "empty") => (Emptying => Emptying')
  BY DEF Emptying, At
<1>. QED
  BY <1>2, <1>3, <1>4, <1>5

LEMMA CommitType ==
    ASSUME AInv, NEW r \in Requests, NEW next \in {Nil, Invalidating}, Commit(r, next),
           \A role \in Roles : roles[role] # "none" => roles'[role] # "none"
    PROVE  /\ req' \in [ Requests -> Request \union {Nil} ]
           /\ RequestsAreSound' /\ ReadersAreCurrent'
           /\ next = Invalidating => Emptying'
           /\ ~ At(r, "empty") => (Emptying => Emptying')
<1>1. Invalidating \in Request
  BY DoingType DEF Invalidating, Steps
<1>2. \A o \in Requests : req[o] # Nil => req[o] \in Request
  BY DEF AInv, Types, TypeOK
<1>3. /\ req'[r] = next
      /\ \A o \in Requests \ {r} :
           req'[o] = IF req[o] = Nil THEN Nil ELSE [ req[o] EXCEPT !.stale = TRUE ]
  BY DEF Commit
<1>4. \A o \in Requests \ {r} :
        IF req[o] = Nil THEN req'[o] = Nil
        ELSE req'[o] \in Request /\ req'[o].stale /\ req'[o].at = req[o].at
             /\ req'[o].role = req[o].role /\ req'[o] # Nil
  <2>1. SUFFICES ASSUME NEW o \in Requests \ {r}, req[o] # Nil
                 PROVE  /\ req'[o] \in Request /\ req'[o].stale /\ req'[o].at = req[o].at
                        /\ req'[o].role = req[o].role
    BY <1>3, RequestFields
  <2>2. req[o] \in Request /\ req'[o] = [ req[o] EXCEPT !.stale = TRUE ]
    BY <1>2, <1>3, <2>1
  <2>. QED
    BY <2>2, StaleType
<1>5. req' \in [ Requests -> Request \union {Nil} ]
  BY <1>1, <1>3, <1>4 DEF Commit
<1>. QED
  BY <1>3, <1>4, <1>5, EveryRequest

-----------------------------------------------------------------------------
(* Access: steps that only read *)

LEMMA AccessInit == Init => AInv
<1>. SUFFICES ASSUME Init PROVE AInv
  OBVIOUS
<1>1. /\ roleOf \in Roles /\ roles \in [ Roles -> Row ] /\ perms \in [ Perms -> Row ]
      /\ token = Nil /\ cache = Nil /\ changes = 0 /\ overtaken = FALSE
      /\ req = [ r \in Requests |-> Nil ]
  BY AccessAssumption DEF Init, Row
<1>2. System \subseteq Live(roles) /\ Live(perms) \subseteq Perms
  BY DEF Init, Live
<1>3. /\ granted \in [ Roles -> SUBSET Perms ]
      /\ \A role \in Roles : granted[role] # {} => role \in System
  BY <1>2 DEF Init
<1>4. GrantsAreOfRoles
  BY <1>2, <1>3 DEF GrantsAreOfRoles, Live
<1>5. 0 \in 0..MaxChanges
  BY AccessAssumption
<1>6. TypeOK
  BY <1>1, <1>3, <1>5 DEF TypeOK
<1>7. RequestsAreSound /\ ReadersAreCurrent
  BY <1>1 DEF RequestsAreSound, ReadersAreCurrent
<1>8. CacheIsCurrent
  BY <1>1 DEF CacheIsCurrent
<1>. QED
  BY <1>4, <1>6, <1>7, <1>8 DEF AInv, Types

\* A step of one request that writes neither the tables nor the cache.
LEMMA OnlyARequest ==
    ASSUME AInv, UNCHANGED <<tables, token, cache, overtaken>>, changes' \in 0..MaxChanges,
           NEW r \in Requests, NEW q \in Request \union {Nil}, ~ At(r, "empty"),
           req' = [ req EXCEPT ![r] = q ],
           q # Nil => Sound(q) /\ (~ q.stale => Current(q))
    PROVE  AInv'
<1>1. /\ req' \in [ Requests -> Request \union {Nil} ]
      /\ RequestsAreSound' /\ GrantsAreOfRoles' /\ ReadersAreCurrent'
      /\ Emptying => Emptying'
  BY OneRequest DEF tables
<1>2. TypeOK'
  BY <1>1 DEF AInv, Types, TypeOK, tables
<1>3. PermissionsOf(roleOf)' = PermissionsOf(roleOf)
  BY DEF PermissionsOf, Live, tables
<1>4. CacheIsCurrent'
  BY <1>1, <1>3 DEF AInv, CacheIsCurrent, Emptying, tables
<1>. QED
  BY <1>1, <1>2, <1>4 DEF AInv, Types

\* The bound on changes.
LEMMA ChangesType ==
    ASSUME AInv
    PROVE  /\ changes \in 0..MaxChanges
           /\ changes < MaxChanges /\ changes' = changes + 1 => changes' \in 0..MaxChanges
  BY AccessAssumption DEF AInv, Types, TypeOK

LEMMA CheckStep ==
    ASSUME AInv, NEW r \in Requests, Check(r)
    PROVE  AInv'
<1>. DEFINE q == Doing("role", Nil, {}, {})
<1>1. q \in Request /\ q.at = "role"
  BY DoingType DEF Steps
<1>. HIDE DEF q
<1>2. Sound(q) /\ Current(q)
  BY <1>1 DEF Sound, Current
<1>3. req[r] = Nil /\ req' = [ req EXCEPT ![r] = q ]
  BY DEF Check, Begin, q
<1>. QED
  BY <1>1, <1>2, <1>3, ChangesType, OnlyARequest DEF Check, At

\* What a request at one of its steps is known to hold.
LEMMA Held ==
    ASSUME AInv, NEW r \in Requests, req[r] # Nil
    PROVE  /\ req[r] \in Request /\ Sound(req[r]) /\ (~ req[r].stale => Current(req[r]))
           /\ req[r].at \in Steps /\ req[r].role \in Roles \union {Nil}
           /\ req[r].keys \in SUBSET Perms /\ req[r].seen \in SUBSET Perms
           /\ req[r].stale \in BOOLEAN
  BY RequestFields
  DEF AInv, Types, TypeOK, RequestsAreSound, ReadersAreCurrent, Current

LEMMA PermissionsType ==
    ASSUME AInv, NEW role \in Roles
    PROVE  PermissionsOf(role) \in SUBSET Perms
  BY DEF AInv, Types, TypeOK, PermissionsOf, Live

LEMMA ReadStep ==
    ASSUME AInv, NEW r \in Requests, GetUserPermissions(r) \/ GetRolePermissions(r)
    PROVE  AInv'
<1>0. roleOf \in Roles
  BY DEF AInv, Types, TypeOK
<1>1. CASE GetUserPermissions(r)
  <2>. DEFINE q == Doing("keys", roleOf, {}, {})
  <2>1. q \in Request /\ q.at = "keys" /\ q.role = roleOf
    BY <1>0, DoingType DEF Steps
  <2>2. req' = [ req EXCEPT ![r] = q ] /\ ~ At(r, "empty")
    BY <1>1 DEF GetUserPermissions, At
  <2>. HIDE DEF q
  <2>3. Sound(q) /\ Current(q)
    BY <1>0, <2>1 DEF Sound, Current
  <2>. QED
    BY <1>1, <2>1, <2>2, <2>3, ChangesType, OnlyARequest DEF GetUserPermissions
<1>2. CASE GetRolePermissions(r)
  <2>. DEFINE q == [ req[r] EXCEPT !.at = "fill", !.keys = PermissionsOf(req[r].role) ]
  <2>1. req[r] # Nil /\ req[r].at = "keys"
    BY <1>2 DEF GetRolePermissions, At
  <2>2. /\ req[r] \in Request /\ req[r].role \in Roles
        /\ ~ req[r].stale => req[r].role = roleOf
    BY <2>1, Held DEF Sound, Current
  <2>3. PermissionsOf(req[r].role) \in SUBSET Perms
    BY <2>2, PermissionsType
  <2>4. /\ q \in Request /\ q.at = "fill" /\ q.keys = PermissionsOf(req[r].role)
        /\ q.stale = req[r].stale
    BY <2>2, <2>3 DEF Request
  <2>5. req' = [ req EXCEPT ![r] = q ] /\ ~ At(r, "empty")
    BY <1>2, <2>1 DEF GetRolePermissions, At
  <2>. HIDE DEF q
  <2>6. Sound(q) /\ (~ q.stale => Current(q))
    BY <2>2, <2>4 DEF Sound, Current
  <2>. QED
    BY <1>2, <2>4, <2>5, <2>6, ChangesType, OnlyARequest DEF GetRolePermissions
<1>. QED
  BY <1>1, <1>2

\* What changes something reads the rows first.
LEMMA StartChange ==
    ASSUME AInv, NEW r \in Requests,
           \/ GetUser(r)
           \/ \E role \in Roles : \/ GetRole(r, role)
                                  \/ \E ids \in SUBSET Perms : DeleteRolePermissions(r, role, ids)
           \/ \E p \in Perms : GetPermission(r, p)
    PROVE  AInv'
<1>1. PICK at \in {"user", "edited", "assign", "named"}, role \in Roles \union {Nil},
          keys \in SUBSET Perms, seen \in SUBSET Perms :
        /\ Change(r, Doing(at, role, keys, seen))
        /\ at # "named" => role \in Roles
        /\ at \in {"edited", "assign"} => roles[role] # "none"
        /\ UNCHANGED <<tables, token, cache, overtaken>>
  <2>. DEFINE Reads(at, role, keys, seen) ==
                 /\ Change(r, Doing(at, role, keys, seen))
                 /\ at # "named" => role \in Roles
                 /\ at \in {"edited", "assign"} => roles[role] # "none"
                 /\ UNCHANGED <<tables, token, cache, overtaken>>
              Goal == \E at \in {"user", "edited", "assign", "named"},
                        role \in Roles \union {Nil}, keys \in SUBSET Perms,
                        seen \in SUBSET Perms : Reads(at, role, keys, seen)
  <2>1. CASE GetUser(r)
    <3>1. roleOf \in Roles
      BY DEF AInv, Types, TypeOK
    <3>2. Reads("user", roleOf, {}, {})
      BY <2>1, <3>1 DEF GetUser
    <3>. QED
      BY <3>1, <3>2
  <2>2. ASSUME NEW role \in Roles, GetRole(r, role) PROVE Goal
    <3>1. Reads("edited", role, {}, {})
      BY <2>2 DEF GetRole, Live
    <3>. QED
      BY <3>1
  <2>3. ASSUME NEW role \in Roles, NEW ids \in SUBSET Perms, DeleteRolePermissions(r, role, ids)
        PROVE  Goal
    <3>1. Reads("assign", role, ids, granted[role]) /\ granted[role] \in SUBSET Perms
      BY <2>3 DEF DeleteRolePermissions, Live, AInv, Types, TypeOK
    <3>. QED
      BY <3>1
  <2>4. ASSUME NEW p \in Perms, GetPermission(r, p) PROVE Goal
    <3>1. Reads("named", Nil, {p}, {})
      BY <2>4 DEF GetPermission
    <3>. QED
      BY <3>1
  <2>. QED
    BY <2>1, <2>2, <2>3, <2>4
<1>. DEFINE q == Doing(at, role, keys, seen)
<1>2. q \in Request /\ q.at = at /\ q.role = role
  BY DoingType DEF Steps
<1>3. req[r] = Nil /\ req' = [ req EXCEPT ![r] = q ] /\ changes' \in 0..MaxChanges
  BY <1>1, ChangesType DEF Change, Begin
<1>. HIDE DEF q
<1>4. Sound(q) /\ Current(q)
  BY <1>1, <1>2 DEF Sound, Current
<1>. QED
  BY <1>1, <1>2, <1>3, <1>4, OnlyARequest DEF At

LEMMA AccessFail ==
    ASSUME AInv, NEW r \in Requests, Fail(r)
    PROVE  AInv'
<1>1. req' = [ req EXCEPT ![r] = Nil ] /\ ~ At(r, "empty")
  BY DEF Fail, Finish
<1>. QED
  BY <1>1, ChangesType, OnlyARequest DEF Fail

-----------------------------------------------------------------------------
(* Access: steps that write the cache *)

\* A fill of what is current leaves the cache current, and another was overtaken.
LEMMA FillStep ==
    ASSUME AInv, NEW r \in Requests, SetUserPermissionKeys(r)
    PROVE  AInv'
<1>1. /\ req[r] # Nil /\ req[r].at = "fill" /\ req' = [ req EXCEPT ![r] = Nil ]
      /\ cache' = req[r].keys /\ overtaken' = (overtaken \/ req[r].stale)
      /\ UNCHANGED <<tables, token, changes>>
  BY DEF SetUserPermissionKeys, At, Finish
<1>2. /\ req' \in [ Requests -> Request \union {Nil} ]
      /\ RequestsAreSound' /\ GrantsAreOfRoles' /\ ReadersAreCurrent'
  BY <1>1, OneRequest
<1>3. /\ req[r].keys \in SUBSET Perms /\ req[r].stale \in BOOLEAN
      /\ ~ req[r].stale => req[r].keys = PermissionsOf(roleOf)
  BY <1>1, Held DEF Current
<1>4. TypeOK'
  BY <1>1, <1>2, <1>3 DEF AInv, Types, TypeOK, tables
<1>5. PermissionsOf(roleOf)' = PermissionsOf(roleOf)
  BY <1>1 DEF PermissionsOf, Live, tables
<1>6. CacheIsCurrent'
  BY <1>1, <1>3, <1>5 DEF CacheIsCurrent
<1>. QED
  BY <1>2, <1>4, <1>6 DEF AInv, Types

LEMMA EmptyStep ==
    ASSUME AInv, NEW r \in Requests, DeleteUserPermissionKeys(r)
    PROVE  AInv'
<1>1. /\ req[r] # Nil /\ req' = [ req EXCEPT ![r] = Nil ]
      /\ cache' \in {cache, Nil} /\ overtaken' \in {overtaken, TRUE}
      /\ cache' = Nil \/ overtaken'
      /\ UNCHANGED <<tables, token, changes>>
  BY DEF DeleteUserPermissionKeys, At, Finish
<1>2. /\ req' \in [ Requests -> Request \union {Nil} ]
      /\ RequestsAreSound' /\ GrantsAreOfRoles' /\ ReadersAreCurrent'
  BY <1>1, OneRequest
<1>3. TypeOK'
  BY <1>1, <1>2 DEF AInv, Types, TypeOK, tables
<1>4. CacheIsCurrent'
  BY <1>1 DEF CacheIsCurrent
<1>. QED
  BY <1>2, <1>3, <1>4 DEF AInv, Types

\* What time does, and a login.
LEMMA OutsideStep ==
    ASSUME AInv, Expire \/ Login \/ TokenExpires
    PROVE  AInv'
<1>1. /\ UNCHANGED <<tables, req, changes, overtaken>>
      /\ cache' \in {cache, Nil} /\ token' \in {token, roleOf, Nil}
  BY DEF Expire, Login, TokenExpires
<1>2. TypeOK'
  BY <1>1 DEF AInv, Types, TypeOK, tables
<1>3. RequestsAreSound' /\ GrantsAreOfRoles'
  BY <1>1 DEF AInv, Types, RequestsAreSound, Sound, GrantsAreOfRoles, tables
<1>4. PermissionsOf(roleOf)' = PermissionsOf(roleOf)
  BY <1>1 DEF PermissionsOf, Live, tables
<1>5. ReadersAreCurrent'
  BY <1>1, <1>4 DEF AInv, ReadersAreCurrent, tables
<1>6. CacheIsCurrent'
  BY <1>1, <1>4 DEF AInv, CacheIsCurrent, At
<1>. QED
  BY <1>2, <1>3, <1>5, <1>6 DEF AInv, Types

-----------------------------------------------------------------------------
(* Access: commits *)

\* A commit that empties the cache afterwards, or has changed nobody's permissions, or
\* is told of as an overtaking one, keeps the promise of the cache.
LEMMA CommitStep ==
    ASSUME AInv, NEW r \in Requests, NEW next \in {Nil, Invalidating}, Commit(r, next),
           ~ At(r, "empty"), UNCHANGED <<token, cache>>, changes' \in 0..MaxChanges,
           roleOf' \in Roles, roles' \in [ Roles -> Row ], perms' \in [ Perms -> Row ],
           granted' \in [ Roles -> SUBSET Perms ], overtaken' \in BOOLEAN,
           \A role \in Roles : roles[role] # "none" => roles'[role] # "none",
           GrantsAreOfRoles', overtaken => overtaken',
           next = Nil => overtaken' \/ PermissionsOf(roleOf)' = PermissionsOf(roleOf)
    PROVE  AInv'
<1>1. /\ req' \in [ Requests -> Request \union {Nil} ]
      /\ RequestsAreSound' /\ ReadersAreCurrent'
      /\ next = Invalidating => Emptying'
      /\ Emptying => Emptying'
  BY CommitType
<1>2. TypeOK'
  BY <1>1 DEF AInv, Types, TypeOK
<1>3. CacheIsCurrent'
  BY <1>1 DEF AInv, CacheIsCurrent, Emptying
<1>. QED
  BY <1>1, <1>2, <1>3 DEF AInv, Types

LEMMA AssignRoleStep ==
    ASSUME AInv, NEW r \in Requests, NEW role \in Roles, AssignRole(r, role)
    PROVE  AInv'
<1>1. /\ ~ At(r, "empty") /\ roleOf' \in Roles /\ Commit(r, Invalidating)
      /\ UNCHANGED <<roles, perms, granted, token, cache, changes, overtaken>>
  BY DEF AssignRole, At
<1>2. GrantsAreOfRoles'
  BY <1>1 DEF AInv, Types, GrantsAreOfRoles
<1>3. Invalidating # Nil
  BY DoingType, RequestFields DEF Invalidating, Steps
<1>. QED
  BY <1>1, <1>2, <1>3, CommitStep DEF AInv, Types, TypeOK

\* A whole-row Save that writes back another role than the row has was overtaken.
LEMMA SaveProfileStep ==
    ASSUME AInv, NEW r \in Requests, SaveProfile(r)
    PROVE  AInv'
<1>1. req[r] # Nil /\ req[r].at = "user" /\ ~ At(r, "empty")
  BY DEF SaveProfile, At
<1>2. /\ roleOf' = req[r].role /\ overtaken' = (overtaken \/ roleOf' # roleOf)
      /\ Commit(r, Nil) /\ UNCHANGED <<roles, perms, granted, token, cache, changes>>
  BY DEF SaveProfile
<1>3. roleOf' \in Roles
  BY <1>1, <1>2, Held DEF Sound
<1>4. GrantsAreOfRoles'
  BY <1>2 DEF AInv, Types, GrantsAreOfRoles
<1>5. roleOf' = roleOf => PermissionsOf(roleOf)' = PermissionsOf(roleOf)
  BY <1>2 DEF PermissionsOf, Live
<1>6. overtaken \in BOOLEAN /\ overtaken' \in BOOLEAN
  BY <1>2 DEF AInv, Types, TypeOK
<1>. QED
  BY <1>1, <1>2, <1>3, <1>4, <1>5, <1>6, CommitStep DEF AInv, Types, TypeOK

\* A role that is created has no permissions yet.
LEMMA CreateRoleStep ==
    ASSUME AInv, NEW r \in Requests, NEW role \in Roles, CreateRole(r, role)
    PROVE  AInv'
<1>1. /\ ~ At(r, "empty") /\ roles[role] = "none" /\ Commit(r, Nil)
      /\ roles' = [ roles EXCEPT ![role] = "live" ]
      /\ UNCHANGED <<roleOf, perms, granted, token, cache, overtaken>>
  BY DEF CreateRole, At
<1>2. changes' \in 0..MaxChanges
  BY ChangesType DEF CreateRole
<1>3. /\ roles' \in [ Roles -> Row ] /\ roles'[role] = "live"
      /\ \A o \in Roles \ {role} : roles'[o] = roles[o]
  BY <1>1 DEF AInv, Types, TypeOK, Row
<1>4. GrantsAreOfRoles' /\ granted[role] = {}
  BY <1>1, <1>3 DEF AInv, Types, GrantsAreOfRoles
<1>5. PermissionsOf(roleOf)' = PermissionsOf(roleOf)
  <2>1. roleOf \in Roles
    BY DEF AInv, Types, TypeOK
  <2>2. CASE roleOf = SuperAdmin
    BY <1>1, <2>2 DEF PermissionsOf, Live
  <2>3. CASE roleOf # SuperAdmin
    <3>1. roleOf = role => PermissionsOf(roleOf)' = {} /\ PermissionsOf(roleOf) = {}
      BY <1>1, <1>4, <2>3 DEF PermissionsOf
    <3>2. roleOf # role => (roleOf \in Live(roles)') = (roleOf \in Live(roles))
      BY <1>3, <2>1 DEF Live, AInv, Types, TypeOK
    <3>3. Live(perms)' = Live(perms)
      BY <1>1 DEF Live
    <3>. QED
      BY <1>1, <2>3, <3>1, <3>2, <3>3 DEF PermissionsOf
  <2>. QED
    BY <2>2, <2>3
<1>. QED
  BY <1>1, <1>2, <1>3, <1>4, <1>5, CommitStep DEF AInv, Types, TypeOK

LEMMA UpdateRoleStep ==
    ASSUME AInv, NEW r \in Requests, UpdateRole(r) \/ DeleteRole(r)
    PROVE  AInv'
<1>1. PICK row \in {"live", "deleted"}, next \in {Nil, Invalidating} :
        /\ At(r, "edited") /\ roles' = [ roles EXCEPT ![req[r].role] = row ]
        /\ Commit(r, next)
        /\ overtaken' \in BOOLEAN /\ (overtaken => overtaken')
        /\ next = Nil /\ roles' # roles => overtaken'
        /\ UNCHANGED <<roleOf, perms, granted, token, cache, changes>>
  <2>1. overtaken \in BOOLEAN
    BY DEF AInv, Types, TypeOK
  <2>2. CASE UpdateRole(r)
    BY <2>1, <2>2 DEF UpdateRole
  <2>3. CASE DeleteRole(r)
    <3>1. Invalidating # Nil
      BY DoingType, RequestFields DEF Invalidating, Steps
    <3>. QED
      BY <2>1, <2>3, <3>1 DEF DeleteRole
  <2>. QED
    BY <2>2, <2>3
<1>2. ~ At(r, "empty") /\ req[r] # Nil /\ req[r].at = "edited"
  BY <1>1 DEF At
<1>3. req[r].role \in Roles /\ roles[req[r].role] # "none"
  BY <1>2, Held DEF Sound
<1>4. /\ roles' \in [ Roles -> Row ]
      /\ \A o \in Roles : roles[o] # "none" => roles'[o] # "none"
  BY <1>1, <1>3 DEF AInv, Types, TypeOK, Row
<1>5. GrantsAreOfRoles'
  BY <1>1, <1>4 DEF AInv, Types, GrantsAreOfRoles
<1>6. roles' = roles => PermissionsOf(roleOf)' = PermissionsOf(roleOf)
  BY <1>1 DEF PermissionsOf, Live
<1>. QED
  BY <1>1, <1>2, <1>4, <1>5, <1>6, CommitStep DEF AInv, Types, TypeOK

\* A refused assignment writes nothing; another empties the cache.
LEMMA AssignPermissionsStep ==
    ASSUME AInv, NEW r \in Requests, AssignPermissions(r)
    PROVE  AInv'
<1>. DEFINE role == req[r].role
            others == granted[role] \ req[r].seen
<1>1. /\ req[r] # Nil /\ req[r].at = "assign" /\ ~ At(r, "empty")
      /\ UNCHANGED <<roleOf, roles, perms, token, cache, changes, overtaken>>
  BY DEF AssignPermissions, At
<1>2. role \in Roles /\ roles[role] # "none" /\ req[r].keys \in SUBSET Perms
  BY <1>1, Held DEF Sound
<1>3. CASE others \intersect req[r].keys # {}
  <2>1. req' = [ req EXCEPT ![r] = Nil ] /\ UNCHANGED granted
    BY <1>3 DEF AssignPermissions, Finish
  <2>. QED
    BY <1>1, <2>1, ChangesType, OnlyARequest DEF tables
<1>4. CASE others \intersect req[r].keys = {}
  <2>. DEFINE seenOf(o) == IF req[o].role = role THEN req[o].seen \ req[r].seen
                           ELSE req[o].seen
              after(o) == CASE o = r -> Invalidating
                            [] req[o] = Nil -> Nil
                            [] OTHER -> [ req[o] EXCEPT !.stale = TRUE, !.seen = seenOf(o) ]
  <2>1. /\ granted' = [ granted EXCEPT ![role] = others \union req[r].keys ]
        /\ req' = [ o \in Requests |-> after(o) ]
    BY <1>4 DEF AssignPermissions, AfterAssignment
  <2>2. req'[r] = Invalidating
    BY <2>1, <1>1
  <2>3. ASSUME NEW o \in Requests \ {r}, req[o] # Nil
        PROVE  /\ req'[o] \in Request /\ req'[o].stale /\ req'[o].at = req[o].at
               /\ req'[o].role = req[o].role
    <3>1. req[o] \in Request /\ seenOf(o) \in SUBSET Perms
      BY <2>3, Held
    <3>2. PICK seen \in SUBSET Perms :
            req'[o] = [ req[o] EXCEPT !.stale = TRUE, !.seen = seen ]
      BY <2>1, <2>3, <3>1
    <3>. QED
      BY <3>1, <3>2 DEF Request
  <2>4. ASSUME NEW o \in Requests \ {r}, req[o] = Nil PROVE req'[o] = Nil
    BY <2>1, <2>4
  <2>5. Invalidating \in Request
    BY DoingType DEF Invalidating, Steps
  <2>6. req' \in [ Requests -> Request \union {Nil} ]
    <3>1. \A o \in Requests : req'[o] \in Request \union {Nil}
      BY <2>2, <2>3, <2>4, <2>5
    <3>. HIDE DEF after
    <3>2. req' = [ o \in Requests |-> req'[o] ]
      BY <2>1
    <3>. QED
      BY <3>1, <3>2
  <2>7. RequestsAreSound' /\ ReadersAreCurrent' /\ Emptying'
    BY <1>1, <2>2, <2>3, <2>4, <2>6, RequestFields, EveryRequest
  <2>8. granted' \in [ Roles -> SUBSET Perms ] /\ GrantsAreOfRoles'
    BY <1>1, <1>2, <2>1 DEF AInv, Types, TypeOK, GrantsAreOfRoles
  <2>9. TypeOK'
    BY <1>1, <2>6, <2>8 DEF AInv, Types, TypeOK
  <2>10. CacheIsCurrent'
    BY <2>7 DEF CacheIsCurrent, Emptying
  <2>. QED
    BY <2>7, <2>8, <2>9, <2>10 DEF AInv, Types
<1>. QED
  BY <1>3, <1>4

LEMMA PermissionStep ==
    ASSUME AInv, NEW r \in Requests,
           \/ \E p \in Perms : CreatePermission(r, p)
           \/ \E row \in Row : UpdatePermission(r, row)
    PROVE  AInv'
<1>1. /\ perms' \in [ Perms -> Row ] /\ Commit(r, Invalidating)
      /\ UNCHANGED <<roleOf, roles, granted, token, cache, overtaken>>
  BY DEF CreatePermission, UpdatePermission, AInv, Types, TypeOK, Row
<1>2. changes' \in 0..MaxChanges /\ ~ At(r, "empty")
  BY ChangesType DEF CreatePermission, UpdatePermission, At
<1>3. GrantsAreOfRoles'
  BY <1>1 DEF AInv, Types, GrantsAreOfRoles
<1>4. Invalidating # Nil
  BY DoingType, RequestFields DEF Invalidating, Steps
<1>. QED
  BY <1>1, <1>2, <1>3, <1>4, CommitStep DEF AInv, Types, TypeOK

LEMMA AccessNext == AInv /\ [Next]_vars => AInv'
<1>. SUFFICES ASSUME AInv, [Next]_vars PROVE AInv'
  OBVIOUS
<1>1. CASE UNCHANGED vars
  <2>1. UNCHANGED <<roleOf, roles, perms, granted, token, cache, req, changes, overtaken>>
    BY <1>1 DEF vars, tables
  <2>2. PermissionsOf(roleOf)' = PermissionsOf(roleOf)
    BY <2>1 DEF PermissionsOf, Live
  <2>3. TypeOK' /\ RequestsAreSound' /\ GrantsAreOfRoles'
    BY <2>1 DEF AInv, Types, TypeOK, RequestsAreSound, Sound, GrantsAreOfRoles
  <2>4. ReadersAreCurrent'
    BY <2>1, <2>2 DEF AInv, ReadersAreCurrent
  <2>5. CacheIsCurrent'
    BY <2>1, <2>2 DEF AInv, CacheIsCurrent, At
  <2>. QED
    BY <2>3, <2>4, <2>5 DEF AInv, Types
<1>2. ASSUME NEW r \in Requests, Start(r) PROVE AInv'
  BY <1>2, CheckStep, StartChange, CreateRoleStep, PermissionStep DEF Start
<1>3. ASSUME NEW r \in Requests, Proceed(r) PROVE AInv'
  BY <1>3, ReadStep, FillStep, AssignRoleStep, SaveProfileStep, UpdateRoleStep,
     AssignPermissionsStep, PermissionStep, EmptyStep, AccessFail
  DEF Proceed
<1>. QED
  BY <1>1, <1>2, <1>3, OutsideStep DEF Next

-----------------------------------------------------------------------------
(* Theorems *)

\* What is cached of a user's permissions is what the tables say once every change has
\* emptied the cache, whoever changes roles, permissions and the user meanwhile.
THEOREM PermissionsAreCurrent == Spec => []CacheIsCurrent
<1>1. AInv => CacheIsCurrent
  BY DEF AInv
<1>. QED
  BY <1>1, AccessInit, AccessNext, PTL DEF Spec

\* However many logins are tried at a time, those beyond the limit are those under way.
THEOREM GuessesAreBounded == Li!Spec => []GuessesBounded
<1>1. LInv => GuessesBounded
  BY GuessesFollow DEF GuessesBounded
<1>. QED
  BY <1>1, LimitersInit, LimitersNext, PTL DEF Li!Spec

\* Each variable of either component keeps its type.
THEOREM TypesCorrect == PartsSpec => []TypesOK
<1>. DEFINE PInv == (part = "access" => AInv) /\ LInv
<1>1. PartsInit => PInv
  BY AccessInit, LimitersInit DEF PartsInit
<1>2. PInv /\ [PartsNext]_<<part, vars, ofLi>> => PInv'
  <2>. SUFFICES ASSUME PInv, [PartsNext]_<<part, vars, ofLi>> PROVE PInv'
    OBVIOUS
  <2>. USE DEF ofLi, Li!vars
  <2>1. CASE UNCHANGED <<part, vars, ofLi>>
    BY <2>1, AccessNext, LimitersNext
  <2>2. CASE part = "access" /\ Next /\ UNCHANGED <<part, ofLi>>
    BY <2>2, AccessNext, LimitersNext
  <2>3. CASE part = "limiters" /\ Li!Next /\ UNCHANGED <<part, vars>>
    BY <2>3, AccessNext, LimitersNext
  <2>. QED
    BY <2>1, <2>2, <2>3 DEF PartsNext
<1>3. PInv => TypesOK
  BY DEF TypesOK, AInv, Types, LInv
<1>. QED
  BY <1>1, <1>2, <1>3, PTL DEF PartsSpec
===============================================================================
