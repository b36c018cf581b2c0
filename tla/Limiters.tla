------------------------------- MODULE Limiters -------------------------------
(***************************************************************************)
(* The limits on logins that are kept in Redis.  IPRateLimitMiddleware     *)
(* counts the requests of an address; the login handler asks the login     *)
(* limiter, tries the password and reports the outcome to the limiter,     *)
(* which counts the failures of an address and account.  One command is    *)
(* one step; counts above a limit are alike, and are one value.            *)
(***************************************************************************)
EXTENDS Naturals, FiniteSets

CONSTANTS
    RateLimit,      \* limit of IPRateLimitMiddleware
    LoginLimit,     \* limit of the login limiter
    Requests,       \* requests in progress at one time
    Nil

Steps == {"expire", "ask", "login", "count", "window", "block", "clear", "reset", "unblock"}

LimitersAssumption ==
    /\ RateLimit \in Nat \ {0} /\ LoginLimit \in Nat \ {0}
    /\ IsFiniteSet(Requests) /\ Nil \notin Steps

VARIABLES
    current,        \* rate_limit:<prefix>:<ip>
    lapsing,        \* the counters that have a time to live
    attempts,       \* login_attempts:<key>
    blocked,        \* whether login_block:<key> is there
    guesses,        \* wrong passwords tried since the last block, lapse or login
    req,            \* where each request is, or Nil
    failed          \* whether a command failed, or the process died

vars == <<current, lapsing, attempts, blocked, guesses, req, failed>>

Move(r, from, to) == req[r] = from /\ req' = [ req EXCEPT ![r] = to ]
Counted(count, limit) == IF count > limit THEN count ELSE count + 1

-----------------------------------------------------------------------------
(* IPRateLimitMiddleware *)

\* Seeded fault: counts are taken for counts from zero.
FirstIsZero(count) == count = 0

First(count) == count = 1

\* The first request of a window sets when it ends.
Incr(r) ==
    /\ current' = Counted(current, RateLimit)
    /\ Move(r, Nil, IF First(current') THEN "expire"
                    ELSE IF current' > RateLimit THEN Nil ELSE "ask")
    /\ UNCHANGED <<lapsing, attempts, blocked, guesses, failed>>

\* An error in counting lets the request through.
IncrFails(r) ==
    /\ Move(r, Nil, "ask")
    /\ failed' = TRUE
    /\ UNCHANGED <<current, lapsing, attempts, blocked, guesses>>

\* An error in setting the end is only logged.
SetExpiry(r) ==
    /\ Move(r, "expire", "ask")
    /\ \/ lapsing' = lapsing \union {"current"} /\ UNCHANGED failed
       \/ failed' = TRUE /\ UNCHANGED lapsing
    /\ UNCHANGED <<current, attempts, blocked, guesses>>

-----------------------------------------------------------------------------
(* HandlerUser.Login and the login limiter *)

\* An error lets the request through.
IsBlocked(r) ==
    /\ \/ Move(r, "ask", IF blocked THEN Nil ELSE "login") /\ UNCHANGED failed
       \/ Move(r, "ask", "login") /\ failed' = TRUE
    /\ UNCHANGED <<current, lapsing, attempts, blocked, guesses>>

LoginUser(r) ==
    /\ \/ Move(r, "login", "reset") /\ UNCHANGED guesses
       \/ /\ Move(r, "login", "count")
          /\ guesses' = Counted(guesses, LoginLimit + Cardinality(Requests))
    /\ UNCHANGED <<current, lapsing, attempts, blocked, failed>>

\* Seeded fault: one failure too many.
ReachesLate(count) == count > LoginLimit

Reaches(count) == count >= LoginLimit

RegisterFailure(r) ==
    /\ attempts' = Counted(attempts, LoginLimit)
    /\ Move(r, "count", IF First(attempts') THEN "window"
                        ELSE IF Reaches(attempts') THEN "block" ELSE Nil)
    /\ UNCHANGED <<current, lapsing, blocked, guesses, failed>>

SetWindow(r) ==
    /\ Move(r, "window", IF Reaches(1) THEN "block" ELSE Nil)
    /\ lapsing' = lapsing \union (IF attempts > 0 THEN {"attempts"} ELSE {})
    /\ UNCHANGED <<current, attempts, blocked, guesses, failed>>

SetBlock(r) ==
    /\ Move(r, "block", "clear")
    /\ blocked' = TRUE
    /\ UNCHANGED <<current, lapsing, attempts, guesses, failed>>

\* Failures are forgotten after a block or a login, and after a login the block.
Forget(r) ==
    /\ Move(r, "clear", Nil) \/ Move(r, "reset", "unblock")
    /\ attempts' = 0 /\ guesses' = 0
    /\ lapsing' = lapsing \ {"attempts"}
    /\ UNCHANGED <<current, blocked, failed>>

Unblock(r) ==
    /\ Move(r, "unblock", Nil)
    /\ blocked' = FALSE
    /\ UNCHANGED <<current, lapsing, attempts, guesses, failed>>

\* A command fails, or the process dies.
Fail(r) ==
    /\ req[r] \notin {Nil, "expire", "ask"}
    /\ Move(r, req[r], Nil)
    /\ failed' = TRUE
    /\ UNCHANGED <<current, lapsing, attempts, blocked, guesses>>

-----------------------------------------------------------------------------
(* Times to live *)

RateLapses ==
    /\ "current" \in lapsing
    /\ current' = 0
    /\ lapsing' = lapsing \ {"current"}
    /\ UNCHANGED <<attempts, blocked, guesses, req, failed>>

AttemptsLapse ==
    /\ "attempts" \in lapsing
    /\ attempts' = 0 /\ guesses' = 0
    /\ lapsing' = lapsing \ {"attempts"}
    /\ UNCHANGED <<current, blocked, req, failed>>

BlockLapses ==
    /\ blocked
    /\ blocked' = FALSE
    /\ UNCHANGED <<current, lapsing, attempts, guesses, req, failed>>

-----------------------------------------------------------------------------
Init ==
    /\ current = 0 /\ attempts = 0 /\ guesses = 0
    /\ lapsing = {} /\ blocked = FALSE /\ failed = FALSE
    /\ req = [ r \in Requests |-> Nil ]

Proceed(r) ==
    \/ SetExpiry(r)
    \/ IsBlocked(r)
    \/ LoginUser(r)
    \/ RegisterFailure(r)
    \/ SetWindow(r)
    \/ SetBlock(r)
    \/ Forget(r)
    \/ Unblock(r)
    \/ Fail(r)

Next ==
    \/ \E r \in Requests : Incr(r) \/ IncrFails(r) \/ Proceed(r)
    \/ RateLapses
    \/ AttemptsLapse
    \/ BlockLapses

\* A request in progress ends, and keys with a time to live lapse.
Fairness ==
    /\ \A r \in Requests : WF_vars(Proceed(r))
    /\ WF_vars(RateLapses) /\ WF_vars(AttemptsLapse) /\ WF_vars(BlockLapses)

Spec == Init /\ [][Next]_vars /\ Fairness

-----------------------------------------------------------------------------
(* Properties *)

\* Every variable has its type, and a counter without a time to live is about to be
\* given one by the request that began it, unless a command failed.
TypeOK ==
    /\ current \in 0..RateLimit + 1 /\ attempts \in 0..LoginLimit + 1
    /\ guesses \in Nat /\ lapsing \subseteq {"current", "attempts"}
    /\ blocked \in BOOLEAN /\ failed \in BOOLEAN
    /\ req \in [ Requests -> Steps \union {Nil} ]
    /\ \/ failed
       \/ /\ current = 0 \/ "current" \in lapsing \/ \E r \in Requests : req[r] = "expire"
          /\ attempts = 0 \/ "attempts" \in lapsing \/ \E r \in Requests : req[r] = "window"

\* Logins are asked for, tried and counted in separate steps, yet while every command
\* is answered only those under way can be tried beyond the limit.
GuessesBounded == failed \/ guesses <= LoginLimit + Cardinality(Requests) - 1

\* An address that is refused is let in again, and a count of failures that has
\* reached the limit is cleared, unless a command failed.
RefusedForATime ==
    /\ current > RateLimit ~> (current = 0 \/ failed)
    /\ attempts >= LoginLimit ~> (attempts < LoginLimit \/ failed)
===============================================================================
