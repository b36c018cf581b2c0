-------------------------------- MODULE Codes ---------------------------------
(***************************************************************************)
(* The codes mailed to one address: either the one-time password of a      *)
(* registration or the token of a password reset, each with its service    *)
(* over keys in Redis, one command per step.  A code that is stored        *)
(* replaces the last one-time password; reset tokens are kept side by      *)
(* side.  Keys expire: nothing else happens to a code that lapses.         *)
(***************************************************************************)
EXTENDS Integers, FiniteSets

CONSTANTS
    CodeIds,        \* codes; one that is gone and forgotten may be sent again
    MaxAttempts,    \* OTPConfig.MaxAttempts
    RateLimit,      \* RateLimit of either config
    MaxTries,       \* bound of the model: tries of a code that are counted
    Requests,       \* requests in progress at one time
    Nil

VARIABLES
    purpose,        \* "register" or "reset"
    stored,         \* codes under a key
    attempts,       \* otp:attempt
    cooldown,       \* whether the cooldown key is there
    sends,          \* the counter of requests for a code
    tries,          \* how often each code was compared, since attempts at it began
    mails,          \* mails sent while the counter of requests was there
    failed,         \* whether a call to Redis failed, or the process died
    req             \* what each request has read, or Nil

keys == <<stored, attempts, cooldown, sends>>
counts == <<tries, mails, failed>>
vars == <<purpose, keys, counts, req>>

Request == [ op : {"send", "uncool", "undo", "verify", "refuse", "accept"},
             at : {"count", "store", "clear", "cool", "mail", "attempt",
                   "delete", "forget"},
             code : CodeIds \union {Nil} ]

CodesAssumption ==
    /\ Nil \notin CodeIds \union Request /\ IsFiniteSet(Requests)
    /\ {MaxAttempts, RateLimit, MaxTries} \subseteq Nat \ {0}

-----------------------------------------------------------------------------
Begin(r, op, at, c) ==
    req[r] = Nil /\ req' = [ req EXCEPT ![r] = [ op |-> op, at |-> at, code |-> c ] ]
Move(r, op, at) == req' = [ req EXCEPT ![r].op = op, ![r].at = at ]
Finish(r) == req' = [ req EXCEPT ![r] = Nil ]
At(r, at) == req[r] # Nil /\ req[r].at = at

\* INCR.  Counts above a limit are alike, and are one value here.
Counted(count, limit) == IF count > limit THEN count ELSE count + 1

-----------------------------------------------------------------------------
(* SendRegisterOTP and RequestReset *)

Send(r) ==
    /\ ~ cooldown
    /\ Begin(r, "send", "count", Nil)
    /\ UNCHANGED <<purpose, keys, counts>>

\* For an address without an account
SendRegisterOTP(r) == purpose = "register" /\ Send(r)

\* For the address of an account
ForgotPassword(r) == purpose = "reset" /\ Send(r)

Exceeds(count) == count > RateLimit

IncrementSendCount(r) ==
    /\ At(r, "count")
    /\ sends' = Counted(sends, RateLimit)
    /\ IF Exceeds(sends') THEN Finish(r) ELSE Move(r, "send", "store")
    /\ UNCHANGED <<purpose, stored, attempts, cooldown, counts>>

\* The one-time password is one key of the address, a token has a key of its own.
Store(r, c) ==
    /\ At(r, "store")
    /\ c \notin stored /\ \A other \in Requests : req[other] # Nil => req[other].code # c
    /\ stored' = IF purpose = "register" THEN {c} ELSE stored \union {c}
    /\ tries' = [ tries EXCEPT ![c] = 0 ]
    /\ req' = [ req EXCEPT ![r].code = c,
                           ![r].at = IF purpose = "register" THEN "clear" ELSE "cool" ]
    /\ UNCHANGED <<purpose, attempts, cooldown, sends, mails, failed>>

\* The code could not be stored: its request is not counted.
NotStored(r) ==
    /\ At(r, "store")
    /\ sends' = 0 /\ mails' = 0 /\ failed' = TRUE
    /\ Finish(r)
    /\ UNCHANGED <<purpose, stored, attempts, cooldown, tries>>

ResetAttempts(r) ==
    /\ At(r, "clear")
    /\ attempts' = 0
    /\ tries' = [ tries EXCEPT ![req[r].code] = 0 ]
    /\ Move(r, "send", "cool")
    /\ UNCHANGED <<purpose, stored, cooldown, sends, mails, failed>>

SetCooldown(r) ==
    /\ At(r, "cool")
    /\ cooldown' = TRUE
    /\ Move(r, "send", "mail")
    /\ UNCHANGED <<purpose, stored, attempts, sends, counts>>

Mail(r) ==
    /\ At(r, "mail")
    /\ mails' = IF sends = 0 THEN 0 ELSE mails + 1
    /\ Finish(r)
    /\ UNCHANGED <<purpose, keys, tries, failed>>

\* The cooldown could not be set, or the mail not sent: everything is undone.
Undo(r) ==
    /\ \/ At(r, "cool") /\ Move(r, "uncool", "delete") /\ failed' = TRUE
       \/ At(r, "mail") /\ Move(r, "undo", "delete") /\ UNCHANGED failed
    /\ UNCHANGED <<purpose, keys, tries, mails>>

-----------------------------------------------------------------------------
(* VerifyRegisterOTP and VerifyReset *)

\* Register, with a code: the stored one is read.
VerifyRegisterOTP(r, c) ==
    /\ purpose = "register" /\ c \in stored
    /\ Begin(r, "verify", "attempt", c)
    /\ UNCHANGED <<purpose, keys, counts>>

\* ResetPassword: a token is looked up by what was sent.
VerifyReset(r, c) ==
    /\ purpose = "reset" /\ c \in stored
    /\ Begin(r, "verify", "delete", c)
    /\ UNCHANGED <<purpose, keys, counts>>

\* Seeded fault: the last wrong attempt leaves the code.
SpentNever(count) == FALSE

SpentBy(count) == count >= MaxAttempts

\* The attempt is counted and, unless there were too many, compared with the
\* code read before.  A wrong one ends the request, or the code.
IncrementAttempts(r) ==
    LET count == Counted(attempts, MaxAttempts)
        c == req[r].code
    IN  /\ At(r, "attempt")
        /\ tries[c] < MaxTries
        /\ attempts' = count
        /\ IF count > MaxAttempts
           THEN Move(r, "refuse", "delete") /\ UNCHANGED tries
           ELSE /\ tries' = [ tries EXCEPT ![c] = @ + 1 ]
                /\ \/ Move(r, "accept", "delete")
                   \/ IF SpentBy(count) THEN Move(r, "refuse", "delete") ELSE Finish(r)
        /\ UNCHANGED <<purpose, stored, cooldown, sends, mails, failed>>

-----------------------------------------------------------------------------
(* The keys are deleted one by one: the code, then the counters. *)

\* What is deleted is the one-time password of the address, whichever it is by
\* now, or the token.  An error is ignored.
DeleteCode(r) ==
    /\ At(r, "delete")
    /\ \/ stored' = (IF purpose = "register" THEN {} ELSE stored \ {req[r].code})
          /\ UNCHANGED failed
       \/ failed' = TRUE /\ UNCHANGED stored
    /\ req' = [ req EXCEPT ![r].at = "forget" ]
    /\ UNCHANGED <<purpose, attempts, cooldown, sends, tries, mails>>

\* Attempts are forgotten, and unless there were too many, the requests as well
\* and the cooldown that was set.
Forget(r) ==
    /\ At(r, "forget")
    /\ attempts' = 0
    /\ IF req[r].op = "refuse" THEN UNCHANGED <<sends, mails>>
       ELSE sends' = 0 /\ mails' = 0
    /\ cooldown' = (cooldown /\ req[r].op \in {"refuse", "uncool"})
    /\ Finish(r)
    /\ UNCHANGED <<purpose, stored, tries, failed>>

\* A call fails, or the process dies.
Fail(r) ==
    /\ req[r] # Nil
    /\ failed' = TRUE
    /\ Finish(r)
    /\ UNCHANGED <<purpose, keys, tries, mails>>

\* A key lapses.  Attempts are counted from a time after the code was stored,
\* and lapse after it, by more than a request takes.
ExpireCode(c) ==
    /\ c \in stored
    /\ stored' = stored \ {c}
    /\ UNCHANGED <<purpose, attempts, cooldown, sends, counts, req>>

ExpireAttempts ==
    /\ stored = {} /\ attempts > 0
    /\ \A r \in Requests : ~ At(r, "attempt")
    /\ attempts' = 0
    /\ UNCHANGED <<purpose, stored, cooldown, sends, counts, req>>

ExpireCooldown ==
    /\ cooldown
    /\ cooldown' = FALSE
    /\ UNCHANGED <<purpose, stored, attempts, sends, counts, req>>

ExpireSends ==
    /\ sends > 0
    /\ sends' = 0 /\ mails' = 0
    /\ UNCHANGED <<purpose, stored, attempts, cooldown, tries, failed, req>>

-----------------------------------------------------------------------------
Init ==
    /\ purpose \in {"register", "reset"}
    /\ stored = {}
    /\ attempts = 0 /\ sends = 0 /\ mails = 0
    /\ cooldown = FALSE /\ failed = FALSE
    /\ tries = [ c \in CodeIds |-> 0 ]
    /\ req = [ r \in Requests |-> Nil ]

Next ==
    \/ \E r \in Requests :
         \/ SendRegisterOTP(r)
         \/ ForgotPassword(r)
         \/ IncrementSendCount(r)
         \/ \E c \in CodeIds : Store(r, c)
         \/ NotStored(r)
         \/ ResetAttempts(r)
         \/ SetCooldown(r)
         \/ Mail(r)
         \/ Undo(r)
         \/ \E c \in CodeIds : VerifyRegisterOTP(r, c)
         \/ \E c \in CodeIds : VerifyReset(r, c)
         \/ IncrementAttempts(r)
         \/ DeleteCode(r)
         \/ Forget(r)
         \/ Fail(r)
    \/ \E c \in CodeIds : ExpireCode(c)
    \/ ExpireAttempts
    \/ ExpireCooldown
    \/ ExpireSends

Spec == Init /\ [][Next]_vars

-----------------------------------------------------------------------------
(* Properties *)

\* Every variable has its type.
TypeOK ==
    /\ purpose \in {"register", "reset"}
    /\ stored \subseteq CodeIds
    /\ attempts \in Nat /\ sends \in Nat /\ mails \in Nat
    /\ cooldown \in BOOLEAN /\ failed \in BOOLEAN
    /\ tries \in [ CodeIds -> 0..MaxTries ]
    /\ req \in [ Requests -> Request \union {Nil} ]

Others == Cardinality(Requests) - 1

\* A try is counted in one call and acted on in others, and a request may act on
\* a code that has been replaced.  Yet while every call is answered a code is
\* compared at most MaxAttempts times for each request that runs at one time.
TriesBounded ==
    ~ failed => \A c \in CodeIds : tries[c] <= MaxAttempts * Cardinality(Requests)

\* In the same way, whatever fails, the mails sent before the counter of requests
\* lapses or is forgotten are as many as its limit, and those of the requests
\* that had been counted by an earlier one.
MailsBounded == mails <= RateLimit + Others

\* Neither guesses nor mails go on without end.
BothBounded == TriesBounded /\ MailsBounded
===============================================================================
