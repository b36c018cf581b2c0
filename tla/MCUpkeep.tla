------------------------------- MODULE MCUpkeep -------------------------------
(* Components that keep no state in common and must get somewhere in the end, for
   TLC: it picks one and explores all that one does.                           *)
EXTENDS Access, TLC

CONSTANTS
    RateLimit, LoginLimit   \* of Limiters

VARIABLES
    part,
    current, lapsing, attempts, blocked, guesses, logins, failed

Li == INSTANCE Limiters WITH req <- logins

ASSUME LimitersBounds == Li!LimitersAssumption

ofLi == <<current, lapsing, attempts, blocked, guesses, logins, failed>>

\* Access when it was not picked: nothing fairness speaks of is enabled.
Off ==
    /\ roleOf = SuperAdmin /\ roles = [ role \in Roles |-> "none" ]
    /\ perms = [ p \in Perms |-> "none" ] /\ granted = [ role \in Roles |-> {} ]
    /\ token = Nil /\ cache = Nil /\ req = [ r \in Requests |-> Nil ]
    /\ changes = 0 /\ overtaken = FALSE

PartsInit ==
    \/ part = "access" /\ Init /\ Li!Init
    \/ part = "limiters" /\ Off /\ Li!Init

PartsNext ==
    \/ part = "access" /\ Next /\ UNCHANGED <<part, ofLi>>
    \/ part = "limiters" /\ Li!Next /\ UNCHANGED <<part, vars>>

PartsSpec ==
    PartsInit /\ [][PartsNext]_<<part, vars, ofLi>> /\ Fairness /\ Li!Fairness

-----------------------------------------------------------------------------

TypesOK ==
    /\ part = "access" => TypeOK
    /\ part = "limiters" => Li!TypeOK

GuessesBounded == Li!GuessesBounded
RefusedForATime == Li!RefusedForATime
===============================================================================
