----------------------------- MODULE MCComponents -----------------------------
(* Components that keep no state in common, for TLC: it picks one, explores all
   that one does, and leaves the others where they start.                    *)
EXTENDS Accounts, TLC

CONSTANTS
    Externals, Phones, PhoneOf, Users, Codes,   \* of Identity
    CodeIds, MaxAttempts, RateLimit, MaxTries,  \* of Codes
    Processes, Jobs, Lists, Versions, Readers, MaxFaults,   \* of LocationSync
    DayLength, Horizon, Invalid, FirstStarts, LastAfter,    \* of Recurrence
    MaxML, Subjects,                            \* of Feedings
    Telegram, FirstPhone

VARIABLES
    part,
    account, proven, links, codes, reqOfIdentity,
    purpose, stored, attempts, cooldown, sends, tries, mails, failed, reqOfCodes,
    job, worker, up, syncing, catalogue, cache, read, faults, stuck, overtaken,
    rule, start, after,
    activity, written, strayed

\* Everyone writes from the same phone, or from Telegram.
SamePhone == [ x \in Externals |-> IF x = Telegram THEN Nil ELSE FirstPhone ]

\* Clocks jump forward at 42 and back at 65, there across midnight.
Zone == [ t \in 0..Horizon |-> IF t \in 42..64 THEN 2 ELSE 0 ]

Id == INSTANCE Identity WITH req <- reqOfIdentity
Cd == INSTANCE Codes WITH req <- reqOfCodes
Loc == INSTANCE LocationSync WITH Requests <- Readers, req <- read, table <- catalogue
Cal == INSTANCE MCRecurrence WITH Offset <- Zone
Fd == INSTANCE Feedings

ASSUME IdentityBounds == Id!IdentityAssumption
ASSUME CodesBounds == Cd!CodesAssumption
ASSUME LocationBounds == Loc!LocationAssumption
ASSUME FeedingBounds == Fd!FeedingsAssumption
ASSUME CalendarBounds == Cal!CalendarAssumption /\ Cal!SearchAssumption

ofId == <<account, proven, links, codes, reqOfIdentity>>
ofCd == <<purpose, stored, attempts, cooldown, sends, tries, mails, failed, reqOfCodes>>
ofLoc == <<job, worker, up, syncing, catalogue, cache, read, faults, stuck, overtaken>>
ofCal == <<rule, start, after>>
ofFd == <<activity, written, strayed>>

Symmetry ==
    Permutations(Requests) \union Permutations(CodeIds)
        \union Permutations(Processes) \union Permutations(Jobs)

PartsInit ==
    /\ part \in {"accounts", "identity", "codes", "locations", "calendar",
                "feedings"}
    /\ Init /\ Id!Init /\ Cd!Init /\ Loc!Init /\ Cal!Init /\ Fd!Init
    /\ part # "codes" => purpose = "register"
    /\ part # "locations" => catalogue = [ list \in Lists |-> 0 ]
    /\ part # "calendar" => rule = "DAILY" /\ start = 0

PartsNext ==
    \/ part = "accounts" /\ Next /\ UNCHANGED <<part, ofId, ofCd, ofLoc, ofCal, ofFd>>
    \/ part = "identity" /\ Id!Next /\ UNCHANGED <<part, vars, ofCd, ofLoc, ofCal, ofFd>>
    \/ part = "codes" /\ Cd!Next /\ UNCHANGED <<part, vars, ofId, ofLoc, ofCal, ofFd>>
    \/ part = "locations" /\ Loc!Next /\ UNCHANGED <<part, vars, ofId, ofCd, ofCal, ofFd>>
    \/ part = "calendar" /\ Cal!Next /\ UNCHANGED <<part, vars, ofId, ofCd, ofLoc, ofFd>>
    \/ part = "feedings" /\ Fd!Next /\ UNCHANGED <<part, vars, ofId, ofCd, ofLoc, ofCal>>

PartsSpec == PartsInit /\ [][PartsNext]_<<part, vars, ofId, ofCd, ofLoc, ofCal, ofFd>>

-----------------------------------------------------------------------------

TypesOK ==
    /\ part = "accounts" => TypeOK
    /\ part = "identity" => Id!TypeOK
    /\ part = "codes" => Cd!TypeOK
    /\ part = "locations" => Loc!TypeOK
    /\ part = "feedings" => Fd!TypeOK

VerifiedMeansProven == Id!VerifiedMeansProven
LinksLeadToOneAccount == Id!LinksLeadToOneAccount
BothBounded == Cd!BothBounded
CacheFollowsTable == Loc!CacheFollowsTable
NobodyWaitsInVain == Loc!NobodyWaitsInVain
SearchIsRight == part = "calendar" => Cal!SearchIsRight
FeedingsAddUp == Fd!FeedingsAddUp
===============================================================================
