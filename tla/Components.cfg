\* Two requests of every kind at a time; what is bounded and why is in the README.
SPECIFICATION PartsSpec
CONSTANTS
    Nil = Nil
    Requests = {r1, r2}
    MaxPairs = 3
    MaxDeletions = 1
    Externals = {whatsapp, telegram}
    Telegram = telegram
    Phones = {phone1, phone2}
    FirstPhone = phone1
    PhoneOf <- SamePhone
    Users = {1, 2}
    Codes = {1}
    CodeIds = {c1, c2}
    MaxAttempts = 2
    RateLimit = 1
    MaxTries = 5
    Processes = {p1, p2}
    Jobs = {j1, j2}
    Lists = {1}
    Versions = {1, 2}
    Readers = {q1}
    MaxFaults = 1
    DayLength = 6
    Horizon = 210
    Invalid = Invalid
    FirstStarts = {0, 1, 2, 3, 4, 5, 9, 15}
    LastAfter = 75
    MaxML = 2
    Subjects = {s1, s2}
SYMMETRY Symmetry
INVARIANTS
    TypesOK
    RenewedOnce
    VerifiedMeansProven
    BothBounded
    CacheFollowsTable
    NobodyWaitsInVain
    SearchIsRight
    FeedingsAddUp
PROPERTIES
    EndedForGood
    LinksLeadToOneAccount
CHECK_DEADLOCK FALSE
