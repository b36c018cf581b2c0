\* Two requests at a time.
SPECIFICATION PartsSpec
CONSTANTS
    Nil = Nil
    Requests = {r1, r2}
    Roles = {superadmin, viewer, custom}
    SuperAdmin = superadmin
    System = {superadmin, viewer}
    Perms = {p, q}
    MaxChanges = 2
    RateLimit = 2
    LoginLimit = 2
INVARIANTS
    TypesOK
    CacheIsCurrent
    GuessesBounded
PROPERTIES
    EntitledInTheEnd
    RefusedForATime
CHECK_DEADLOCK FALSE
