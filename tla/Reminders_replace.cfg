\* One process delivers while two creations of the same key and a deletion race.
SPECIFICATION Spec
CONSTANTS
    Nil = Nil
    Processes = {p1}
    Creators = {u1, u2}
    Deleters = {d1}
    Ids = {a, b, c}
    Keyed = {a, b, c}
    Undeliverable = {}
    Times = {1, 2}
    BatchSize = 2
    Lease = 1
    TickLag = 1
    Prompt = TRUE
    MaxTime = 2
    MaxFaults = 1
    FaultsUntil = 3
    MaxEdits = 1
PROPERTY LatestWins
CHECK_DEADLOCK FALSE
SYMMETRY Symmetry
