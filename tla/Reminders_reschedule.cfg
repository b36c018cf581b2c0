\* A change of the time while the reminder is being sent.
SPECIFICATION Spec
CONSTANTS
    Nil = Nil
    Processes = {p1}
    Creators = {}
    Deleters = {}
    Ids = {a}
    Keyed = {}
    Undeliverable = {}
    Times = {1, 3}
    BatchSize = 1
    Lease = 1
    TickLag = 0
    Prompt = TRUE
    MaxTime = 3
    MaxFaults = 0
    FaultsUntil = 0
    MaxEdits = 1
INVARIANT SentWasDue
CHECK_DEADLOCK FALSE
