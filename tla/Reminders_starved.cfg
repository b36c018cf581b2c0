\* As many reminders without a target as fit in a batch, and one with a target.
SPECIFICATION FairSpec
CONSTANTS
    Nil = Nil
    Processes = {p1}
    Creators = {}
    Deleters = {}
    Ids = {a, b}
    Keyed = {}
    Undeliverable = {b}
    Times = {1, 2}
    BatchSize = 1
    Lease = 1
    TickLag = 0
    Prompt = TRUE
    MaxTime = 3
    MaxFaults = 0
    FaultsUntil = 0
    MaxEdits = 0
PROPERTY DueIsNotified
CHECK_DEADLOCK FALSE
