\* Two processes deliver two reminders, one of which has no target, while a
\* deletion, a change and completions go on.
SPECIFICATION FairSpec
CONSTANTS
    Nil = Nil
    Processes = {p1, p2}
    Creators = {}
    Deleters = {d1}
    Ids = {a, b}
    Keyed = {}
    Undeliverable = {b}
    Times = {1, 2}
    BatchSize = 2
    Lease = 1
    TickLag = 1
    Prompt = TRUE
    MaxTime = 4
    MaxFaults = 1
    FaultsUntil = 2
    MaxEdits = 1
INVARIANTS TypeOK RepeatsNeedFaults
PROPERTIES HistoryMovesForward DueIsNotified
CHECK_DEADLOCK FALSE
