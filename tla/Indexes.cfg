SPECIFICATION PartsSpec
CONSTANTS
    Rows = {r1, r2}
    Requests = {q1}
    Worker = Worker
    Nil = Nil
    MaxFaults = 2
    Processes = {p1}
    Ids = {a, b}
    Times = {1, 2}
    MaxEdits = 2
    MaxFaultsOfReminders = 1
INVARIANTS
    TypesOK
PROPERTIES
    ReconciledIndexIsExact
    DueRowsAreClaimed
    TrustReturns
    QuietReconciliationIsExact
    OverdueIsDealtWith
CHECK_DEADLOCK FALSE
