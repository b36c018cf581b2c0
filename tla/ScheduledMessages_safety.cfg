SPECIFICATION Spec
CONSTANTS
    DayLength = 4
    Horizon = 9
    Offset <- NoShift
    Nil = Nil
    Invalid = Invalid
    Schedulers = {s1, s2}
    Editors = {e1}
    StartTimes = {1, 5}
    InitialRules = {"DAILY"}
    EditRules = {}
    InitialModes = {"AI"}
    EditModes = {}
    HasGenerator = TRUE
    MaxGenerations = 1
    MaxDeliveries = 2
    Lease = 3
    GeneratorTimeout = 1
    BridgeTimeout = 1
    GenerationBackoff = 1
    DeliveryBackoff = 1
    Prompt = FALSE
    DecidedBy = 0
    TickLag = 1
    MaxTime = 5
    MaxFaults = 1
    MaxEdits = 1
SYMMETRY Symmetry
INVARIANTS
    TypeOK
    OneOutstandingOccurrence
    ClaimedCopyIsCurrent
    AttemptsCoverSends
    LeaseOutlivesSend
    OneSenderAtATime
PROPERTIES
    SendsOnlyWhileLive
    HistoryIsFinal
CHECK_DEADLOCK FALSE
