SPECIFICATION FairSpec
CONSTANTS
    DayLength = 10
    Horizon = 23
    Offset <- NoShift
    Nil = Nil
    Invalid = Invalid
    Schedulers = {s1}
    Editors = {e1}
    StartTimes = {1}
    InitialRules = {"ONCE", "DAILY"}
    EditRules = {}
    InitialModes = {"FIXED", "AI"}
    EditModes = {}
    HasGenerator = TRUE
    MaxGenerations = 2
    MaxDeliveries = 2
    Lease = 3
    GeneratorTimeout = 1
    BridgeTimeout = 1
    GenerationBackoff = 1
    DeliveryBackoff = 1
    Prompt = TRUE
    DecidedBy = 1
    TickLag = 0
    MaxTime = 13
    MaxFaults = 1
    MaxEdits = 0
INVARIANTS
    SkippedAfterWholeBudget
PROPERTIES
    DueIsDecided
CHECK_DEADLOCK FALSE
