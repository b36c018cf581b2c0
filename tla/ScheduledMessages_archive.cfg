SPECIFICATION Spec
CONSTANTS
    DayLength = 4
    Horizon = 9
    Offset <- NoShift
    Nil = Nil
    Invalid = Invalid
    Schedulers = {s1}
    Editors = {e1}
    StartTimes = {1, 5}
    InitialRules = {"DAILY"}
    EditRules = {}
    InitialModes = {"FIXED"}
    EditModes = {}
    HasGenerator = TRUE
    MaxGenerations = 2
    MaxDeliveries = 2
    Lease = 3
    GeneratorTimeout = 1
    BridgeTimeout = 1
    GenerationBackoff = 1
    DeliveryBackoff = 1
    Prompt = FALSE
    DecidedBy = 0
    TickLag = 0
    MaxTime = 5
    MaxFaults = 1
    MaxEdits = 0
PROPERTIES
    InvalidTargetIsCancelled
CHECK_DEADLOCK FALSE
