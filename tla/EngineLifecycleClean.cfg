CONSTANTS
    CONNECTORS = 2
    MAX_HISTORY_RECORDS = 2
    MayFail = FALSE
    InOrder = TRUE
    MaxEvents = 3
SPECIFICATION Spec
INVARIANT CleanTermination
CHECK_DEADLOCK FALSE
