CONSTANTS
    CONNECTORS = 2
    MAX_HISTORY_RECORDS = 2
    MayFail = TRUE
    InOrder = TRUE
    MaxEvents = 3
SPECIFICATION Spec
INVARIANTS TypeOK OnlyLastRowTorn
PROPERTY ProcessEnds
CHECK_DEADLOCK FALSE
