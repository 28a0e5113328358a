CONSTANTS
    Value = {"a", "b"}
    Text = {"", "driftfile", "rtcsync"}
    Files <- MCFiles
    MaxFields = 2
    MaxRequests = 2
SPECIFICATION Spec
INVARIANT SuccessMeansWritten
CHECK_DEADLOCK FALSE
