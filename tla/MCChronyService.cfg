CONSTANTS
    Value = {"a", "b"}
    Text = {"", "driftfile", "rtcsync"}
    Files <- MCFiles
    MaxFields = 2
    MaxRequests = 2
SPECIFICATION Spec
INVARIANTS TypeOK PatchesAddUp UpdateIsIdempotent CompletePatchHolds
CHECK_DEADLOCK FALSE
