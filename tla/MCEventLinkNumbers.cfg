CONSTANTS
    MAX_VARS_PER_EVENT = 3
    UINT32 = 64
    Kinds = {"double", "int"}
    MaxVars = 2
    Messages <- MCMessages
SPECIFICATION Spec
INVARIANT ReadingsSurvive
CHECK_DEADLOCK FALSE
