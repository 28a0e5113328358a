CONSTANTS
    QUEUE_SIZE = 3
    MAX_TWINS = 2
    MAX_VARS_PER_TWINS = 2
    MAX_VARS_PER_EVENT = 2
    UINT32 = 65536
    CONNECTORS = 2
    SNDHWM = 1
    MaxMessages = 2
    UserRules <- MCOneRule
    Messages <- MCErrorMessages
SPECIFICATION Spec
INVARIANT HaltStopsEngine
CHECK_DEADLOCK FALSE
