CONSTANTS
    QUEUE_SIZE = 3
    MAX_TWINS = 3
    MAX_VARS_PER_TWINS = 2
    MAX_VARS_PER_EVENT = 2
    UINT32 = 65536
    CONNECTORS = 2
    SNDHWM = 1
    MaxMessages = 3
    UserRules <- MCRules
    Messages <- MCMessages
SPECIFICATION Spec
INVARIANTS TypeOK MemoryIsLatest NotificationsInOrder UserQueueKeepsOldest ConnectorInitialised
PROPERTIES ImplementsRelay ShutdownCompletes AcceptedIsDispatched NotificationsArrive
CHECK_DEADLOCK FALSE
