CONSTANTS
    MAX_VARS_PER_EVENT = 2
    UINT32 = 65536
    Host = {"rbpi5-2", "rbpi5-4", "laptop"}
    pruebas <- MCPruebas
    HWM = 1
    MAX_MSGS = 2
    LOG_SIZE = 3
SPECIFICATION Spec
INVARIANTS TypeOK SamplesInOrder SamplesAccountedFor CsvKeepsMessages
           DumpInBounds
PROPERTIES DevicesFinish NodesSave
CHECK_DEADLOCK FALSE
