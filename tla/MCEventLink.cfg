CONSTANTS
    MAX_VARS_PER_EVENT = 3
    UINT32 = 64
    Kinds = {"float", "int", "double"}
    MaxVars = 7
    Messages <- MCMessages
SPECIFICATION Spec
INVARIANTS TypeOK BatchesCoverMessage WhatArrivedIsKept NothingInvented ParentSeesTheSame
CHECK_DEADLOCK FALSE
