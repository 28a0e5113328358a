CONSTANTS
    QUEUE_SIZE = 3
    Word = {w1, w2}
    Val = {v1, v2}
    InOrder = FALSE
SPECIFICATION Spec
INVARIANT NoTornEvent
