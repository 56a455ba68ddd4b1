CONSTANTS
    t1 = t1
    t2 = t2
    Thread = {t1, t2}
    CAPACITY = 2
    CHANNEL_CAPACITY = 2
    MAX_TAIL = 3
    MaxLines = 3
SPECIFICATION Spec
INVARIANTS TypeOK LostOnlyBetween ThreadOrder
PROPERTIES CatchesUp
CHECK_DEADLOCK FALSE
