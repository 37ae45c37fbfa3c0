SPECIFICATION FairSpec
CONSTANTS
    RING_CAP = 3
    SC1 <- Table
    Scancodes = {0, 1, 2, 3}
    BUF_LEN = 2
    MAX_KEYS = 1
    Procs = {p0}
    LOG_BUF_CAP = 2
    MAX_WROTE = 3
CHECK_DEADLOCK FALSE
INVARIANTS HandlerNeverSpins LogIsTail
PROPERTIES QueueSpec ReadReturns
