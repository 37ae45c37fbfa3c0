SPECIFICATION FairSpec
CONSTANTS
    Images <- MCImages
    FrameCounts = {3, 9, 18}
    PAGE = 2
    WORD = 64
    PT_SPAN = 4
    USER_STACK_VA = 8
    USER_STACK_PAGES = 2
    HEAP_START = 14
    HEAP_MAX = 18
    USER_ADDR_MAX = 20
    MAX_PROCS = 3
    EnvArgs <- MCEnvArgs
    Stores = {9}
    Byte = {0, 1, 2}
    JUNK = 2
CHECK_DEADLOCK FALSE
INVARIANTS LoadedAsLinked RightsAsLinked FramesUnshared HeapStartsFree
PROPERTIES SpawnIsolated SpawnReturns
