SPECIFICATION Spec
CONSTANTS
    CAP_SLOTS = 7
    DMA_BUDGET = 1
    MAX_PROCS = 3
    MAX_QUEUE = 1
    NUM_ENDPOINTS = 2
    NUM_NOTIFICATIONS = 1
    Words = {w}
    Bits = {b}
    Codes = {0}
    ObjArgs = {3, 5}
    SrcArgs = {2, 6}
    DstArgs <- Dst
    Pages = {1}
    Frames = {0}
VIEW View
CHECK_DEADLOCK FALSE
INVARIANTS
    TypeOK
    NoLostWakeup
    ParkedInItsLoop
    CpuNeverParked
    HandlesNameSpawned
    HandlelessUntouchable
PROPERTIES
    NoAmbientAuthority
    AuthorityNotForged
    EndedStaysEnded
