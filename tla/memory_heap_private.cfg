SPECIFICATION Spec
CONSTANTS
    CAP_SLOTS = 7
    DMA_BUDGET = 3
    Regions <- TwoRegions
    NUM_PROCS = 2
    MAX_PAGES = 2
    DMA_PAGES = 2
    SHARED_PAGES = 3
    HEAP_PAGES = 2
    PT_SPAN = 3
    OutOk = {TRUE, FALSE}
    SrcArgs = {2, 6}
    DstArgs = {6}
    Delegating = FALSE
INVARIANTS HeapPrivate
CHECK_DEADLOCK FALSE
