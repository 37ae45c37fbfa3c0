SPECIFICATION Spec
CONSTANTS
    CAP_SLOTS = 7
    DMA_BUDGET = 2
    Regions <- TwoRegions
    NUM_PROCS = 2
    MAX_PAGES = 2
    DMA_PAGES = 2
    SHARED_PAGES = 2
    HEAP_PAGES = 2
    PT_SPAN = 3
    OutOk = {TRUE, FALSE}
    SrcArgs = {2, 6}
    DstArgs = {6}
    Delegating = TRUE
INVARIANTS TypeOK FramesConserved BudgetConserved FrameCapsLive HandedOutStays
CHECK_DEADLOCK FALSE
