SPECIFICATION FairSpec
CONSTANTS
    Catalogues <- Small
    Requests <- Asked
    SECTOR = 2
    PAGE_BYTES = 4
    DIR_ENTRIES = 2
    TOTAL_SECTORS = 6
    SEQ_WRAP = 4
    MAX_STALE = 2
CHECK_DEADLOCK FALSE
INVARIANTS NoOverlap
PROPERTIES DiskFrozen StoreSpec RequestServed
