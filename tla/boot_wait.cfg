SPECIFICATION BootFairSpec
CONSTANTS
    CAP_SLOTS = 13
    DMA_BUDGET = 1
    MAX_PROCS = 6
    MAX_QUEUE = 2
    NUM_ENDPOINTS = 2
    NUM_NOTIFICATIONS = 1
    Words <- BootWords
    Bits <- AllBits
    Codes = {0, 1, 15}
    ObjArgs <- NoArgs
    SrcArgs <- NoArgs
    DstArgs <- NoArgs
    Pages <- NoArgs
    Frames <- NoArgs
    Socks = {0}
    FILES = 1
    TRIES = 1
    YIELDS = 1
    ROUNDS = 1
    NET_SOCK_BIT = 2
CHECK_DEADLOCK FALSE
PROPERTY ReadyWaitReturns
