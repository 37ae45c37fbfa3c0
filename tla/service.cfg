SPECIFICATION FairSpec
CONSTANTS
    SOCK_MAX = 2
    HAVE_SHM = {0, 1}
    RX_ATTEMPTS = 2
    CONNECT_ATTEMPTS = 2
    SendOps = {"Send", "SendLong"}
    MAX_ARMED = 2
    MAX_CONNS = 1
    MAX_SEGS = 1
    MAX_WIRE = 1
CHECK_DEADLOCK FALSE
INVARIANTS OneReply ReadyAnnounced
PROPERTY RequestAnswered
