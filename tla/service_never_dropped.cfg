SPECIFICATION Spec
CONSTANTS
    SOCK_MAX = 2
    HAVE_SHM = {0, 1}
    RX_ATTEMPTS = 2
    CONNECT_ATTEMPTS = 2
    SendOps = {"Send"}
    MAX_ARMED = 2
    MAX_CONNS = 1
    MAX_SEGS = 2
    MAX_WIRE = 2
CHECK_DEADLOCK FALSE
PROPERTY NeverDropped
