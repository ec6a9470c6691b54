SPECIFICATION Spec
CONSTANTS
    Conns = {c1, c2, c3}
    NoConn = NoConn
    Names = {n1, n2, n3}
    NoName = NoName
    MAX_CLIENTS = 2
    TIMEOUT = 1
    PERIOD = 1
    MaxMessages = 2
SYMMETRY Symmetry
INVARIANT PrivateReachesNamed
CHECK_DEADLOCK FALSE
