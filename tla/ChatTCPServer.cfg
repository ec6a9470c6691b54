SPECIFICATION Spec
CONSTANTS
    Conns = {c1, c2, c3}
    NoConn = NoConn
    Names = {n1, n2}
    NoName = NoName
    MAX_CLIENTS = 2
    TIMEOUT = 1
    PERIOD = 1
    MaxMessages = 1
SYMMETRY Symmetry
INVARIANTS TableOK DescriptorsAccounted HandlerOwnsSlot
CHECK_DEADLOCK FALSE
