SPECIFICATION ServerSpec
CONSTANTS
    Clients = {c1, c2, c3}
    Server = Server
    n1 = n1
    n2 = n2
    long = long
    Names = {n1, n2, long}
    Stored <- MCStored
    NoName = NoName
    MAX_CLIENTS = 2
    TIMEOUT = 1
    PERIOD = 1
    MaxLines = 0
    MaxDuplicates = 0
    Lossy = FALSE
SYMMETRY Symmetry
INVARIANTS TypeOK CountMatches UniqueNames
PROPERTIES PrivateReachesNamed RemovedForCause
