SPECIFICATION FairSpec
CONSTANTS
    Clients = {c1}
    Server = Server
    n1 = n1
    n2 = n2
    long = long
    Names = {n1, long}
    Stored <- MCStored
    NoName = NoName
    MAX_CLIENTS = 2
    TIMEOUT = 1
    PERIOD = 1
    MaxLines = 1
    MaxDuplicates = 1
    Lossy = TRUE
PROPERTY NoGhosts
