SPECIFICATION FairSpec
CONSTANTS
    Clients = {c1}
    Server = Server
    n1 = n1
    n2 = n2
    long = long
    Names = {n1}
    Stored <- MCStored
    NoName = NoName
    MAX_CLIENTS = 1
    TIMEOUT = 2
    PERIOD = 1
    MaxLines = 0
    MaxDuplicates = 0
    Lossy = FALSE
PROPERTY QuitEnds
