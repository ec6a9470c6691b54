SPECIFICATION FairSpec
CONSTANTS
    Procs = {p1, p2}
    Keys = {k1, k2}
    MAX_CLIENTS = 2
    QueueCap = 1
    Privileged = TRUE
    MaxLines = 2
    MaxRestarts = 1
INVARIANTS TableOK DeliversDue
PROPERTIES ServerReturns WaitsForReason
CHECK_DEADLOCK FALSE
