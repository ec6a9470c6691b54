SPECIFICATION KillSpec
CONSTANTS
    Users = {u1, u2}
    Printers = {p1, p2}
    QUEUE_SIZE = 3
    Jobs = {ja}
    NoJob = NoJob
SYMMETRY Symmetry
INVARIANTS MutualExclusion
PROPERTIES TokensOnlyLost LostMutexStaysLost
