SPECIFICATION FairSpec
CONSTANTS
    Users = {u1, u2}
    Printers = {p1, p2}
    QUEUE_SIZE = 2
    Jobs = {ja, jb}
    NoJob = NoJob
INVARIANTS TypeOK TokenConservation
PROPERTIES ImplementsFifo EveryJobPrinted
