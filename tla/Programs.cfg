SPECIFICATION ProgramsSpec
CONSTANTS
    totThreads = 4
    r1 = r1
    r2 = r2
    Runs <- MCRuns
    NoRun = NoRun
    Lines = 1
    s1 = s1
    s2 = s2
    d1 = d1
    d2 = d2
    Senders <- MCSenders
    Receivers <- MCReceivers
    Nobody = Nobody
    Zero = Zero
    a = a
    b = b
    Shooters <- MCShooters
    NoSignal = NoSignal
    MaxSent = 2
    MaxThreads = 4
    MaxIntervals = 9
    MaxLong = 31
    Asked <- MCAsked
    Limits <- MCLimits
INVARIANTS ThreadsCounted ReaperNotMissed SameOrder HandedOver
INVARIANTS ModesKept EveryPieceOnce SequenceRight
PROPERTIES AllJoined RunsComplete ReceiverEnds PauseExplained
CHECK_DEADLOCK FALSE
