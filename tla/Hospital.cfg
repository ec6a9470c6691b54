SPECIFICATION FairSpec
CONSTANTS
    Crowds = {{p1, p2, p3}, {p1, p2, p3, p4}}
    Pharmacists = {f1, f2}
    Doctor = Doctor
    GroupSize = 2
    APTEKA_CAPACITY = 3
INVARIANTS CountersOK NoLostWakeup NobodyForgotten ConsultedOnce
PROPERTY RunsEnd
CHECK_DEADLOCK FALSE
