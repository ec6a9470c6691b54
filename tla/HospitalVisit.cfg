SPECIFICATION Spec
CONSTANTS
    Crowds = {{p1, p2, p3, p4, p5, p6}}
    Pharmacists = {f1}
    Doctor = Doctor
    GroupSize = 3
    APTEKA_CAPACITY = 6
SYMMETRY Symmetry
INVARIANT VisitIncludesConsultation
CHECK_DEADLOCK FALSE
