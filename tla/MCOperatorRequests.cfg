CONSTANTS
    Operators = {o1, o2}
    Procs = {p1, p2}
    Keys = {k1}
    Limit = 2
    MaxTx = 3
SYMMETRY Symmetry
SPECIFICATION Spec
INVARIANTS
    AnsweredIfPermitted
    ReadsRecorded
    ListingComplete
PROPERTY
    CreatorPermitted
