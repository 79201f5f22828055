SPECIFICATION Spec
CONSTANTS
    Instances = {i1, i2}
    Procs = {p1, p2}
    NoOne = NoOne
    MaxFaults = 3
INVARIANTS
    TypeOK
    PodHasClaim
PROPERTY
    SessionsServe
CHECK_DEADLOCK FALSE
