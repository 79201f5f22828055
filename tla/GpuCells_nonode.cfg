SPECIFICATION Spec
CONSTANTS
    Instances = {i1}
    Procs = {p1}
    NoOne = NoOne
    MaxFaults = 0
PROPERTY
    NeverReadyWithoutNode
CHECK_DEADLOCK FALSE
