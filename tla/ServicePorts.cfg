SPECIFICATION Spec
CONSTANTS
    Instances = {i1}
    PortIds = {p1, p2}
    Threads = {t1, t2}
    Reconciler = Reconciler
    NoPort = NoPort
    Undated = {p2}
INVARIANTS
    TypeOK
    PortsWithinWidth
PROPERTIES
    PortsOfVmsKept
    OrphansReclaimed
