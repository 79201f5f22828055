SPECIFICATION Spec
CONSTANTS
    Instances = {1, 2}
    Unbound = {}
    MaxFaults = 1
INVARIANT
    TypeOK
PROPERTIES
    OnlyGoneVmsDeleted
    GoneSessionsEnd
    ActiveVmsServed
