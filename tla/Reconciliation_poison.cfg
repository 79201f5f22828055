SPECIFICATION Spec
CONSTANTS
    Instances = {1, 2}
    Unbound = {1}
    MaxFaults = 0
PROPERTIES
    GoneSessionsEnd
