SPECIFICATION Spec
CONSTANTS
    a = a
    b = b
    gold = gold
    silver = silver
    whole = whole
    half = half
    Instances = {a, b}
    Offerings = {gold, silver}
    CellProfiles = {whole, half}
    OfferingOf <- MCOfferingOf
    Contents <- MCContents
    Reconciler = reconciler
    Frontends = {adapter}
    NotRunning = NotRunning
    MaxChanges = 3
INVARIANTS
    TypeOK
    AdmittedCanBeCreated
PROPERTIES
    StartedOnceOffered
    GoneSessionsEndAnyway
CHECK_DEADLOCK FALSE
