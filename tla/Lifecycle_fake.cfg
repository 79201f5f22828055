SPECIFICATION Spec
CONSTANTS
    a1 = a1
    a2 = a2
    b1 = b1
    pa = pa
    pb = pb
    gpu = gpu
    Instances = {a1, a2, b1}
    Projects = {pa, pb}
    Profiles = {gpu}
    ProjectOf <- MCProjectOf
    ProfileOf <- MCProfileOf
    Limit <- MCLimit
    Inventory <- MCScarce
    Tokens = {t1, t2, t3}
    NoToken = NoToken
    NoSession = NoSession
    MaxGeneration = 2
    OpenStackMode = FALSE
    HasRefresh = FALSE
SYMMETRY Symmetry
INVARIANTS
    TypeOK
    CapacityRespected
    ReservationsMatchSessions
PROPERTY
    ManagerSessionsRecorded
