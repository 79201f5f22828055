SPECIFICATION Spec
CONSTANTS
    pa = pa
    gpu = gpu
    Procs = {p1, p2}
    NoOne = NoOne
    StoreFails = FALSE
    Asks = FALSE
    Instances = {u1, u2, u3}
    Projects = {pa}
    Profiles = {gpu}
    ProjectOf <- MCProjectOf
    ProfileOf <- MCProfileOf
    Limit <- MCLimit
    Inventory <- MCInventory
    Tokens = {t1}
    NoToken = NoToken
    NoSession = NoSession
    MaxGeneration = 1
SYMMETRY Symmetry
INVARIANT UnracedQuota
