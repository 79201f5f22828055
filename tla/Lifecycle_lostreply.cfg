SPECIFICATION Spec
CONSTANTS
    a1 = a1
    a2 = a2
    b1 = b1
    pa = pa
    pb = pb
    gpu = gpu
    Instances = {a1}
    Projects = {pa}
    Profiles = {gpu}
    ProjectOf <- OneProjectOf
    ProfileOf <- OneProfileOf
    Limit <- OneLimit
    Inventory <- MCInventory
    Tokens = {t1, t2, t3}
    NoToken = NoToken
    NoSession = NoSession
    MaxGeneration = 1
    OpenStackMode = FALSE
    HasRefresh = FALSE
INVARIANT DeletedLeavesNoSession
