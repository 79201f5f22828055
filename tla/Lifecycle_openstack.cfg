SPECIFICATION Spec
CONSTANTS
    a1 = a1
    a2 = a2
    b1 = b1
    pa = pa
    pb = pb
    gpu = gpu
    Instances = {a1, a2}
    Projects = {pa}
    Profiles = {gpu}
    ProjectOf <- PairProjectOf
    ProfileOf <- PairProfileOf
    Limit <- OneLimit
    Inventory <- MCInventory
    Tokens = {t1, t2, t3, t4}
    NoToken = NoToken
    NoSession = NoSession
    MaxGeneration = 3
    OpenStackMode = TRUE
    HasRefresh = TRUE
SYMMETRY Symmetry
INVARIANTS
    CredentialAgreement
    QuotaRespected
    LeftoverIsOlder
PROPERTIES
    NoForgottenCredential
    ImplementsContract
    TokenStable
