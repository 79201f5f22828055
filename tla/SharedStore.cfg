SPECIFICATION Spec
CONSTANTS
    pa = pa
    gpu = gpu
    Procs = {p1, p2}
    NoOne = NoOne
    StoreFails = TRUE
    Asks = TRUE
    Instances = {u1}
    Projects = {pa}
    Profiles = {gpu}
    ProjectOf <- MCProjectOf
    ProfileOf <- MCProfileOf
    Limit <- MCLimit
    Inventory <- MCInventory
    Tokens = {t1, t2, t3, t4, t5}
    NoToken = NoToken
    NoSession = NoSession
    MaxGeneration = 3
SYMMETRY Symmetry
INVARIANTS
    TypeOK
    RowsAreWhole
    UnracedCredentialAgreement
    UnracedAnswersNotAhead
PROPERTY
    UnracedStepsLegal
