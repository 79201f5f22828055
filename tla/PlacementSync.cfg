SPECIFICATION Spec
CONSTANTS
    Syncs = {s1, s2}
    Pools = {gold, silver}
    Computes = {c1, c2}
    Shared = Shared
    Others = {other}
    Traits = {gpu, shares}
    NoProvider = NoProvider
    Backoff = 1
    MaxFaults = 2
INVARIANTS
    TypeOK
    SharedOnlyWhenWhole
    DoneMeansEnsured
    FailsOnlyWhenDisturbed
PROPERTIES
    ForeignAggregatesKept
    Completes
