SPECIFICATION FairSpec
CONSTANTS
    v1 = v1
    mixed = mixed
    v2 = v2
    bulky = bulky
    heavy = heavy
    linked = linked
    torn = torn
    NoCommit = NoCommit
    NoProfile = NoProfile
    Commits = {v1, mixed, v2, bulky, heavy, linked, torn}
    Tree <- MCTree
    Weight <- MCWeight
    Corrupt = {torn}
    MaxRetries = 1
    MaxCompressed = 1
    MaxExtracted = 3
    MaxFiles = 3
    MaxDepth = 2
    MaxSingle = 3
    Attempts = 2
    Installations <- MCInstallations
    Requests <- MCRequests
INVARIANTS
    IntakeTypeOK
    ChecksPrecedeWrites
    MigratedStaysOut
    BestIsSelected
    DependenciesAgree
PROPERTIES
    ImplementsGates
    IntakeEnds
CHECK_DEADLOCK FALSE
