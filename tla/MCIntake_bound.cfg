SPECIFICATION Spec
CONSTANTS
    v1 = v1
    mixed = mixed
    v2 = v2
    bulky = bulky
    heavy = heavy
    linked = linked
    torn = torn
    NoCommit = NoCommit
    NoProfile = NoProfile
    Commits = {v1, v2}
    Tree <- MCTree
    Weight <- MCWeight
    Corrupt = {}
    MaxRetries = 0
    MaxCompressed = 2
    MaxExtracted = 3
    MaxFiles = 3
    MaxDepth = 2
    MaxSingle = 3
    Attempts = 1
    Installations <- MCInstallations
    Requests <- MCRequests
INVARIANTS
    LowerBoundDecides
CHECK_DEADLOCK FALSE
