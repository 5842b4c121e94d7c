SPECIFICATION FairSpec
CONSTANTS
    j1 = j1
    j2 = j2
    j3 = j3
    NoJob = NoJob
    Users = {1, 2}
    Jobs = {j1, j2}
    Workers = {w1, w2}
    Owner <- MCOwnerSame
    MaxAttempts = 2
    Recurring = {}
    Crashes = 1
    ReplyLoss = FALSE
PROPERTIES
    ImplementsLifecycle
    FinishesUnlessStranded
CHECK_DEADLOCK FALSE
