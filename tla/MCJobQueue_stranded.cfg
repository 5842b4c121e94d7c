SPECIFICATION Spec
CONSTANTS
    j1 = j1
    j2 = j2
    j3 = j3
    NoJob = NoJob
    Users = {1, 2}
    Jobs = {j1, j2}
    Workers = {w1}
    Owner <- MCOwnerSame
    MaxAttempts = 2
    Recurring = {}
    Crashes = 0
    ReplyLoss = FALSE
INVARIANT BacklogIsFound
CHECK_DEADLOCK FALSE
