SPECIFICATION Spec
CONSTANTS
    j1 = j1
    j2 = j2
    j3 = j3
    NoJob = NoJob
    Users = {1, 2}
    Jobs = {j1, j2, j3}
    Workers = {w1, w2}
    Owner <- MCOwner
    MaxAttempts = 2
    Recurring = {j3}
    Crashes = 1
    ReplyLoss = TRUE
SYMMETRY WorkerSymmetry
INVARIANTS
    TypeOK
    SingleHolder
    AttemptsRespected
    CompletedIsStored
    LossNeedsCrash
PROPERTY JobsAdvance
CHECK_DEADLOCK FALSE
