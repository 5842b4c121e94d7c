SPECIFICATION FairSpec
CONSTANTS
    Clients = {c1, c2}
    Capacity = 4
    Cost = 2
    Rate = 1
    Ttl = 5
    MaxRetries = 2
    Stall = 1
    MaxTime = 5
INVARIANT TypeOK
PROPERTIES
    GrantSpendsStored
    CallReturns
CHECK_DEADLOCK FALSE
