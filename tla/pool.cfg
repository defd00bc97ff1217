SPECIFICATION FairSpec
CONSTANTS
    w1 = w1
    w2 = w2
    w3 = w3
    w4 = w4
    r1 = r1
    r2 = r2
    r3 = r3
    r4 = r4
    None = None
    Worker <- Workers3
    Request <- Requests2
    PoolSize = 2
    BackpressureLimit = 1
    FailureThreshold = 2
    MaxInits = 1
    MaxDrains = 1
INVARIANTS
    NoStrandedRequest
    LoadCountsOwned
PROPERTIES
    SentSettles
    InitSettlesOrEndedEarly
CHECK_DEADLOCK FALSE
