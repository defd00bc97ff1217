SPECIFICATION ServerSpec
CONSTANTS
    Nothing = Nothing
    MemoTTL = 1
    QueryTTL = 2
    ResultTTL = 2
    MaxCached = 2
    FailureThreshold = 2
    RecoveryTimeout = 1
    SlowCall = 1
    MaxCall = 1
    Horizon = 6
    MaxWrites = 1
    MaxTroubles = 2
INVARIANTS
    Freshness
    HealthyAgain
CHECK_DEADLOCK FALSE
