SPECIFICATION FairSpec
CONSTANTS
    w1 = w1
    w2 = w2
    p1 = p1
    p2 = p2
    k1 = k1
    k2 = k2
    x = x
    y = y
    None = None
    Worker <- Workers2
    Producer <- Producers1
    Key <- Keys1
    Change <- Changes2
    Limit <- Limits
    MaxLsn = 2
INVARIANTS
    AppliedInOrder
PROPERTIES
    DeliversAtLeastOnce
    LoneWorkerDrains
CHECK_DEADLOCK FALSE
