SPECIFICATION FairSpec
CONSTANTS
    h1 = h1
    h2 = h2
    q1 = q1
    q2 = q2
    s1 = s1
    s2 = s2
    NoSession = NoSession
    Hook <- Hooks1
    Replayer <- Replayers1
    Session <- Sessions2
    MaxReplay = 1
INVARIANTS
    NoSilentLoss
PROPERTIES
    QueueDrains
CHECK_DEADLOCK FALSE
