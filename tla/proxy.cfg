SPECIFICATION FairSpec
CONSTANTS
    c1 = c1
    c2 = c2
    c3 = c3
    r1 = r1
    r2 = r2
    None = None
    Child <- Children2
    Request <- Requests2
    MaxInflight = 2
    MaxAttempts = 1
    GroupKill = TRUE
    SmallFrames = FALSE
INVARIANTS
    InflightMatches
    HandshakeFirst
    OneLiveChild
PROPERTIES
    CallSettles
CHECK_DEADLOCK FALSE
