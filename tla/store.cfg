SPECIFICATION FairSpec
CONSTANTS
    s1 = s1
    s2 = s2
    n1 = n1
    d1 = d1
    c1 = c1
    m1 = m1
    m2 = m2
    h1 = h1
    h2 = h2
    Commands <- CommandIds
    Malformed <- BadIds
    Sessions <- SessionIds
    Failed <- FailedIds
    Show = 2
    Nobody = Nobody
    Process <- Scripts
    Settings <- AllSettings
    Notes <- NoteIds
    Dreams <- DreamIds
    Facts <- FactIds
    Profile <- Profiles
    TierMax <- Budgets
    Times <- Moments
    Alike <- Overlapping
    MaxCopies = 1
INVARIANTS
    OneArchiverUnlessForced
    OneWinner
    AckedIsServed
PROPERTIES
    RewriteLosesOnlyLate
    BuildsDeliver
CHECK_DEADLOCK FALSE
