SPECIFICATION LayersSpec
CONSTANTS
    g1 = g1
    g2 = g2
    n1 = n1
    i1 = i1
    q1 = q1
    k1 = k1
    k2 = k2
    Process <- Two
    Setting <- Settings
    Mortal <- OnlyFirst
    Notes <- NoteIds
    Imports <- ImportIds
    Projects <- ProjectIds
    Tasks <- TaskIds
    Scope <- Scopes
    Target <- Targets
    PromotionKey <- PromotionKeys
    Text <- Texts
    Born <- Births
    Budget = 1
    PromoteMax = 1
    RefreshMax = 1
    MinRecords = 1
    MaxSession = 2
    MaxDreams = 2
    Missing = Missing
INVARIANTS
    AlignedIsCurrent
    PromotedOnce
PROPERTIES
    FinishedBuildAgrees
CHECK_DEADLOCK FALSE
