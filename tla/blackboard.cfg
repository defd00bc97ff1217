SPECIFICATION FairBridgeSpec
CONSTANTS
    Tasks <- TaskIds
    Limit = 1
    Moves <- Forward
    MaxEdits = 2
    MaxMoves = 3
    MaxKills = 1
    Nobody = Nobody
    Dead = Dead
    c1 = c1
    c2 = c2
    Caller <- Callers
    Observation <- Texts
    Unset = Unset
    ListLimit = 2
    MaxObservations = 2
    Settings <- Halves
INVARIANTS
    SavedAtMostOnce
PROPERTIES
    OnlyTickedSubmitted
    EventuallyAgree
