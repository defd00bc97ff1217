SPECIFICATION FairLogSpec
CONSTANTS
    b1 = b1
    b2 = b2
    i1 = i1
    i2 = i2
    f1 = f1
    f2 = f2
    Nobody = Nobody
    Dead = Dead
    Process <- Builds
    Ids <- LoggedIds
    Facts <- FactSet
    Batch <- Batches
    Enriched <- Extracted
    MaxCrashes = 1
INVARIANTS
    LoggedOnce
PROPERTIES
    EventuallyWritten
