SPECIFICATION ToolSpec
CONSTANTS
    b1 = b1
    b2 = b2
    c1 = c1
    c2 = c2
    r1 = r1
    Reader <- Readers
    Setting <- Settings
    Query <- Texts
    Relevance <- Relevances
    Alphabet <- Order
    ScanLimit = 2
    TopLimit = 1
    Batch <- Ingesters
    Client <- Clients
    Names <- Entities
    Triple <- Uses
    Records <- Ingested
    Clock <- Instants
    Froms <- Days
    Ends <- GivenEnds
    MaxJobs <- JobLimits
INVARIANTS
    SequentialHistory
    AssertedKept
    StatsNeverOverstate
    JoinLosesNothing
CHECK_DEADLOCK FALSE
