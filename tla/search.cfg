SPECIFICATION FairToolSpec
CONSTANTS
    c1 = c1
    c2 = c2
    c3 = c3
    r1 = r1
    r2 = r2
    r3 = r3
    None = None
    Child <- Children2
    Request <- Requests2
    MaxRestarts = 1
    Limit = 1
    Exposed <- Shown
    Asked <- Ids
    MaxResults = 2
    Replies <- SomeReplies
INVARIANTS
    NoStrandedCall
    OneWorkerUnlessStopped
    ChosenWereAsked
PROPERTIES
    CallReturns
CHECK_DEADLOCK FALSE
