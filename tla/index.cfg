SPECIFICATION IndexSpec
CONSTANTS
    b1 = b1
    b2 = b2
    v1 = v1
    v2 = v2
    Builder <- Builders
    Server <- Servers
    Script = Script
    Entries = 3
    Text <- Texts
    Nothing <- NoText
    Template <- Shipped
    Exported <- Variables
    Requests <- Asked
    BatchSize = 2
    Settings <- AllSettings
    MaxEdits = 1
    MaxSwitches = 2
    MaxKills = 1
INVARIANTS
    ScoresComparable
    AlignedIsSearchable
    WorkerFollows
PROPERTIES
    KeepsUsable
CHECK_DEADLOCK FALSE
