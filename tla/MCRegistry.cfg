SPECIFICATION SiteSpec
CONSTANTS
    MAX_DECTECTOR = 3
    QueueLength = 1
    WiredInput = TRUE
    StrangeReports = FALSE
    None = None
    Empty = Empty
    MaxPairings = 2
    MaxRemovals = 1
    MaxRestarts = 1
INVARIANTS
    TypeOK
    RegisteredInReach
    NoStranger
CHECK_DEADLOCK FALSE
