SPECIFICATION HistorySpec
CONSTANTS
    OffAt = 2
    RedialAbove = 3
    RestartAt = 5
    Updates = FALSE
INVARIANT SimGivenTime
