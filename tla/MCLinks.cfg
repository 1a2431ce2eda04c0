SPECIFICATION LinksSpec
CONSTANTS
    MaxWrites = 1
    MaxEvents = 3
    MaxRestarts = 1
    MaxSync = 2
    MaxLate = 1
    MaxLines = 2
INVARIANTS
    StartSafe
    ModemSound
PROPERTIES
    StartSettles
    ModemReturns
CHECK_DEADLOCK FALSE
