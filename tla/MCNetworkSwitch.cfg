SPECIFICATION SwitchSpec
CONSTANTS
    OffAt = 2
    RedialAbove = 3
    RestartAt = 5
    Updates = TRUE
    STA = STA
    AP = AP
    PPP = PPP
    Leases = {1}
    MaxEvents = 1
INVARIANTS
    TypeOK
    TornDownOnce
    SimStatusTrue
    NetifSound
PROPERTIES
    ComesBack
