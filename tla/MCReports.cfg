SPECIFICATION ReportsSpec
CONSTANTS
    Detectors = {d1, d2, d3}
    Cells = {c1, c2, c3}
    NULL = NULL
    Adders = {radio}
    HEART_BEAT_TIME = 1
SYMMETRY Interchangeable
INVARIANTS
    ListSound
    SilenceNoticed
PROPERTIES
    NoFalseLoss
    ResetClearsAlarms
