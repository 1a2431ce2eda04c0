SPECIFICATION DataSpec
CONSTANTS
    Cells = {c1, c2, c3, c4}
    NULL = NULL
    MaxStrings = 1
    MaxReferences = 1
    MaxPieces = 4
    CJSON_NESTING_LIMIT = 2
    NumberBuffer = 3
INVARIANTS
    TextsRead
    ValuesPrinted
    ValuesPatched
PROPERTIES
    TreesSound
SYMMETRY Interchangeable
CHECK_DEADLOCK FALSE
