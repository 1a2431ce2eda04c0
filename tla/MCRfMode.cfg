SPECIFICATION Spec
CONSTANTS
    Codes = {c1, c2}
    Torn = Torn
    Boot = Boot
    Default = Default
    ProbeLimit = 3
    MaxCommands = 3
    MaxPairings = 1
INVARIANTS
    TypeOK
    RadioMatchesMode
    ProbesOnlyAtStart
PROPERTIES
    ModeSettles
    CommandsHonoured

