SPECIFICATION ArenaSpec
CONSTANTS
    GenMod = 3
    NoValue = NoValue
    MaxInserts = 6
INVARIANTS
    NoAliasing
    FreeListExact
PROPERTIES
    KeepsPromise
