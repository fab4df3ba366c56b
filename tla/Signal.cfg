SPECIFICATION Spec
CONSTANTS
    PipeCapacity = 2
    MaxSignals = 4
    MaxRuns = 2
INVARIANTS
    NoLostWakeup
    NothingLeftBehind
PROPERTY RequestsAnswered
