SPECIFICATION Spec
CONSTANTS
    Codes = {0, 127}
    Signal = 15
    MaxSignals = 2
INVARIANTS
    IncompleteResultIsFlagged
    ExitCodeIsNotOfTheKill
    NoChildIsLeftBehind
    DigestsAreUploaded
PROPERTY RunnerEnds
CHECK_DEADLOCK FALSE
