SPECIFICATION Spec
CONSTANTS
    File = {f1, f2}
    Worker = {w1, w2}
    Hour = 1
    MaxTime = 3
    MaxCrashes = 1
INVARIANTS
    TicketKeepsItsFiles
    NothingLeftBehind
PROPERTIES
    StagedEnds
CHECK_DEADLOCK FALSE
