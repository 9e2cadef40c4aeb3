SPECIFICATION ImportSpec
CONSTANTS
    s1 = s1
    s2 = s2
    Worker = {w1, w2}
    SourceFile <- TwoTickets
    Title = {"a", "b"}
    FirstTitle = "a"
    Format = {"TK", "HD"}
    DefaultFormat = "TK"
    NoFormat = "none"
    NoRef = NoRef
    MaxTickets = 3
INVARIANTS
    ReferencesKept
CONSTRAINT Straight
SYMMETRY Symmetric
CHECK_DEADLOCK FALSE
