SPECIFICATION Spec
CONSTANTS
    NoOne = NoOne
    User = {u1, u2}
    Worker = {w1, w2}
    MaxRequests = 3
INVARIANTS
    RulesHoldInIsolation
PROPERTIES
    FirstKeptInIsolation
    DeletedForGood
    BreachEndsFlagged
CHECK_DEADLOCK FALSE
