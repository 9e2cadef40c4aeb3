SPECIFICATION Spec
CONSTANTS
    NoOne = NoOne
    User = {req, ag1, ag2}
    Agents = {ag1, ag2}
    Reporter = req
    Request = {r1}
    Worker = {w1, w2}
    TransferTTL = 1
    MaxTime = 4
    MaxCrashes = 1
INVARIANTS
    AcceptedWasHandedOver
    ExpiredPastDeadline
PROPERTIES
    PendingEnds
CHECK_DEADLOCK FALSE
