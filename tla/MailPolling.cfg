SPECIFICATION MailSpec
CONSTANTS
    NoBatch = NoBatch
    Message = {m1}
    Batch = {b1, b2}
    Caller = {c1}
    Config = {old, new}
    MaxDay = 2
INVARIANTS
    OneTicketInIsolation
    OneLoopInIsolation
    NothingPassedOver
PROPERTIES
    GoneForGood
SYMMETRY Symmetric
CONSTRAINT SecondLoopAtMost
CHECK_DEADLOCK FALSE
