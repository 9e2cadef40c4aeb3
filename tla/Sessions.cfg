SPECIFICATION Spec
CONSTANTS
    NoSession = NoSession
    Session = {s1, s2}
    Worker = {w1, w2}
    SessionTTL = 1
    RememberedTTL = 2
    Grace = 0
    Retention = 0
    MaxTime = 3
    MaxToken = 2
INVARIANTS
    TradedOnce
PROPERTIES
    RevokedIsFrozen
    EndedStaysEnded
    ImplementsSessionLife
SYMMETRY Symmetric
CHECK_DEADLOCK FALSE
