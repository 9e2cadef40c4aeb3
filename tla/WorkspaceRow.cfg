SPECIFICATION Spec
CONSTANTS
    Worker = {w1, w2}
    Domain = {d1}
    NoDomain = NoDomain
    Recovery = 2
    Reminder = 1
    Distrust = 2
    MaxTime = 3
    MaxCuts = 1
INVARIANTS
    DeletedIsDatedInIsolation
PROPERTIES
    ErasedAsPromisedInIsolation
    VerifiedWasProvenInIsolation
    DeletedIsErased
CONSTRAINT NobodyLate
CHECK_DEADLOCK FALSE
