SPECIFICATION Spec
CONSTANTS
    NoInvitation = NoInvitation
    MaxInvitations = 2
    Worker = {w1, w2}
    GivenAnswers = {"rejected"}
    TTL = 0
    MaxTime = 2
INVARIANTS
    AcceptedMeansMember
    LinkKeepsItsDeadline
    OnePendingInIsolation
    ToldOnceInIsolation
PROPERTIES
    AnswersStandInIsolation
SYMMETRY Symmetric
CHECK_DEADLOCK FALSE
