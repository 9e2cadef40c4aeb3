SPECIFICATION Spec
CONSTANTS
    sys = sys
    ag1 = ag1
    ag2 = ag2
    req = req
    NoOne = NoOne
    User = {sys, ag1, ag2, req}
    Reporter = req
    SystemAdmins = {sys}
    GivenRoles <- MCGivenRoles
    FirstRole <- MCFirstRole
    RuleAssignees = {}
    ReopenWindow = 1
    TransferTTL = 1
    MaxTime = 3
    MaxReopens = 1
INVARIANTS
    AssignmentRule
    ResolutionConsistent
    FollowersLag
PROPERTIES
    FirstResolutionKept
    ClosedLeavesByReopen
    AgentTakesWhatLeavesQueue
    NewAssigneeOnTeam
CHECK_DEADLOCK FALSE
