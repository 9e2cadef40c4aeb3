SPECIFICATION SpecByRule
CONSTANTS
    sys = sys
    ag1 = ag1
    ag2 = ag2
    req = req
    NoOne = NoOne
    User = {sys, ag1, ag2, req}
    Reporter = req
    SystemAdmins = {sys}
    GivenRoles <- MCGivenRoles
    FirstRole <- MCFirstRole
    RuleAssignees = {ag1}
    ReopenWindow = 1
    TransferTTL = 1
    MaxTime = 3
    MaxReopens = 1
INVARIANTS
    AssignmentRule
CHECK_DEADLOCK FALSE
