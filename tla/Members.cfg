SPECIFICATION Spec
CONSTANTS
    NoOne = NoOne
    User = {u1, u2, u3}
    Creator = u1
    GivenRoles = {"admin", "user"}
    Worker = {w1, w2}
    MaxMembers = 4
INVARIANTS
    AdminRemainsInIsolation
    RemovedIsGoneInIsolation
PROPERTIES
    PromotedBySystemAdminInIsolation
SYMMETRY Symmetric
CHECK_DEADLOCK FALSE
