SPECIFICATION Spec
CONSTANTS
    Requests = {r1, r2, r3}
    Clients = {c1, c2}
    Grants = {g1}
    Prefixes = {p1}
    None = None
    Limit = 2
    Capacity = 1
    PortalFailedAccessLimit = 2
    MaxClock = 1
SYMMETRY PortalSymmetry
INVARIANTS
    BudgetHolds
    AuditExplainsGrant
PROPERTIES
    ServedOnLiveGrant
