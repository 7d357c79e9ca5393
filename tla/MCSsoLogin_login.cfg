SPECIFICATION Spec
CONSTANTS
    x1 = x1
    x2 = x2
    r1 = r1
    r2 = r2
    a1 = a1
    none = none
    Calls = {x1, x2}
    Requests = {r1, r2}
    Assertions = {a1}
    NoOne = none
    MaxPending = 2
    RequestLifetime = 2
    SessionLifetime = 3
    IdleTimeout = 2
    Lifetimes = {3}
    SessionLimits = {1}
    ProofLifetimes = {1, 2}
    GroupRoles = {FALSE}
    MaxRevision = 1
    MaxClock = 2
SYMMETRY LoginSymmetry
VIEW Relevant
CHECK_DEADLOCK FALSE
INVARIANTS
    TypeOK
    OneSessionPerRequest
    OneSessionPerAssertion
    LoginTableSound
PROPERTIES
    IssuedOnCurrentFacts
    SessionDeathIsFinal
