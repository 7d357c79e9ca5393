CONSTANTS
    fin = fin
    scan = scan
    vex = vex
    Jobs = {fin, scan}
    Finalizers <- MCFinalizers
    Commands <- MCCommands
    Requires <- MCRequires
    Awaits <- MCAwaits
    w1 = w1
    w2 = w2
    Workers = {w1, w2}
    Tokens = {1, 2, 3}
    NoToken = 0
    MaxAttempts = 2
    BatchSize = 2
SPECIFICATION Spec
SYMMETRY WorkerSymmetry
VIEW Unordered
INVARIANTS
    TypeOK
    LeaseExclusive
    AttemptBudget
    NoPrematurePublish
    HistoryExplainsRow
PROPERTIES
    OutcomeClosesItsClaim
    ImplementsPromise
