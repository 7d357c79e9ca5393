CONSTANTS
    fin = fin
    scan = scan
    vex = vex
    Jobs = {scan, vex}
    Finalizers <- MCFinalizers
    Commands <- MCCommands
    Requires <- MCRequires
    Awaits <- MCAwaits
    w1 = w1
    w2 = w2
    Workers = {w1}
    Tokens = {1, 2, 3}
    NoToken = 0
    MaxAttempts = 3
    BatchSize = 1
SPECIFICATION FairSpec
PROPERTIES
    JobsSettle
INVARIANTS
    NoPrematurePublish
