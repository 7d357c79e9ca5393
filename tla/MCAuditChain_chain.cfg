SPECIFICATION Spec
CONSTANTS
    t1 = t1
    t2 = t2
    t3 = t3
    boot = boot
    Bootstrap = boot
    Txns = {t1, t2, t3}
    Kinds <- AllKinds
    PageSize = 1
    MaxVersion = 3
    MaxClock = 2
SYMMETRY TxnSymmetry
CHECK_DEADLOCK FALSE
INVARIANTS
    TypeOK
    ChainIntact
    ReceiptFollowsView
    CheckpointVerifies
    OneActiveKey
    VerdictIsCurrent
    FenceHolderProceeds
PROPERTIES
    ImplementsLog
