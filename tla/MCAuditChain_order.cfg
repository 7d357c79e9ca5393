SPECIFICATION Spec
CONSTANTS
    t1 = t1
    t2 = t2
    t3 = t3
    boot = boot
    Bootstrap = boot
    Txns = {t1, t2, t3}
    Kinds <- BatchKinds
    PageSize = 1
    MaxVersion = 3
    MaxClock = 1
SYMMETRY TxnSymmetry
CHECK_DEADLOCK FALSE
INVARIANT
    NoLockInversion
