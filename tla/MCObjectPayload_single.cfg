CONSTANTS
    Media = {"json"}
    w1 = w1
    w2 = w2
    Workers = {w1}
    NoWorker = NoWorker
    Stores = {"s3"}
    Reconciles = FALSE
    Events = {"loss", "rot"}
    MaxUploads = 3
    MaxCrashes = 1
    MaxAttempts = 3
SPECIFICATION FairSpec
CHECK_DEADLOCK FALSE
INVARIANTS
    CrashIsRepeatable
    OrphanedMeansMissing
PROPERTIES
    EventuallyFinalized
