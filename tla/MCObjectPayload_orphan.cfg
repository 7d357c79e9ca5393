CONSTANTS
    Media = {"json"}
    w1 = w1
    w2 = w2
    Workers = {w1, w2}
    NoWorker = NoWorker
    Stores = {"s3"}
    Reconciles = FALSE
    Events = {}
    MaxUploads = 1
    MaxCrashes = 0
    MaxAttempts = 3
SPECIFICATION Spec
CHECK_DEADLOCK FALSE
SYMMETRY WorkerSymmetry
INVARIANTS
    OrphanedMeansMissing
