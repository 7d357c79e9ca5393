CONSTANTS
    Media = {"json"}
    w1 = w1
    w2 = w2
    Workers = {w1, w2}
    NoWorker = NoWorker
    Stores = {"filesystem", "s3"}
    Reconciles = TRUE
    Events = {"error", "age"}
    MaxUploads = 2
    MaxCrashes = 0
    MaxAttempts = 2
SPECIFICATION Spec
CHECK_DEADLOCK FALSE
SYMMETRY WorkerSymmetry
INVARIANTS
    TypeOK
    FinalizedIsWhole
    BytesSurvive
PROPERTIES
    FinalKeyStable
    NoFalseQuarantine
