CONSTANTS
    Media = {"json"}
    w1 = w1
    w2 = w2
    Workers = {w1}
    NoWorker = NoWorker
    Stores = {"s3"}
    Reconciles = TRUE
    Events = {"age"}
    MaxUploads = 2
    MaxCrashes = 0
    MaxAttempts = 3
SPECIFICATION Spec
CHECK_DEADLOCK FALSE
PROPERTIES
    UploadHasJob
