SPECIFICATION FairSpec
CONSTANTS
    Requests = {r1, r2}
    Hashes = {h1, h2}
    Lease = 1
    Retention = 2
    MaxClock = 4
    Nil = Nil
    Earlier = Earlier
INVARIANTS
    TypeOK
    OneExecutionPerRetention
    RetainedExecutionIsReplayable
    AnswersAreTrue
    NoReservationOutlivesItsTransaction
PROPERTIES
    EveryAttemptEnds
CHECK_DEADLOCK FALSE
