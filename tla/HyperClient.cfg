SPECIFICATION FairSpec
CONSTANTS
    Requests = {get, post}
    Idempotent = {get}
    UpgradeRequests = {get}
    MaxRetryNo = 0
    MaxConnections = 2
INVARIANTS
    TypeOK
    NonIdempotentAtMostOnce
    UnsentErrorsAreTrue
    SlotIsReported
PROPERTIES
    RetriesUseFreshConnections
    SlotIsLostForCause
    SlotSpec
    EveryCallReturns
