SPECIFICATION FairSpec
CONSTANTS
    Requests = {get, post}
    Idempotent = {get}
    ExtendedConnect = {}
    Patient = {}
    MaxRetryNo = 0
    MaxConsecutiveTimeouts = 2
    MaxConnections = 2
INVARIANTS
    TypeOK
    UnsentErrorsAreTrue
    NonIdempotentAtMostOnce
    ReportsAgree
PROPERTIES
    RetriesUseFreshConnections
    SlotIsLostForCause
    SlotSpec
    EveryCallReturns
