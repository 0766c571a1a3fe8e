SPECIFICATION Spec
CONSTANTS
    Requests = {r1, r2, r3, r4}
    Idempotent = {}
    ExtendedConnect = {r1, r2, r3, r4}
    Patient = {r4}
    MaxRetryNo = 3
    MaxConsecutiveTimeouts = 3
    MaxConnections = 1
SYMMETRY Symmetry
PROPERTIES
    TimeoutDropIsEarned
