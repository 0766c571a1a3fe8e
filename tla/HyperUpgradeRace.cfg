SPECIFICATION Spec
CONSTANTS
    Requests = {get}
    Idempotent = {get}
    UpgradeRequests = {get}
    MaxRetryNo = 0
    MaxConnections = 1
PROPERTIES
    OpenSocketReachesItsCaller
