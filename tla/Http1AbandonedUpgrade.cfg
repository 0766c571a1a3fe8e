SPECIFICATION Spec
CONSTANTS
    Requests = {w, r}
    UpgradeRequests = {w}
    FirstConnectionId = 1
    MaxConnections = 1
    ChannelCapacity = 5
INVARIANT NoZombie
