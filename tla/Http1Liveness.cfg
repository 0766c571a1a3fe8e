SPECIFICATION FairSpec
CONSTANTS
    Requests = {w, r}
    UpgradeRequests = {w}
    FirstConnectionId = 1
    MaxConnections = 1
    ChannelCapacity = 3
PROPERTIES
    EveryRequestEnds
    DropEndsTasks
