SPECIFICATION Spec
CONSTANTS
    Requests = {r1, r2}
    UpgradeRequests = {}
    FirstConnectionId = 1
    MaxConnections = 2
    ChannelCapacity = 5
SYMMETRY Symmetry
INVARIANT ConnectedHasWriteStream
