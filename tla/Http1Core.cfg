SPECIFICATION Spec
CONSTANTS
    Requests = {w, r}
    UpgradeRequests = {w}
    FirstConnectionId = 0
    MaxConnections = 2
    ChannelCapacity = 3
VIEW View
INVARIANTS
    TypeOK
    StreamIsCurrent
    NoLostFlush
    WaitersAreTracked
    NobodyWaitsOnLostConnection
    NoZombieUnlessUpgraded
    QueueMatchesWireInStep
    OwnResponseInStep
PROPERTIES
    SlotSpec
