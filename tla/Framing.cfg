SPECIFICATION FairSpec
CONSTANTS
    Methods = {"GET", "HEAD", "CONNECT", "UPGRADE"}
    MaxRequests = 2
    MaxBody = 1
    MaxChunk = 1
    MaxHeaders = 2
    MaxInterim = 1
    AdvertisesUpgrade = FALSE
INVARIANTS
    TypeOK
    BodiesAreTheServers
    RefusesExactlyTheBad
PROPERTY EveryResponseCompletes
