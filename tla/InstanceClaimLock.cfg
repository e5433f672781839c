\* Two controllers and one instance: late packets, an outage, a lost packet, a
\* failed save.
SPECIFICATION FairSpec
CONSTANTS
    Nodes = {n1, n2}
    Ids = {default}
    Default = default
    None = None
    QueryInterval = 1
    DiscoverTime = 3
    ClaimTime = 2
    MaxJitter = 1
    RetryTime = 3
    WatchInterval = 3
    FirstWatch = 0
    MaxDelay = 1
    MaxLeaves = 1
    MaxLosses = 1
    MaxFailures = 1
INVARIANTS TypeOK UniqueInstances
PROPERTIES LockKept DuplicatesDetected RangeFullRecovers
