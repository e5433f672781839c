\* Two requests, changes of the network, failures, and two restarts.
CONSTANTS
    Configs = {c1, c2}
    Default = c1
    NoConfig = none
    Damaged = damaged
    MaxUpdates = 2
    MaxFailures = 1
    MaxHoldover = 1
    MaxNetwork = 2
    MaxLookups = 1
    MaxRestarts = 2
SPECIFICATION ClockFairSpec
PROPERTIES
    DiscardsOutdated
    HoldoverBounded
    ServerFollows
