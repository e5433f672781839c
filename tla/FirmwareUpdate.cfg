\* Three challenges of which two are outstanding, two resets.
CONSTANTS
    Slots = 2
    Life = 1
    MaxIssues = 3
    MaxTime = 2
    good = good
    flawed = flawed
    foreign = foreign
    Images <- MCImages
    Working <- MCWorking
    Ours <- MCOurs
    Factory = good
    Partial = partial
    Parts = {ota0, ota1}
    FirstPart = ota0
    MaxFaults = 1
SPECIFICATION UpdateFairSpec
INVARIANTS
    OutstandingWorks
PROPERTIES
    AuthorisedOnce
    OnlyPassedStarts
    ProvenStartsAgain
    ComesUp
