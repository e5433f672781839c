\* A dead subscriber and two others compete for one transaction slot.
SPECIFICATION FairSpec
CONSTANTS
    o1 = o1
    o2 = o2
    Objects = {o1, o2}
    Subs = {1, 2, 3}
    ObjectOf <- Table
    Dead = {1}
    Slots = 1
    Retries = 1
    MaxChanges = 2
    MaxLosses = 2
    MaxRequests = 4
INVARIANTS TypeOK StaleIsRemembered
PROPERTIES SubscribersLearn RecoveryEnds
