\* Lists of up to two recipients, one of which may lack a binding, and a clock
\* that may come too late.
SPECIFICATION FairSpec
CONSTANTS
    Recipients = {broadcast, dev1}
    Devices = {dev1}
    Broadcast = broadcast
    MaxRecipients = 2
    AttemptsMax = 2
    Times = {t1}
    Fallback = fallback
    None = None
    Missing = Missing
    Corrupt = Corrupt
INVARIANTS LiveIsStored NoneForgotten
PROPERTIES TimestampFrozen RemovedNotNotified OncePerBoot RecipientsSettle
