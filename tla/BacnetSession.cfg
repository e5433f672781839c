\* Addresses come and go between the steps of the sessions.
SPECIFICATION FairSpec
CONSTANTS
    Addresses = {a1, a2}
    NoAddress = NoAddress
    AttemptsMax = 3
    MaxEvents = 5
    MaxBindFailures = 1
PROPERTIES ServesActiveAddress ServiceIsAnnounced CampaignEnds ServiceResumes
CHECK_DEADLOCK FALSE
