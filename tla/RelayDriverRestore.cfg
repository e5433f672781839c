\* Restore enabled: saves race commands, faults and a restart.
CONSTANTS
    Relays = {r1}
    Callers = {web, bacnet}
    HealthTask = health
    InitTask = init
    NoTask = none
    RestoreRelayState = TRUE
    MaxCommands = 2
    MaxFaults = 2
    MaxReboots = 1
SPECIFICATION FairSpec
INVARIANT SavedIsApplied
PROPERTIES
    ImplementsOutput
    CommandsApplied
    CommandsSaved
