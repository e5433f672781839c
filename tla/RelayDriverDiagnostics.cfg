\* The status snapshot of a device whose expander resets once.
CONSTANTS
    Relays = {r1}
    Callers = {bacnet}
    HealthTask = health
    InitTask = init
    NoTask = none
    RestoreRelayState = FALSE
    MaxCommands = 1
    MaxFaults = 1
    MaxReboots = 0
SPECIFICATION FairSpec
INVARIANTS
    DiagnosticsConsistent
