\* A client over HTTP and one over BACnet command two relays; restore disabled.
SPECIFICATION CommandSpec
CONSTANTS
    Relays = {r1, r2}
    Callers = {web, bacnet}
    Web = web
    Bacnet = bacnet
    HealthTask = health
    InitTask = init
    NoTask = none
    RestoreRelayState = FALSE
    Priorities = {8, 16}
    MaxCommands = 2
    MaxFaults = 1
    MaxReboots = 0
    MaxStops = 1
SYMMETRY Symmetric
INVARIANTS ArraysAreDesired OneLateCommand HealthyMeansDriven
PROPERTIES AcceptedIsVerified EnergiseOnlyCommanded
