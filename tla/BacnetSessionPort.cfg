SPECIFICATION Spec
CONSTANTS
    Addresses = {a1, a2}
    NoAddress = NoAddress
    AttemptsMax = 2
    MaxEvents = 3
    MaxBindFailures = 1
SYMMETRY Symmetric
INVARIANT PortIsActive
CHECK_DEADLOCK FALSE
