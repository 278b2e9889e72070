\* An edit that was not pushed when a peer's blob arrives.
SPECIFICATION Spec
CONSTANTS
    NumDevices = 2
    Callers = {1, 2}
    Owner <- OnePerDevice
    MaxEdits = 2
    MaxPasses = 3
    MaxAborts = 0
    CalmAfter = 3
    PullOnly = TRUE
INVARIANTS NoEditLost
CHECK_DEADLOCK FALSE
