\* Passes that overlap each other and the application's edits, pull only or are
\* abandoned at any await; then undisturbed passes.
SPECIFICATION Spec
CONSTANTS
    NumDevices = 2
    Callers = {1, 2}
    Owner <- OnePerDevice
    MaxEdits = 2
    MaxPasses = 7
    MaxAborts = 1
    CalmAfter = 3
    PullOnly = TRUE
INVARIANTS TypeOK PublishedSurvives Converged PushedWhole
CHECK_DEADLOCK FALSE
