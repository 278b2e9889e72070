\* A rotation in a pool with a journal that an earlier crash left behind.
SPECIFICATION Spec
CONSTANTS
    IdSpace = 256
    NumDbs = 1
    Capacities = {6}
    Calls = {c1}
    MaxCalls = 5
    MaxWrites = 1
    MaxCrashes = 1
    MaxRotations = 1
    RotatesOverJournal = TRUE
INVARIANT Recoverable
CHECK_DEADLOCK FALSE
