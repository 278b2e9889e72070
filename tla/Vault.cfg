\* Two overlapping SDK calls, rotations, methods, SQL and crashes.
SPECIFICATION Spec
CONSTANTS
    IdSpace = 256
    NumDbs = 2
    Capacities = {6, 9}
    Calls = {c1, c2}
    MaxCalls = 5
    MaxWrites = 2
    MaxCrashes = 2
    MaxRotations = 1
    RotatesOverJournal = FALSE
SYMMETRY CallSymmetry
INVARIANTS TypeOK Recoverable NotLockedOut
PROPERTIES FloorKept
CHECK_DEADLOCK FALSE
