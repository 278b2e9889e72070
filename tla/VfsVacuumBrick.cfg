\* A transaction that shortens the file.
SPECIFICATION Spec
CONSTANTS
    Absent = Absent  Torn = Torn  ZeroRoot = ZeroRoot
    NumBlocks = 2
    MaxTx = 2
    MaxRestarts = 2
    Starts = {"populated"}
    Shrinks = TRUE
    Tears = FALSE
    Restores = FALSE
    Epochs = FALSE
INVARIANTS NeverBricked
CHECK_DEADLOCK FALSE
