\* A new or a legacy database, torn blocks, shrinking transactions: never served wrong.
SPECIFICATION Spec
CONSTANTS
    Absent = Absent  Torn = Torn  ZeroRoot = ZeroRoot
    NumBlocks = 2
    MaxTx = 2
    MaxRestarts = 3
    Starts = {"none", "legacy"}
    Shrinks = TRUE
    Tears = TRUE
    Restores = FALSE
    Epochs = FALSE
INVARIANTS ServedIsRooted Durable
CHECK_DEADLOCK FALSE
