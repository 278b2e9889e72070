\* Power loss between the writes of a transaction's pages.
SPECIFICATION Spec
CONSTANTS
    Absent = Absent  Torn = Torn  ZeroRoot = ZeroRoot
    NumBlocks = 2
    MaxTx = 2
    MaxRestarts = 3
    Starts = {"populated"}
    Shrinks = FALSE
    Tears = FALSE
    Restores = FALSE
    Epochs = FALSE
INVARIANT PreOrPost
CHECK_DEADLOCK FALSE
