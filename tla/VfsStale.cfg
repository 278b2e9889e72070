\* Stale copies put back; epoch tokens exported and applied.
SPECIFICATION Spec
CONSTANTS
    Absent = Absent  Torn = Torn  ZeroRoot = ZeroRoot
    NumBlocks = 1
    MaxTx = 2
    MaxRestarts = 3
    Starts = {"populated"}
    Shrinks = FALSE
    Tears = FALSE
    Restores = TRUE
    Epochs = TRUE
INVARIANTS RollbackBound EpochStrict
PROPERTIES AnchorForward
CHECK_DEADLOCK FALSE
