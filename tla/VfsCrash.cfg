\* Commits, rollbacks and power loss on a populated database.
SPECIFICATION FairSpec
CONSTANTS
    Absent = Absent  Torn = Torn  ZeroRoot = ZeroRoot
    NumBlocks = 2
    MaxTx = 2
    MaxRestarts = 3
    Starts = {"populated"}
    Shrinks = FALSE
    Tears = FALSE
    Restores = FALSE
    Epochs = FALSE
INVARIANTS TypeOK NeverBricked Durable GenerationLadder
PROPERTIES StoreSpec Reopens
CHECK_DEADLOCK FALSE
