SPECIFICATION FairSpec
CONSTANTS
    NumLeaves = 8
    NumWorkers = 2
    NumBlocks = 5
    ReadyQCap = 1
    CanFail = FALSE
INVARIANTS OkIsWholeFold NoNodeLost
PROPERTIES RunReturns ImplementsFoldTree
