SPECIFICATION FairSpec
CONSTANTS
    NumLeaves = 2
    NumWorkers = 2
    NumBlocks <- DefaultBlocks
    ReadyQCap <- DefaultCap
    CanFail = TRUE
PROPERTY RunReturns
