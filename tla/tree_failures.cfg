SPECIFICATION Spec
CONSTANTS
    NumLeaves = 4
    NumWorkers = 3
    NumBlocks = 3
    ReadyQCap = 1
    CanFail = TRUE
INVARIANTS TypeInv Control Buffers BlockOwnership
PROPERTIES PublishedStable ImplementsFoldTreeSafely
