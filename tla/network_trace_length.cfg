SPECIFICATION FairSpec
CONSTANTS
    Jobs = {"a"}
    Hashes = {"h1", "h2"}
    HashOf <- OneJob
    PathOf <- AllToCore
    NumBlocks <- ThreeBlocks
    PcdPeers = {}
    MsmPeers = {}
    MaxFaults = 0
PROPERTY ProofServed
CHECK_DEADLOCK FALSE
