SPECIFICATION FairSpec
CONSTANTS
    Jobs = {"a", "b", "bad", "lost"}
    Hashes = {"h1", "h2"}
    HashOf <- FourRequests
    PathOf <- LostToApi
    NumBlocks <- FourBlocks
    PcdPeers = {"p1"}
    MsmPeers = {"m1"}
    MaxFaults = 1
INVARIANTS WorkInOnePlace ProofIsWhole CountersAgree
PROPERTIES ProofKept JobsSettle
CHECK_DEADLOCK FALSE
