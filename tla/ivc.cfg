CONSTANTS
  P = 1019
  K = 4
  Jobs <- MCJobs
SPECIFICATION PcdSpec
INVARIANTS VerifiedIsComputed HonestVerifies CircuitFoldsAsProver NodeKeepsPromise
CHECK_DEADLOCK FALSE
