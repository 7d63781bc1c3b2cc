CONSTANTS
  P = 7
  Width = 1
  Seeds <- MCSeeds
  Jobs <- MCJobs
  Chains <- MCChains
  MaxFolds = 3
SPECIFICATION Spec
INVARIANTS AcceptsExactlyZeroGap VerifierComputesSame FoldedSatisfied CircuitAgreesOnFresh ProductsTieLeaves
CHECK_DEADLOCK FALSE
