CONSTANTS
  P = 7
  Seeds <- MCSeeds
  Tape <- MCTape
  Jobs <- MCJobs
SPECIFICATION Spec
INVARIANTS TranscriptsAgree SatisfyingAccepted AcceptedOnlyByChance MatrixValuesRight
