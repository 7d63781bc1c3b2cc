SPECIFICATION Spec
CONSTANTS
  P = 11
  N = 4
  LEVELS = 2
  Q = 13
  Members = 2
  Players <- MCPlayers
  Games <- MCGames
  GrandProductChallenges <- MCChallenges
INVARIANTS DeckKeepsCards RsProofAccepted OpensToDealtCard
CHECK_DEADLOCK FALSE
