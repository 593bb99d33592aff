CONSTANTS
  main = main
  second = second
  third = third
  None = None
  Council <- Pair
  Drafts <- BothDrafts
  Scores <- Ballots
  MinQuorum = 2
  MaxAttempts = 3
  MaxFaults = 2
SPECIFICATION FairSpec
CHECK_DEADLOCK FALSE
INVARIANTS CountIsSound WinnerStands
PROPERTIES KeepsRound RoundEnds
