CONSTANTS
  None = None
  Beads <- Three
  BlockedBy <- Mixed
  MaxIterations = 2
  MaxFaults = 3
  MaxCrashes = 2
SPECIFICATION FairSpec
CHECK_DEADLOCK FALSE
INVARIANTS TriesAreIsolated WorkIsRecoverable
PROPERTIES KeepsBranch CodingEnds
