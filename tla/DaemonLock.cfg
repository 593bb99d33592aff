CONSTANTS
  p1 = p1
  p2 = p2
  stop = stop
  None = None
  Starters <- TwoStarters
  Stoppers <- OneStopper
  Attempts = 8
  MaxFaults = 2
SPECIFICATION FairSpec
CHECK_DEADLOCK FALSE
INVARIANT LockIsSafe
PROPERTY StartSettles
