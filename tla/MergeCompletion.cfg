CONSTANTS
  Poller = Poller
  m1 = m1
  c1 = c1
  x1 = x1
  Merges <- OneMerge
  Closes <- OneClose
  Cancels <- OneCancel
  MaxPulls = 2
  Limits <- Few
SPECIFICATION FairSpec
CHECK_DEADLOCK FALSE
INVARIANT DecisionIsSound
PROPERTIES DecisionStands ReviewEnds RequestsAreAnswered
