CONSTANTS
  None = None
  q1 = q1
  q2 = q2
  s1 = s1
  s2 = s2
  b1 = b1
  b2 = b2
  Requests = {q1, q2}
  Sessions = {s1, s2}
  SessionOf <- Pair
  Clocks = {c1, c2, c3}
  Batches = {b1}
  MaxRestarts = 1
  Lapses = {}
SPECIFICATION FairSpec
CHECK_DEADLOCK FALSE
INVARIANTS ClocksAreRight ClosedMeansOver WaitIsOnRecord
PROPERTY RefusalIsTried
