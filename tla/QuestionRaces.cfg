CONSTANTS
  None = None
  q1 = q1
  q2 = q2
  s1 = s1
  s2 = s2
  b1 = b1
  b2 = b2
  Requests = {q1, q2}
  Sessions = {s1}
  SessionOf <- One
  Clocks = {c1, c2, c3}
  Batches = {b1, b2}
  MaxRestarts = 0
  Lapses = {"stale list"}
SPECIFICATION Spec
CHECK_DEADLOCK FALSE
SYMMETRY BatchSymmetry
INVARIANTS TypeOK ClocksAreRight ClosedOnce
