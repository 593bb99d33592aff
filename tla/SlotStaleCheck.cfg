CONSTANTS
  ManualQaEnabled = TRUE
  Tickets = {a, b}
  SlotScope <- EarlyBand
  Recoveries <- OnlyRetry
SYMMETRY Interchangeable
SPECIFICATION SlotSpec
CHECK_DEADLOCK FALSE
INVARIANTS SlotIsExclusive
