CONSTANTS
  ManualQaEnabled = TRUE
  Tickets = {a, b}
  SlotScope <- WholeBand
  Recoveries <- AllRecoveries
SPECIFICATION SlotSpec
CHECK_DEADLOCK FALSE
INVARIANTS SlotTypeOK
PROPERTIES JoinsOnlyAfterWaiting
