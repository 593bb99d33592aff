CONSTANTS
  ManualQaEnabled = TRUE
  Scope <- BothScopes
  StartStatuses <- EitherStart
  MaxRetries = 2
  MaxSessions = 2
  MaxCrashes = 1
  Questions = TRUE
SPECIFICATION FairSpec
CHECK_DEADLOCK FALSE
INVARIANTS FenceIsKept CanceledIsQuiet
PROPERTIES RetryStartsClean FenceIsLifted
