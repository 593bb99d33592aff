CONSTANTS
  ManualQaEnabled = TRUE
  Nil = Nil
  Damaged = Damaged
  Scope <- AllStatuses
  MaxFailures = 2
  FailAgain <- FailTwiceIn
  MaxFaults = 1
SPECIFICATION Spec
INVARIANTS TypeOK HistoryMatchesRow NoOrphan ActorMatchesRow RecoveryIsSound
PROPERTIES TerminalIsFinal KeepsContract
