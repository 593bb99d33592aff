CONSTANTS
  NoFile = NoFile
  Kinds <- AllKinds
  MaxWrites = 3
  MaxCrashes = 2
  MaxFailures = 1
SPECIFICATION FileSpec
CHECK_DEADLOCK FALSE
INVARIANT DocumentIsSafe
PROPERTIES BlockedForCause RecoveryIsComplete
