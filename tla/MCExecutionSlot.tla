--------------------------- MODULE MCExecutionSlot ---------------------------
\* Model values and bounds for checking ExecutionSlot.
EXTENDS ExecutionSlot, TLC

\* The whole band, for two tickets.
WholeBand == ExecutionBand \cup {"WAITING_BEADS_APPROVAL", "BLOCKED_ERROR", "CANCELED", "COMPLETED"}

\* The part of the band with its checks in it.
EarlyBand == {"WAITING_BEADS_APPROVAL", "PRE_FLIGHT_CHECK", "GENERATING_EXECUTION_SETUP_PLAN",
              "WAITING_EXECUTION_SETUP_APPROVAL", "PREPARING_EXECUTION_ENV", "CODING",
              "BLOCKED_ERROR", "CANCELED"}

AllRecoveries == {"RETRY", "CONTINUE", "EDIT"}

OnlyRetry == {"RETRY"}

Interchangeable == Permutations(Tickets)
=============================================================================
