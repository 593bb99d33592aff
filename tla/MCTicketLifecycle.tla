-------------------------- MODULE MCTicketLifecycle --------------------------
\* Model values and bounds for checking TicketLifecycle.
EXTENDS TicketLifecycle

AllStatuses == Statuses

\* A ticket fails once anywhere, or twice in these: the failures of two phases,
\* or of one phase twice, with a retry, a rewind or a repair between them,
\* without every pair of phases.
FailTwiceIn == {"SCANNING_RELEVANT_FILES", "COUNCIL_DELIBERATING", "CODING", "BLOCKED_ERROR"}
=============================================================================
