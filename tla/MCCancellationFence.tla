------------------------- MODULE MCCancellationFence -------------------------
\* Model values and bounds for checking CancellationFence.
EXTENDS CancellationFence

\* A phase that retries with an awaited reset, and the one after it.
CodingScope == {"CODING", "RUNNING_FINAL_TEST", "BLOCKED_ERROR", "CANCELED"}

CodingStart == {"CODING"}

\* The end of the workflow, where a late result and CANCEL disagree.
CompletionScope == {"CREATING_PULL_REQUEST", "WAITING_PR_REVIEW", "CLEANING_ENV",
                    "COMPLETED", "BLOCKED_ERROR", "CANCELED"}

CompletionStart == {"CREATING_PULL_REQUEST"}

\* Both, each entered at its own start.
BothScopes == CodingScope \cup CompletionScope

EitherStart == CodingStart \cup CompletionStart
=============================================================================
