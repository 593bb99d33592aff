--------------------------- MODULE MCEventStream ---------------------------
\* One and two tabs for checking EventStream.
EXTENDS EventStream

CONSTANTS t1, t2

OneTab == {t1}
TwoTabs == {t1, t2}
=============================================================================
