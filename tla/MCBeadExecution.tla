--------------------------- MODULE MCBeadExecution ---------------------------
\* Dependencies and bounds for checking BeadExecution.
EXTENDS BeadExecution

\* The bead of the highest priority waits for the one of the lowest.
Pair == {1, 2}
Three == {1, 2, 3}
Independent == [b \in Pair |-> {}]
Mixed == [b \in Three |-> IF b = 1 THEN {3} ELSE {}]
=============================================================================
