--------------------------- MODULE MCCouncilRound ---------------------------
\* Councils and ballots for checking CouncilRound.
EXTENDS CouncilRound

CONSTANTS main, second, third

Pair == <<main, second>>
Trio == <<main, second, third>>
TwoDrafts == {second, third}
BothDrafts == {main, second}

\* Every voter prefers another draft in its second attempt.
Ballots ==
  [v \in Members \X Attempts |->
    [d \in Drafts |-> IF (Rank(v[1]) + v[2] + Rank(d)) % 2 = 0 THEN 1 ELSE 0]]
=============================================================================
