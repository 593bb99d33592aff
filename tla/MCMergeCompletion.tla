------------------------- MODULE MCMergeCompletion -------------------------
\* Bounds for checking MergeCompletion.
EXTENDS MergeCompletion
CONSTANTS m1, c1, x1

OneMerge == {m1}
OneClose == {c1}
OneCancel == {x1}
Few == [moves |-> 2, requests |-> 2, faults |-> 2, crashes |-> 1]
=============================================================================
