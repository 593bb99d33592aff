-------------------------- MODULE MCQuestionWindows --------------------------
\* Model values and bounds for checking QuestionWindows.
EXTENDS QuestionWindows, TLC

CONSTANTS q1, q2, s1, s2, b1, b2

\* Two council members with a question each, or one session with two.
Pair == (q1 :> s1) @@ (q2 :> s2)

One == (q1 :> s1) @@ (q2 :> s1)

BatchSymmetry == Permutations({b1, b2})
=============================================================================
