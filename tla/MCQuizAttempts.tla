--------------------------- MODULE MCQuizAttempts ----------------------------
\* Two revisions: a question and an essay, then two questions worth an eighth of a point
\* each (in thousandths), whose sum is a whole number of hundredths, unlike each of them.
EXTENDS QuizAttempts, TLC

CONSTANTS s1, s2, r1, r2, r3, a1, a2, a3, q1, q2, q3, q4, right, wrong

MCAsked == 0 :> {q1, q2} @@ 1 :> {q3, q4}
MCPoints == q1 :> 1125 @@ q2 :> 1000 @@ q3 :> 125 @@ q4 :> 125
MCRight == right :> {q1, q3, q4} @@ wrong :> {}

Symmetry ==
    Permutations({r1, r2, r3}) \cup Permutations({a1, a2, a3}) \cup Permutations(Students)
=============================================================================
