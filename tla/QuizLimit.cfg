SPECIFICATION Spec
CHECK_DEADLOCK FALSE
CONSTANTS
    s1 = s1
    s2 = s2
    r1 = r1
    r2 = r2
    r3 = r3
    a1 = a1
    a2 = a2
    a3 = a3
    q1 = q1
    q2 = q2
    q3 = q3
    q4 = q4
    right = right
    wrong = wrong
    None = None
    Students = {s1}
    Requests = {r1, r2}
    Attempts = {a1, a2, a3}
    Questions = {q1, q2, q3, q4}
    Submissions = {right, wrong}
    MaxRevision = 1
    Asked <- MCAsked
    Unit = 10
    Points <- MCPoints
    Essays = {q2}
    Right <- MCRight
    Limits = {1}
SYMMETRY Symmetry
INVARIANTS
    AttemptLimit
