SPECIFICATION Spec
CONSTANTS
    PoolSize = 2
    Codes = {c1, c2, c3}
    Admins = {a1, a2}
    Students = {s1}
    q1 = q1
    q2 = q2
    yes = yes
    no = no
    Questions <- MCQuestions
    Options <- MCOptions
    Marks <- MCMarks
    CorrectOf <- MCCorrectOf
    PassingScore = 100
    Unanswered = None
    None = None
    MaxEdits = 1
    MaxFaults = 1
INVARIANTS TypeOK NextInOrder FewOutstanding LateStarts VerdictExact
SYMMETRY Symmetry
CHECK_DEADLOCK FALSE
