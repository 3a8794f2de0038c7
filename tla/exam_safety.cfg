SPECIFICATION Spec
CONSTANTS
    Sessions = {s1, s2}
    Codes = {c1}
    Requests = {r1, r2}
    Instances = {i1, i2}
    Answers = {empty, a}
    Empty = empty
    None = none
    RedisDb = 0
    MaxFaults = 2
SYMMETRY Symmetry
CONSTRAINT AnswersBound
INVARIANTS TypeOK AttemptsAccounted ExpiredKeyStaysGone CodeMatchesSession OneLateSubmitPerWindow SnapshotIsRecent
PROPERTIES SubmittedIsFinal KeepsContract
CHECK_DEADLOCK FALSE
