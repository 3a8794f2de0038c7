SPECIFICATION Spec
CONSTANTS
    Sessions = {s1, s2}
    Codes = {c1, c2}
    Requests = {r1, r2}
    Instances = {i1}
    Answers = {empty}
    Empty = empty
    None = none
    RedisDb = 0
    MaxFaults = 0
SYMMETRY Symmetry
INVARIANTS OneActiveSession
CHECK_DEADLOCK FALSE
