SPECIFICATION Spec
CONSTANTS
    Sessions = {s1}
    Codes = {c1}
    Requests = {r1}
    Instances = {i1}
    Answers = {empty, a}
    Empty = empty
    None = none
    RedisDb = 0
    MaxFaults = 0
INVARIANTS AtMostOneAttempt
CHECK_DEADLOCK FALSE
