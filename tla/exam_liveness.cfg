SPECIFICATION FairSpec
CONSTANTS
    Sessions = {s1}
    Codes = {c1}
    Requests = {r1, r2}
    Instances = {i1, i2}
    Answers = {empty}
    Empty = empty
    None = none
    RedisDb = 0
    MaxFaults = 0
PROPERTIES EverySessionCloses
CHECK_DEADLOCK FALSE
