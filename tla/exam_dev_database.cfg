SPECIFICATION FairSpec
CONSTANTS
    Sessions = {s1}
    Codes = {c1}
    Requests = {r1}
    Instances = {i1}
    Answers = {empty, a}
    Empty = empty
    None = none
    RedisDb = 1
    MaxFaults = 0
PROPERTIES EverySessionCloses
CHECK_DEADLOCK FALSE
