SPECIFICATION FairSpec
CONSTANTS
    Instances = {i1, i2}
    Here = i1
    Duration = 4
    Thresholds <- MCThresholds
    MaxTicks = 2
    MaxJoins = 2
    MaxFaults = 1
INVARIANTS TypeOK NoOrphanInterval WarnedOnceInOrder
PROPERTIES TimersStop ExpiryAnnounced
CHECK_DEADLOCK FALSE
