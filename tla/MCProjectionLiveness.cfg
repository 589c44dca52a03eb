SPECIFICATION FairSpec
CONSTANTS
    Workers = {w1, w2}
    MaxRows = 5
    MaxLoads = 1
    MaxVersions = 2
    MaxRequests = 0
    MaxFaults = 1
PROPERTIES
    EveryLoadProjected
CHECK_DEADLOCK FALSE
