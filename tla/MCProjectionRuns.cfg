SPECIFICATION Spec
CONSTANTS
    Workers = {w1, w2}
    MaxRows = 2
    MaxLoads = 2
    MaxVersions = 2
    MaxRequests = 1
    MaxFaults = 1
SYMMETRY WorkerSymmetry
INVARIANTS
    TypeOK
    ClaimedOnce
    RunsItsVersion
    SucceededMeansWritten
PROPERTIES
    VerdictStands
CHECK_DEADLOCK FALSE
