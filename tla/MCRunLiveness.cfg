SPECIFICATION FairSpec
CONSTANTS
    Workers = {w1, w2}
    Free = Free
    Orphan = Orphan
    MaxRuns = 2
    MaxPackages = 1
    MaxRepeats = 1
    MaxOverruns = 1
    MaxFaults = 1
PROPERTIES
    RunningEnds
CHECK_DEADLOCK FALSE
