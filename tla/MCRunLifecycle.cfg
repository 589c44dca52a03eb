SPECIFICATION Spec
CONSTANTS
    Workers = {w1, w2}
    Free = Free
    Orphan = Orphan
    MaxRuns = 3
    MaxPackages = 2
    MaxRepeats = 1
    MaxOverruns = 0
    MaxFaults = 1
SYMMETRY WorkerSymmetry
INVARIANTS
    TypeOK
    OneInFlight
    SucceededMeansFetched
    CreditedToExtractor
    LandedIsCredited
PROPERTIES
    GreenMeansDrained
    FinishedStaysFinished
    ReaperSparesTheLiving
CHECK_DEADLOCK FALSE
