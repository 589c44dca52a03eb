SPECIFICATION ProjectingSpec
CONSTANTS
    Workers = {w1, w2}
    Keys <- MCKeys
    Stages = {1, 2}
    Resources = {"feed", "single", "wide"}
    Docs <- MCDocs
    Target <- MCTarget
    BatchSizes <- MCBatchSizes
    Policies = {"fail", "skip"}
    MaxLoads = 2
    MaxRequests <- MCMaxRequests
SYMMETRY WorkerSymmetry
INVARIANTS
    HostShowsLanding
    TombstonesProject
PROPERTIES
    BatchesDoNotMatter
CHECK_DEADLOCK FALSE
