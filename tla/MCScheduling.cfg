SPECIFICATION Spec
CONSTANTS
    Workers = {w1, w2}
    Free = Free
    Orphan = Orphan
    Schedulers = {s1, s2}
    Deliveries = {d1}
    MaxTasks = 1
SYMMETRY Symmetry
INVARIANTS
    TypeOK
    OneClaim
PROPERTIES
    ForgottenOnlyByFailure
