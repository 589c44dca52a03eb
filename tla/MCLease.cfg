SPECIFICATION Spec
CONSTANTS
    Workers = {w1, w2}
    Timeouts = {1, 2}
    MaxTime = 4
    MaxTokens = 4
    Free = Free
    Orphan = Orphan
INVARIANTS
    TypeOK
    LiveHolderOwnsRow
    ExclusiveUntilDeadline
PROPERTIES
    DeadWorkerDoesNotBlock
    ImplementsContract
CHECK_DEADLOCK FALSE
