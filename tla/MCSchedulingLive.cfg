SPECIFICATION FairSpec
CONSTANTS
    Workers = {w1, w2}
    Free = Free
    Orphan = Orphan
    Schedulers = {s1}
    Deliveries = {d1}
    MaxTasks = 1
PROPERTIES
    EveryChangeRead
    QueuedRunEnds
