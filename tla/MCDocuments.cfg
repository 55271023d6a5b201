CONSTANTS
    d1 = d1
    d2 = d2
    d3 = d3
    t1 = t1
    a = a
    b = b
    Ids = {d1, d2, d3}
    None = None
    Tasks = {t1}
    Sync = Sync
    Bulk = Bulk
    Dump <- MCDump
    Live <- MCLive
    Unusable = {d3}
    Target = 1
    Reserve = 1
    MaxFailures = 2
    SyncBudget = 2
    EventBudget = 1
    ImportBudget = 2
SPECIFICATION Spec
INVARIANTS DocTypeOK OneOriginal ChunksAreCurrent NoMutualDuplicates
PROPERTIES ImportCovers ImportEnds
CHECK_DEADLOCK FALSE
