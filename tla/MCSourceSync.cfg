CONSTANTS
    w1 = w1
    w2 = w2
    NoWorker = NoWorker
    Workers = {w1}
    Created <- MCCreated
    Unusable <- MCUnusable
    PageSize = 2
    MaxPages = 2
    Caps = {1, 3}
    Target = 3
    KeylessPages = 1
    Overlap = 0
    Starts <- MCStarts
    Today = 2
    Horizon = 4
    Calm = TRUE
    FaultBudget = 1
    StartBudget = 3
SPECIFICATION Spec
INVARIANTS SyncTypeOK NothingLost CheckpointSafe
PROPERTIES InitialCovers
CHECK_DEADLOCK FALSE
