CONSTANTS
    w1 = w1
    w2 = w2
    NoWorker = NoWorker
    Workers = {w1}
    Created <- MCCreatedLong
    Unusable <- MCUnusableLong
    PageSize = 3
    MaxPages = 2
    Caps = {4}
    Target = 2
    KeylessPages = 2
    Overlap = 0
    Starts <- MCStarts
    Today = 3
    Horizon = 4
    Calm = TRUE
    FaultBudget = 0
    StartBudget = 1
SPECIFICATION Spec
PROPERTY CappedRunSkipsNothing
CHECK_DEADLOCK FALSE
