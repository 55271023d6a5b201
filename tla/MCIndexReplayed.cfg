CONSTANTS
    i1 = i1
    NoIndexer = NoIndexer
    Indexers <- OneIndexer
    DocCount = 1
    RequestBudget = 0
    Builds = 2
    MaxAttempts = 2
    RetainRetired = 1
    FaultBudget = 1
SPECIFICATION Spec
PROPERTIES
    ActiveIsKept
CHECK_DEADLOCK FALSE
