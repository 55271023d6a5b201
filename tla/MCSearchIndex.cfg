CONSTANTS
    i1 = i1
    NoIndexer = NoIndexer
    Indexers <- OneIndexer
    DocCount = 2
    RequestBudget = 1
    Builds = 2
    MaxAttempts = 2
    RetainRetired = 1
    FaultBudget = 1
SPECIFICATION Spec
INVARIANTS
    IndexTypeOK
    ServedExists
    AliasFollows
PROPERTIES
    ReadyIsComplete
    StatusEarned
    HandlerAdvances
CHECK_DEADLOCK FALSE
