CONSTANTS
    w1 = w1
    w2 = w2
    s1 = s1
    NoWorker = NoWorker
    NoSource = NoSource
    Workers <- OneProcess
    Kind <- LoneKind
    Sources <- OneSource
    Tested <- OneSource
    Requests <- SyncRequests
    SourceOfTarget <- SyncTargets
    MaxJobs = 2
    MaxAttempts = 2
    LeaseTime = 1
    HeartbeatPeriod = 0
    RetryDelay = 0
    Backoffs <- NoDelay
    FullProgress = 1
    FaultBudget = 1
SPECIFICATION SourceFairSpec
PROPERTIES SyncingEnds EveryJobEnds ShutdownEnds
