CONSTANTS
    w1 = w1
    w2 = w2
    s1 = s1
    NoWorker = NoWorker
    NoSource = NoSource
    Workers <- TwoProcesses
    Kind <- MixedKinds
    Sources <- OneSource
    Tested <- NoneTested
    Requests <- SyncRequests
    SourceOfTarget <- SyncTargets
    MaxJobs = 1
    MaxAttempts = 2
    LeaseTime = 1
    HeartbeatPeriod = 0
    RetryDelay = 0
    Backoffs <- NoDelay
    FullProgress = 1
    FaultBudget = 1
SPECIFICATION SourceSpec
INVARIANT CancelledSyncLeavesSource
