CONSTANTS
    w1 = w1
    w2 = w2
    s1 = s1
    NoWorker = NoWorker
    NoSource = NoSource
    Workers <- TwoProcesses
    Kind <- WorkerKinds
    Sources <- OneSource
    Tested <- NoneTested
    Requests <- MixedRequests
    SourceOfTarget <- MixedTargets
    MaxJobs = 2
    MaxAttempts = 2
    LeaseTime = 2
    HeartbeatPeriod = 1
    RetryDelay = 1
    Backoffs <- NoDelay
    FullProgress = 1
    FaultBudget = 1
SPECIFICATION SourceSpec
INVARIANTS
    TypeOK
    QueuedIsClaimable
    CurrentJobIsOwned
    OneActivePerTarget
    TimelyOwner
    TimelyExclusive
    SyncCancelledOnRequest
    SourceTypeOK
    CurrentIsActive
PROPERTIES Fenced ImplementsLifecycle ActiveKeepsItsSource
SYMMETRY Symmetry
