SPECIFICATION FairTaskSpec
CONSTANTS
    e1 = e1
    e2 = e2
    r1 = r1
    r2 = r2
    t1 = t1
    t2 = t2
    Jobs <- OverlapJobs
    Tasks <- OneTask
    TaskOf <- OverlapTaskOf
    Kind <- OverlapKind
    Workers = {w1, w2}
    NoJob = NoJob
    NoWorker = NoWorker
    NoThread = NoThread
    MaxAttempts = 2
    MaxRework = 1
    Automatic = TRUE
    Outputs <- HighVerdict
    FindingsWhen <- Severe
    MaxCrashes = 2
    MaxStalls = 0
    MaxFaults = 0
INVARIANTS
    ReviewCanBeDecided
    NoImplementationUnlessApproved
    SettledIsAudited
PROPERTY
    EveryJobFinishes
