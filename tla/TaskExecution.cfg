SPECIFICATION TaskSpec
CONSTANTS
    e1 = e1
    e2 = e2
    r1 = r1
    r2 = r2
    t1 = t1
    t2 = t2
    Jobs <- ReviewedJobs
    Tasks <- OneTask
    TaskOf <- ReviewedTaskOf
    Kind <- ReviewedKind
    Workers = {w1, w2}
    NoJob = NoJob
    NoWorker = NoWorker
    NoThread = NoThread
    MaxAttempts = 2
    MaxRework = 2
    Automatic = TRUE
    Outputs <- AnyVerdict
    FindingsWhen <- Severe
    MaxCrashes = 0
    MaxStalls = 0
    MaxFaults = 1
PROPERTY
    ContractHolds
