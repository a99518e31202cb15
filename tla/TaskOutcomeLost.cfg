SPECIFICATION TaskSpec
CONSTANTS
    e1 = e1
    e2 = e2
    r1 = r1
    r2 = r2
    t1 = t1
    t2 = t2
    Jobs <- OneJobs
    Tasks <- OneTask
    TaskOf <- OneTaskOf
    Kind <- OneKind
    Workers = {w1}
    NoJob = NoJob
    NoWorker = NoWorker
    NoThread = NoThread
    MaxAttempts = 2
    MaxRework = 2
    Automatic = TRUE
    Outputs <- ClearVerdict
    FindingsWhen <- Always
    MaxCrashes = 1
    MaxStalls = 0
    MaxFaults = 0
INVARIANT RecoveryKeepsOutcome
