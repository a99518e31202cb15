SPECIFICATION FairIssueSpec
CONSTANTS
    a1 = a1
    r1 = r1
    t1 = t1
    Jobs <- IssueJobs
    Tasks <- IssueTasks
    TaskOf <- IssueTaskOf
    Kind <- IssueKind
    Workers = {w1, w2}
    NoJob = NoJob
    NoWorker = NoWorker
    MaxAttempts = 2
    MaxCrashes = 2
    MaxStalls = 0
    MaxFaults = 1
INVARIANTS
    ThreadMatchesRow
    TrailIsTruthful
    FailsForAReason
PROPERTY
    EveryRunEnds
