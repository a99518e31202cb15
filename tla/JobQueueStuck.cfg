SPECIFICATION Spec
CONSTANTS
    e1 = e1
    r1 = r1
    p2 = p2
    t1 = t1
    t2 = t2
    Jobs <- OneTaskJobs
    Tasks <- OneTask
    TaskOf <- OneTaskOf
    Kind <- OneTaskKind
    Workers = {w1, w2}
    NoJob = NoJob
    NoWorker = NoWorker
    MaxAttempts = 2
    MaxCrashes = 1
    MaxStalls = 1
INVARIANT NoStuckTask
