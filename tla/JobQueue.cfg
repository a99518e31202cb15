SPECIFICATION Spec
CONSTANTS
    e1 = e1
    r1 = r1
    p2 = p2
    t1 = t1
    t2 = t2
    Jobs <- MCJobs
    Tasks <- MCTasks
    TaskOf <- MCTaskOf
    Kind <- MCKind
    Workers = {w1, w2}
    NoJob = NoJob
    NoWorker = NoWorker
    MaxAttempts = 2
    MaxCrashes = 2
    MaxStalls = 1
SYMMETRY WorkerSymmetry
INVARIANTS
    TypeOK
    OneExecutor
    TasksKeepAJob
    LeaseTracksRunning
