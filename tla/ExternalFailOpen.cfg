SPECIFICATION Spec
CONSTANTS
    Requests = {q1, q2}
    Workflow = Workflow
    NoRow = NoRow
    NoScan = NoScan
    MaxRework = 2
    MaxRecoveries = 1
INVARIANT
    FailClosed
CHECK_DEADLOCK FALSE
