SPECIFICATION Spec
CONSTANTS
    Requests = {q1, q2, q3}
    Workflow = Workflow
    NoRow = NoRow
    NoScan = NoScan
    MaxRework = 2
    MaxRecoveries = 1
SYMMETRY RequestSymmetry
CHECK_DEADLOCK FALSE
INVARIANTS
    TypeOK
    DecisionMatchesCount
    EvidenceIsWhole
PROPERTY
    UndisturbedCallAgrees
