SPECIFICATION Spec
CONSTANTS
    Revisions <- MCRevisions
    MaxFiles = 2
    MaxPatch = 3
    MaxContext = 5
    Overheads = {1, 4}
    MaxFindings = 6
    Proposals <- MCProposals
    MaxAttempts = 2
    None = None
CHECK_DEADLOCK FALSE
INVARIANTS
    TypeOK
    BudgetInOrder
    ReadyIsKeptInFull
    RequiredFindingsStay
