SPECIFICATION Spec
CONSTANTS
    Requests <- UpToFour
    MaxSources = 3
    MaxTokens = 4
    MaxSourceTokens = 2
INVARIANTS
    TypeOK
    WithinBudgets
    PriorityKept
    TruncatedIsExact
    DroppedOnlyForRoom
\* A request ends when its bundle is built or refused.
CHECK_DEADLOCK FALSE
