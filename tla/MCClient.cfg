SPECIFICATION FairSpec
CONSTANTS
    Callers = {"cli", "mcp"}
    Limit = 1
    MaxBytes = 2
    MaxFrame = 2
    Chunks = 3
CHECK_DEADLOCK FALSE
INVARIANTS
    AnswerIsTheOutcome
    InputInOrder
    UsageAgrees
PROPERTY
    CallerReturns
