SPECIFICATION FairSpec
CONSTANTS
    Modes = {"null", "pipe"}
    MaxLookups = 2
    QueueCap = 2
    MaxPending = 1
CHECK_DEADLOCK FALSE
INVARIANTS
    CancelReachesEveryProcess
    TrackedUntilDead
    ExitCodeIsReal
PROPERTIES
    GraceRespected
    DoomedEnds
