SPECIFICATION Spec
CONSTANTS
    p1 = p1
    p2 = p2
    a1 = a1
    a2 = a2
    Sessions = {s1}
    Operations = {o1, o2}
    Profiles = {p1, p2}
    Commands = {a1, a2}
    Allows <- MCAllows
    MaxSessions = 1
    MaxOperations = 2
    MaxRunning = 2
    MaxUsed = 2
    MaxFaults = 1
    NoSession = NoSession
    NoProfile = NoProfile
    NoCommand = NoCommand
SYMMETRY Symmetry
INVARIANTS
    LaunchedOnce
    ReservedBeforeLaunch
    RunsAuthorized
    PipeFollowsSession
    AnswerIsDurable
    JournalLoadable
    StoresAgree
    NobodyForgotten
PROPERTIES
    LaunchesInTime
    ImplementsLedger
