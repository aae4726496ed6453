SPECIFICATION FairSpec
CONSTANTS
    p1 = p1
    p2 = p2
    a1 = a1
    a2 = a2
    Sessions = {s1, s2}
    Operations = {o1}
    Profiles = {p1}
    Commands = {a1}
    Allows <- MCAllows
    MaxSessions = 2
    MaxOperations = 1
    MaxRunning = 1
    MaxUsed = 1
    MaxFaults = 2
    NoSession = NoSession
    NoProfile = NoProfile
    NoCommand = NoCommand
PROPERTIES
    StopEndsCommands
    StopSettlesOperations
    PipesCloseForAReason
