SPECIFICATION SaveSpec
CONSTANTS
    MaxSaves = 4
    Torn = Torn
CHECK_DEADLOCK FALSE
INVARIANTS
    AckedSurvives
    LoadedSurvives
