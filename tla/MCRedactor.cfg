SPECIFICATION StreamSpec
CONSTANTS
    Bytes = {a, b}
    Mark = Mark
    MaxSecret = 3
    MaxSecrets = 2
    MaxChunk = 2
    MaxInput = 7
CHECK_DEADLOCK FALSE
INVARIANT
    ChunksDoNotMatter
