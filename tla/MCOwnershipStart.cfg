SPECIFICATION Spec
CONSTANTS
    older = older
    Instances = {older, i1, i2}
    Version <- MCVersion
    Newest = "0.2"
    Ids = {o1, o2}
    None = None
SYMMETRY Symmetry
CHECK_DEADLOCK FALSE
INVARIANT
    StartKeepsDaemon
