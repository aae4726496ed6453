SPECIFICATION FairSpec
CONSTANTS
    older = older
    Instances = {older, i1, i2}
    Version <- MCVersion
    Newest = "0.2"
    Ids = {o1, o2}
    None = None
CHECK_DEADLOCK FALSE
INVARIANTS
    SocketReachesOwner
    ServesTheJournal
PROPERTIES
    EveryServiceSettles
