SPECIFICATION Spec
CONSTANTS
    caching = caching
    plain = plain
    Operations = {o1, o2, o3}
    Profiles = {caching, plain}
    CacheTtl <- MCCacheTtl
    Ttl = 2
    Second = 2
    MaxTime = 5
    MaxOffset = 2
    MaxEpoch = 2
    NoValue = NoValue
SYMMETRY Symmetry
CHECK_DEADLOCK FALSE
INVARIANT
    CachedIsCurrent
PROPERTY
    DeadlineHolds
