CONSTANTS
    CheckedIds = {e1, e2, e3, e4}
    Capacity = 2
    Ttl = 2
    MaxNow = 5
SPECIFICATION CacheSpec
SYMMETRY IdSymmetry
INVARIANT CacheIsConsistent
PROPERTY RefusesExactlyReplays
