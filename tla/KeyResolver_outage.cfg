CONSTANTS
    Key = {k1, k2}
    Lookup = {l1, l2, l3}
    TTL = 1
    Timeout = 1
    MaxCached = 1
    ServerErrors = TRUE
    MaxChanges = 2
    MaxTime = 4
    None = None
SPECIFICATION KeysSpec
CHECK_DEADLOCK FALSE
SYMMETRY CallSymmetry
INVARIANT UnverifiedHadNoAnswer
