CONSTANTS
    NULL = NULL
    NoOwner = NoOwner
    Worker = {w1, w2}
    Gone = Gone
    Ttl = 2
    MaxAge = 2
    Task = {t1, t2, t3}
    k1 = k1
    k2 = k2
    Key = {k1, k2}
    Specs <- MCSpecs
    MaxOthers = 1
    Grace = 1
    Timeout = 2
SPECIFICATION MCSpec
INVARIANTS
    FreshOwnerAlone
    BatchInv
PROPERTIES
    LeaseFound
    BatchEnds
CHECK_DEADLOCK FALSE
