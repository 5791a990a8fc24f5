CONSTANTS
    Sid = {s1, s2, s3}
    Known = {s1}
    Inst = {m1, m2}
    Request = {r1, r2}
    NULL = NULL
    Capacity = 1
    MaxOps = 2
    MaxFaults = 1
SPECIFICATION FairSpec
INVARIANTS
    SessionInv
PROPERTIES
    TurnsEnd
CHECK_DEADLOCK FALSE
