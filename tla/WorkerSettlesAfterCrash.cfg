CONSTANTS
    Task = {t1, t2}
    Key = {k1, k2}
    NULL = NULL
    Resumable = {t1}
    NoProvider = {t2}
    Capacity = 1
    MaxRestarts = 1
    MaxFlaps = 1
    MaxOpenCalls = 0
SPECIFICATION FairSpec
PROPERTIES
    RunningSettles
