CONSTANTS
    Task = {t1, t2}
    Key = {k1, k2}
    NULL = NULL
    Resumable = {t1, t2}
    NoProvider = {t2}
    Capacity = 1
    MaxRestarts = 2
    MaxFlaps = 1
    MaxOpenCalls = 1
SPECIFICATION Spec
SYMMETRY KeySymmetry
INVARIANTS
    WorkerInv
    AtMostOneSubmission
    SoleExecutor
