CONSTANTS
    Task = {t1, t2, t3}
    Key = {k1, k2, k3}
    NULL = NULL
    MaxOpenCalls = 2
SPECIFICATION StoreSpec
SYMMETRY TaskSymmetry
INVARIANTS
    UniqueActiveKey
    RunsAfterDependency
    CancelAttribution
    EventsNeverLie
PROPERTIES
    NoDependentLeftBehind
    ImplementsLifecycle
CHECK_DEADLOCK FALSE
