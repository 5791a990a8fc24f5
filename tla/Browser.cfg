CONSTANTS
    a = a
    b = b
    c = c
    p = p
    q = q
    Session = {a, b, c}
    Project = {p, q}
    Home <- MCHome
    Unborn = {b}
    NULL = NULL
    MaxEntries = 4
    MaxMoves = 2
    MaxLoads = 2
    MaxPosts = 1
    MaxFaults = 1
    ProjectName = {p, q}
    Caller = {c1, c2}
    None = None
    MaxVersion = 2
    MaxTrips = 2
    MaxBreaks = 1
SPECIFICATION MCSpec
CONSTRAINT Watched
INVARIANTS
    PaneInv
    CopyInv
PROPERTIES
    EndsShown
    ToldTruly
    CopyCatchesUp
CHECK_DEADLOCK FALSE
