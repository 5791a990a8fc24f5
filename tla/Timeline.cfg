CONSTANTS
    Viewer = {v1}
    NULL = NULL
    History = 1
    MaxPosts = 2
    MaxMessages = 1
    MaxFaults = 1
    QueueMax = 2
SPECIFICATION FairSpec
INVARIANTS
    LogInv
    StreamInv
PROPERTIES
    StreamsEnd
CHECK_DEADLOCK FALSE
