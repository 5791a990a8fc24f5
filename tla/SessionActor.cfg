CONSTANTS
    NoCmd = NoCmd
    QueryCmd = {q1, q2, q3}
    InterruptCmd = {i1}
    DisconnectCmd = {d1}
    MaxMessages = 1
    MaxSdkFaults = 1
SPECIFICATION ActorFairSpec
INVARIANTS
    OpenIsHeld
    OneQueryAtATime
PROPERTIES
    CommandsSettle
CHECK_DEADLOCK FALSE
