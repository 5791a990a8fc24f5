CONSTANTS
    VideoTask = {t1, t2}
    NoTask = NoTask
    Unguarded = {t2}
    LateTooLarge = {t2}
    Attempts = 2
    LadderSteps = 1
    MaxCrashes = 2
SPECIFICATION CallFairSpec
CHECK_DEADLOCK FALSE
INVARIANTS
    CallInv
    OneJob
PROPERTIES
    CallsSettle
