SPECIFICATION Spec
CONSTANTS
    None = None
    Data = 2
    Passing = {2}
    MaxTx = 2
    Scenarios <- LeaderCrash
INVARIANT LeaderCrashIsRebuilt
CHECK_DEADLOCK FALSE
