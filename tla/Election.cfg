SPECIFICATION FairSpec
CONSTANTS
    N = 3
    MaxEpoch = 9
    MaxCrashes = 1
    MaxTimeouts = 0
INVARIANT TypeOK
PROPERTIES EpochNeverDecreases NeverFollowsOlder Converges
CHECK_DEADLOCK FALSE
