SPECIFICATION Spec
CONSTANTS
    HeaderCells = 2
    MaxPayload = 2
    MaxRecords = 3
    MaxTears = 1
    Garbled = Garbled
INVARIANT NothingLoggedIsLost
CHECK_DEADLOCK FALSE
