SPECIFICATION Spec
CONSTANTS
    HeaderCells = 2
    MaxPayload = 2
    MaxRecords = 4
    MaxTears = 2
    Garbled = Garbled
INVARIANTS CleanStop 
CHECK_DEADLOCK FALSE
