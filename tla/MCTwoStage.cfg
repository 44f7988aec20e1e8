CONSTANTS
    Threads = {"data"}
    Senders = {s1}
    MaxSeq = 2
    Fanout <- MCFanout
    SnapshotEvery = 2
    MaxTroubles = 3
    MaxGap = 4
    NoThread = NoThread
SPECIFICATION StageSpec
INVARIANTS
    DropsOnlySeen
    ConsumedOnceInOrder
CHECK_DEADLOCK FALSE
