CONSTANTS
    Threads = {"data", "ctrl"}
    Senders = {s1}
    MaxSeq = 0
    Fanout <- MCFanout
    SnapshotEvery = 2
    MaxTroubles = 0
    MaxGap = 4
    NoThread = NoThread
SPECIFICATION StageSpec
INVARIANT
    DropsOnlySeen
CHECK_DEADLOCK FALSE
