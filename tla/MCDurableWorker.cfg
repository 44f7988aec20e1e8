CONSTANTS
    Threads = {"data", "ctrl"}
    Senders = {s1}
    MaxSeq = 1
    Fanout <- MCFanout
    SnapshotEvery = 2
    MaxTroubles = 2
    MaxGap = 4
    NoThread = NoThread
SPECIFICATION FairSpec
INVARIANTS
    TypeOK
    AppliedOnce
    AckedIsDurable
    AckedIsDelivered
    OutputIdsStable
    CrashLosesNothing
    OutboxMatchesInbox
    IInv
    NothingOvertakes
PROPERTIES
    DoneIsForever
    ImplementsExactlyOnce
    EventuallyAcked
CHECK_DEADLOCK FALSE
