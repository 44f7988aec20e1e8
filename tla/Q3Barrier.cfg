SPECIFICATION Spec
CONSTANTS
    Clients = {c1, c2}
    Aborted = {c2}
    Batches = 1
    SnapshotEvery = 2
    MaxCrashes = 1
    MaxFails = 1
    Zero = Zero
INVARIANTS  ExactBeforeSnapshot  OneResult
CHECK_DEADLOCK FALSE
