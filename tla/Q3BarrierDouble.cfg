SPECIFICATION Spec
CONSTANTS
    Clients = {c1}
    Aborted = {}
    Batches = 2
    SnapshotEvery = 1
    MaxCrashes = 2
    MaxFails = 0
    Zero = Zero
INVARIANT LogExact
CHECK_DEADLOCK FALSE
