SPECIFICATION Spec
CONSTANTS
    None = None
    Data = 2
    Passing = {2}
    MaxTx = 2
    Scenarios <- MCScenarios
INVARIANTS NothingDropped EofTotalIsExact  
CHECK_DEADLOCK FALSE
