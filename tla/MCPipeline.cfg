SPECIFICATION PipelineSpec
CONSTANTS
    None = None
    Data = 2
    Passing = {2}
    MaxTx = 2
    Scenarios <- PipelineScenarios
INVARIANTS Q3IsExact StageEofIsExact SplitIsExact AbandonedIsForgotten
PROPERTIES EventuallyFinished ImplementsDelivery SessionEnds
