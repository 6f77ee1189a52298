SPECIFICATION FairSpec
CONSTANTS
    n1 = n1
    n2 = n2
    h1 = h1
    h2 = h2
    e1 = e1
    e2 = e2
    Requests <- PairRequests
    High <- PairHigh
    PromptLen <- PairPrompt
    MaxNew <- PairMaxNew
    Engines <- PairEngines
    EngineOf <- PairEngineOf
    Tracked = {}
    BlockSize = 2
    NumBlocks = 3
    MaxBatch = 2
    Preemption = TRUE
CHECK_DEADLOCK FALSE
PROPERTY
    StepReturns
