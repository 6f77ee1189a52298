SPECIFICATION FairSpec
CONSTANTS
    n1 = n1
    n2 = n2
    h1 = h1
    h2 = h2
    e1 = e1
    e2 = e2
    Requests <- LiveRequests
    High <- LiveHigh
    PromptLen <- LivePrompt
    MaxNew <- LiveMaxNew
    Engines <- LiveEngines
    EngineOf <- LiveEngineOf
    Tracked = {}
    BlockSize = 2
    NumBlocks = 3
    MaxBatch = 1
    Preemption = TRUE
CHECK_DEADLOCK FALSE
INVARIANTS
    BatchCap
PROPERTIES
    Answered
