SPECIFICATION FairServerSpec
CONSTANTS
    n1 = n1
    h1 = h1
    e1 = e1
    Requests <- MCRequests
    High <- MCHigh
    PromptLen <- MCPrompt
    MaxNew <- MCMaxNew
    Engines <- MCEngines
    EngineOf <- MCEngineOf
    Streaming <- MCStreaming
    Tracked = {}
    BlockSize = 2
    NumBlocks = 4
    MaxBatch = 2
    Preemption = TRUE
CHECK_DEADLOCK FALSE
INVARIANTS
    AnswerWhole
    StoredWhileGenerating
PROPERTIES
    AnswerStays
    ClientsAnswered
    ImplementsClientView
