SPECIFICATION MetricsSpec
CONSTANTS
    n1 = n1
    n2 = n2
    h1 = h1
    e1 = e1
    Requests <- MCRequests
    High <- MCHigh
    PromptLen <- MCPrompt
    MaxNew <- MCMaxNew
    Engines <- MCEngines
    EngineOf <- MCEngineOf
    Streaming <- MCStreaming
    Instant <- MCInstant
    Tracked = {}
    BlockSize = 2
    NumBlocks = 4
    MaxBatch = 2
    Preemption = TRUE
CHECK_DEADLOCK FALSE
INVARIANTS
    TokensCounted
    SampledOnce
    CountedOnce
    CompletedCounted
    GaugeTracksBatch
