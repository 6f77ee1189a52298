SPECIFICATION Spec
CONSTANTS
    n1 = n1
    n2 = n2
    h1 = h1
    h2 = h2
    e1 = e1
    e2 = e2
    Requests <- SafetyRequests
    High <- SafetyHigh
    PromptLen <- SafetyPrompt
    MaxNew <- SafetyMaxNew
    Engines <- SafetyEngines
    EngineOf <- SafetyEngineOf
    Tracked <- SafetyRequests
    BlockSize = 2
    NumBlocks = 4
    MaxBatch = 3
    Preemption = TRUE
CHECK_DEADLOCK FALSE
INVARIANTS
    TypeOK
    OnePlace
    QueueOrder
    AdmissionFits
    BlocksConserved
    CallbackExactlyOnce
    TokenLimit
PROPERTIES
    BlocksComeBack
    ReapedIsFinal
    NoPriorityInversion
    PreemptsLowest
