SPECIFICATION BatchSpec
CONSTANTS
    r1 = r1
    r2 = r2
    r3 = r3
    a = a
    b = b
    eos = eos
    Requests <- MCRequests
    Vocabulary <- MCVocabulary
    Eos = eos
    Prompt <- MCPrompt
    MaxNew <- MCMaxNew
CHECK_DEADLOCK FALSE
INVARIANTS
    TypeOK
    CacheIsHistory
PROPERTIES
    ImplementsSequential
