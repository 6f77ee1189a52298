SPECIFICATION Spec
CONSTANTS
    r1 = r1
    r2 = r2
    b1 = b1
    b2 = b2
    b3 = b3
    Zero = Zero
    Requests <- MCRequests
    Blocks <- MCBlocks
    BlockSize = 2
    MaxTokens = 4
SYMMETRY MCSymmetry
INVARIANTS
    TypeOK
    OneOwner
    MetadataIffUsed
    FreeBlocksZeroed
    Isolation
    ReadsEveryToken
PROPERTIES
    OthersUntouched
    SwapKeepsData
    LeakOnlyByOverwrite
    ImplementsPool
