\* Chunks of 5 tokens that overlap in 2, texts of up to 40 tokens split into
\* blocks in every way; of their chunks, the first 3 of every ranking.
SPECIFICATION Spec
CONSTANTS
    Size = 5
    Overlap = 2
    MaxTokens = 40
    TopK = 3
    ContextBudget = 13
    HistoryBudget = 4
    ThisLabel = 1
    OtherLabel = 3
    MaxMessages = 4
CHECK_DEADLOCK FALSE
INVARIANTS
    TypeOK
    NothingLost
    ChunkGrid
    LastChunkIsNew
    PromptFillsBudgets
