\* Two callers at a time, three in all, two days of three units; a breaker that
\* opens at the second failure.  No symmetry: it is not sound for liveness.
SPECIFICATION FairSpec
CONSTANTS
    Callers = {c1, c2}
    Threshold = 2
    OpenPeriod = 2
    OpenKeyTTL = 3
    Window = 3
    Attempts = 2
    Day = 3
    TTLBuffer = 1
    TokenLimit = 1
    QueryLimit = 1
    MaxTokens = 1
    MaxTime = 4
    MaxCalls = 3
CHECK_DEADLOCK FALSE
INVARIANTS
    TypeOK
    AllowanceHolds
    CounterCoversDay
    FailureWindowEnds
    NobodyLetInWhileOpen
PROPERTIES
    CallsEnd
