SPECIFICATION Spec
CONSTANTS
    Providers <- MCProviders
    MaxSafe = 20
    TokenCounts <- MCTokenCounts
    MockInputTokens <- MCMockInputTokens
    MockOutputTokens = 2
INVARIANTS
    UsageAccounted
PROPERTIES
    CancellationWins
    ImplementsJobProcessor
    EveryProcessingEnds
\* A call of process ends.
CHECK_DEADLOCK FALSE
