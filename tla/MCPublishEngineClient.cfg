SPECIFICATION FairSpec
CONSTANTS
    MaxRetries = 2
    RequestTimeout = 4
    PollInterval = 2
    MaxWait = 5
    RetryBaseDelay = 1
    RetryMaxDelay = 2
    JitterPercent = 100
    RetryAfter <- Headers
    MaxLag = 2
    MaxTime = 16
INVARIANTS
    OverInTime
    TimeoutTruthful
PROPERTIES
    FinalWord
    CallEnds
    ImplementsRemoteCall
