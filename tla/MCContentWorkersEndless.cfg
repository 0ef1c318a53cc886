SPECIFICATION EndlessSpec
CONSTANTS
    w1 = w1
    w2 = w2
    Worker <- Workers
    NoWorker = NoWorker
    Job <- OneJob
    LeaseDuration = 1
    RetryBaseDelay = 1
    RetryMaxDelay = 1
    Concurrency = 1
    MaxAttempts = 2
    MaxLag = 0
    MaxTime = 1
CHECK_DEADLOCK FALSE
PROPERTIES
    EveryJobEnds
    ShutdownEnds
