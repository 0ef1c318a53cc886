SPECIFICATION EndlessSpec
CONSTANTS
    w1 = w1
    w2 = w2
    j1 = j1
    Worker <- Workers
    NoWorker = NoWorker
    Job = {j1}
    LeaseDuration = 1
    PollInterval = 1
    RetryBaseDelay = 1
    RetryMaxDelay = 1
    Concurrency = 1
    MaxConsecutiveFailures = 2
    MaxLag = 0
    MaxTime = 1
CHECK_DEADLOCK FALSE
PROPERTIES
    EveryPublishEnds
