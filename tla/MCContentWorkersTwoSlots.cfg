SPECIFICATION PunctualSpec
CONSTANTS
    w1 = w1
    w2 = w2
    Worker = {w1}
    NoWorker = NoWorker
    Job <- OneJob
    LeaseDuration = 2
    RetryBaseDelay = 1
    RetryMaxDelay = 1
    Concurrency = 2
    MaxAttempts = 2
    MaxLag = 4
    MaxTime = 5
CHECK_DEADLOCK FALSE
INVARIANT
    AttemptBudget
