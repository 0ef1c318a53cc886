SPECIFICATION SignalledSpec
CONSTANTS
    w1 = w1
    w2 = w2
    j1 = j1
    Worker = {w1}
    NoWorker = NoWorker
    Job = {j1}
    LeaseDuration = 2
    PollInterval = 1
    RetryBaseDelay = 1
    RetryMaxDelay = 1
    Concurrency = 1
    MaxConsecutiveFailures = 2
    MaxLag = 1
    MaxTime = 2
CHECK_DEADLOCK FALSE
INVARIANTS
    RemoteCancelledIsTrue
