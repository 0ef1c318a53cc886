SPECIFICATION Spec
CONSTANTS
    w1 = w1
    w2 = w2
    Worker <- Workers
    NoWorker = NoWorker
    Job <- OneJob
    LeaseDuration = 2
    RetryBaseDelay = 1
    RetryMaxDelay = 1
    Concurrency = 1
    MaxAttempts = 2
    MaxLag = 1
    MaxTime = 3
SYMMETRY WorkerSymmetry
CHECK_DEADLOCK FALSE
INVARIANTS
    TypeOK
    NoStrandedJob
    ResultOfLastAttempt
    AttemptBudget
PROPERTIES
    FollowsPolicy
    EventsTellTheTransition
    LeaseHonoured
    ImplementsLifecycle
