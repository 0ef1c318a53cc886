SPECIFICATION Spec
CONSTANTS
    c1 = c1
    c2 = c2
    t1 = t1
    t2 = t2
    p1 = p1
    p2 = p2
    Client <- Clients
    NoClient = NoClient
    Workloads <- MCWorkloads
    InitialRows <- MCInitialRows
    MaxSends = 2
    MaxFaults = 1
\* Clients stop sending.
CHECK_DEADLOCK FALSE
INVARIANTS
    VersionsGapless
    SameRequestSameRow
    AnswersTrue
    UnavailableExplained
    SourcesPinned
PROPERTIES
    EveryRequestAnswered
