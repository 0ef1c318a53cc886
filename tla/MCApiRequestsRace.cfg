SPECIFICATION Spec
CONSTANTS
    c1 = c1
    c2 = c2
    t1 = t1
    t2 = t2
    p1 = p1
    p2 = p2
    Client <- Clients
    NoClient = NoClient
    Workloads <- RaceWorkloads
    InitialRows <- MCInitialRows
    MaxSends = 1
    MaxFaults = 0
\* Clients stop sending.
CHECK_DEADLOCK FALSE
INVARIANTS
    UnavailableMeansFault
