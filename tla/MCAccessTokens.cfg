SPECIFICATION Spec
CONSTANTS
    c1 = c1
    c2 = c2
    c3 = c3
    Caller <- Callers
    NoCaller = NoCaller
    RefreshSkew = 5
    MinRefreshWindow = 1
    Lifetimes <- LifetimesOfTokens
    MaxTime = 4
INVARIANTS
    OneFlight
PROPERTIES
    ValidTokens
    EveryoneServed
