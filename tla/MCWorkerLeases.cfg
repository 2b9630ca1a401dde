SPECIFICATION FairSpec
CONSTANTS
    s1 = s1
    s2 = s2
    g1 = g1
    g2 = g2
    NoSession = NoSession
    Workers <- MCOneWorker
    Retiring <- MCOneWorker
    Sessions <- MCTwo
    Gpus <- MCOneGpu
    Capacity = 2
    MaxSessions = 2
    Happens <- MCOrdinaryFaults
CHECK_DEADLOCK FALSE
INVARIANTS
    NothingLeftBehind
PROPERTIES
    DrainEnds
