SPECIFICATION Spec
CONSTANTS
    s1 = s1
    s2 = s2
    g1 = g1
    g2 = g2
    NoSession = NoSession
    Workers <- MCTwoWorkers
    Retiring <- MCOneWorker
    Sessions <- MCTwo
    Gpus <- MCTwoGpus
    Capacity = 1
    MaxSessions = 1
    Happens <- MCLeakingFaults
SYMMETRY Symmetry
CHECK_DEADLOCK FALSE
INVARIANTS
    LeasesExact
