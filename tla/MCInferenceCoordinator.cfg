SPECIFICATION Spec
CONSTANTS
    s1 = s1
    s2 = s2
    s3 = s3
    NoSession = NoSession
    Sessions <- MCSessions
    EagerModes <- MCEagerModes
    Operations <- MCMixed
    MaxActiveStreams = 2
    QueueSize = 1
    MaxQueuedAudio = 1
    MaxJobs = 3
INVARIANTS
    CapacityBound
    QueueAccounting
    OneOperationPerSession
    LookupsSucceed
SYMMETRY MCSymmetry
