SPECIFICATION FairSpec
CONSTANTS
    s1 = s1
    s2 = s2
    s3 = s3
    NoSession = NoSession
    Sessions <- MCOneSession
    EagerModes <- MCLazy
    Operations <- MCStreams
    MaxActiveStreams = 1
    QueueSize = 1
    MaxQueuedAudio = 1
    MaxJobs = 2
PROPERTIES
    PoisonedIsRemoved
