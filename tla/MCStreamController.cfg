SPECIFICATION ServiceSpec
CONSTANTS
    s1 = s1
    s2 = s2
    NoSession = NoSession
    Sessions <- MCOneSession
    EagerModes <- MCEager
    StreamModes <- MCBothModes
    Operations <- MCOperations
    MaxActiveStreams = 1
    QueueSize = 1
    MaxQueuedAudio = 1
    MaxJobs = 5
INVARIANTS
    IdleBetweenOperations
PROPERTIES
    TerminalEventLast
    HandlersEnd
    SlotComesBack
    CallersReturn
    ShutdownCompletes
CHECK_DEADLOCK FALSE
