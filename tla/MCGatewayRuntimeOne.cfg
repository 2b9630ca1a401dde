SPECIFICATION FairSpec
CONSTANTS
    s1 = s1
    s2 = s2
    Sessions <- MCOne
    GatewayVad = TRUE
    MaxBufferSamples = 2
    Preferred = 2
    MaxFrames = 3
    MaxReadyJobs = 2
    MaxQueuedSamples = 2
    BatchLimit = 2
    Commands <- MCAllCommands
    Happens <- MCOutside
CHECK_DEADLOCK FALSE
INVARIANTS
    TerminalEventIsLast
PROPERTIES
    JobsSettle
    HangsOnlyThen
