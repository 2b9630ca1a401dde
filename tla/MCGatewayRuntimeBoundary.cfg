SPECIFICATION FairSpec
CONSTANTS
    s1 = s1
    s2 = s2
    Sessions <- MCOne
    GatewayVad = FALSE
    MaxBufferSamples = 3
    Preferred = 2
    MaxFrames = 3
    MaxReadyJobs = 2
    MaxQueuedSamples = 3
    BatchLimit = 2
    Commands <- MCSegmentFinish
    Happens <- MCNoFault
CHECK_DEADLOCK FALSE
PROPERTIES
    HandlerReturns
