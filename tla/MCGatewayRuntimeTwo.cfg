SPECIFICATION Spec
CONSTANTS
    s1 = s1
    s2 = s2
    Sessions <- MCTwo
    GatewayVad = FALSE
    MaxBufferSamples = 3
    Preferred = 2
    MaxFrames = 3
    MaxReadyJobs = 2
    MaxQueuedSamples = 3
    BatchLimit = 2
    Commands <- MCFinishAbort
    Happens <- MCSubmitFaults
SYMMETRY Symmetry
CHECK_DEADLOCK FALSE
INVARIANTS
    QueueExact
    SubmittedSessionsOpen
    JobsOwnReservations
