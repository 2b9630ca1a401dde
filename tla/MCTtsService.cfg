SPECIFICATION Spec
CONSTANTS
    a = a
    b = b
    h = h
    Sockets <- MCSockets
    Posts <- MCPosts
    Kinds = {"cosyvoice", "remote", "triton", "qwen"}
    Crowd <- MCCrowd
    MaxStreams = 1
    QueueSize = 1
    BatchSize = 2
    MaxTexts = 2
    MaxChunks = 3
    MaxWorkers = 3
INVARIANTS
    SlotsExact
    AudioComplete
PROPERTIES
    ProducersEnd
    BatchesAnswered
    WorkersStop
CHECK_DEADLOCK FALSE
