CONSTANTS
    long = long
    short = short
    Sessions = {long, short}
    MaxSamples <- MCSamples
    Speech <- MCSpeech
    Stops <- MCStops
    Wrong <- MCWrong
    Blanks <- MCBlanks
    Kinds = {"sensevoice", "faster_whisper", "local", "stateful", "chunked"}
    MaxSegment = 3
    Preferred = 2
    MaxFrame = 2
    MaxBuffered = 3
    MaxBatch = 2
SPECIFICATION Spec
INVARIANTS
    ClientView
    SpeechDelivered
    SegmentAudio
    NoConflict
PROPERTIES
    LimitKept
CHECK_DEADLOCK FALSE
