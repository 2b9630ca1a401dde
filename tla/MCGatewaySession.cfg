CONSTANTS
    MaxBufferSamples = 3
    MaxAudioSamples = 5
    MaxJobs = 3
    FrameSizes <- MCFrameSizes
SPECIFICATION Spec
INVARIANTS
    TypeOK
    Conservation
    HandOverFits
    ReservationIsOwned
    CursorsAgree
PROPERTIES
    DecodesInOrder
CHECK_DEADLOCK FALSE
