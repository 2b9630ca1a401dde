CONSTANTS
    FrameSamples = 2
    MinSpeech = 4
    MinSilence = 5
    Hangover = 1
    PreRoll = 3
    MaxInput = 16
    InputSizes <- MCInputSizes
SPECIFICATION Spec
INVARIANTS
    TypeOK
    SamplesConserved
    HeldIsBounded
    EndpointHasUtterance
PROPERTIES
    ImplementsContract
CHECK_DEADLOCK FALSE
