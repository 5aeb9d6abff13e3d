SPECIFICATION Spec
CONSTANTS
    Frames <- RequestFrames
    MaxStreams = 2
    GrpcPrefix = 2
    MaxFrames = 3
PROPERTIES
    ContinuationExclusive
CHECK_DEADLOCK FALSE
