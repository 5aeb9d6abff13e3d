SPECIFICATION Spec
CONSTANTS
    Frames <- RequestFrames
    MaxStreams = 2
    GrpcPrefix = 2
    MaxFrames = 3
INVARIANTS
    NoZeroIncrement
CHECK_DEADLOCK FALSE
