SPECIFICATION FairSpec
CONSTANTS
    Frames <- ControlFrames
    MaxStreams = 1
    GrpcPrefix = 2
    MaxFrames = 3
PROPERTIES
    AnswerReachesWire
    WriterFinishes
CHECK_DEADLOCK FALSE
