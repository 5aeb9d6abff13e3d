SPECIFICATION Spec
CONSTANTS
    MaxFrames = 3
    Conversations <- Talk
    GrpcPrefix = 2
INVARIANT
    TypeOK
PROPERTIES
    WholeFrames
    EveryFrameActs
CHECK_DEADLOCK FALSE
