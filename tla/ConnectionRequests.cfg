SPECIFICATION Spec
CONSTANTS
    Frames <- RequestFrames
    MaxStreams = 2
    GrpcPrefix = 2
    MaxFrames = 4
INVARIANTS
    TypeOK
    OneAnswer
    StreamsBounded
    TableFollowsPeer
    CreditReturned
PROPERTIES
    RequestIntact
    Lifecycle
CHECK_DEADLOCK FALSE
