SPECIFICATION FairSpec
CONSTANTS
    NumCores = 2
    Conns = {c1, c2, c3}
    MaxConnections = 1
INVARIANTS
    TypeOK
    Counted
    RoundRobin
PROPERTIES
    QueueDrains
CHECK_DEADLOCK FALSE
