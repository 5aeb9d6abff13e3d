SPECIFICATION Spec
CONSTANTS
    Requests = {1, 3, 5}
    apple = apple
    pear = pear
    Keys = {apple, pear}
    Values = {17}
    None = None
    NumShards = 2
    hash_key <- Hashes
    Operations <- Asked
    ClientTable = 2
INVARIANTS
    ClientFollows
    Headings
    NoneForgotten
PROPERTY
    Linearizable
CHECK_DEADLOCK FALSE
