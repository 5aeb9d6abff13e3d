SPECIFICATION Spec
CONSTANTS
    Paths <- MCPaths
    Encodings = {"gzip", "zstd"}
    Known = {"gzip", "zstd"}
    Services <- MCServices
    MaxStreams = 1
    RefusedInserts = TRUE
    None = None
    MaxEntries = 3
    MaxRequests = 3
INVARIANTS
    EveryLiteralInserted
CHECK_DEADLOCK FALSE
