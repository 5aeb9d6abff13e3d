SPECIFICATION Spec
CONSTANTS
    Paths <- MCPaths
    Encodings = {"gzip", "zstd"}
    Known = {"gzip", "zstd"}
    Services <- MCServices
    MaxStreams = 1
    RefusedInserts = FALSE
    None = None
    MaxEntries = 3
    MaxRequests = 3
INVARIANTS
    TypeOK
    RouteAsSent
    EncodingAsSent
    ClosedForUnknownOnly
    CacheIndicesFit
    EveryLiteralInserted
CHECK_DEADLOCK FALSE
