SPECIFICATION Spec
CONSTANTS
    Paths <- MCPaths
    Encodings = {"gzip", "br"}
    Known = {"gzip"}
    Services <- MCServices
    MaxStreams = 1
    RefusedInserts = FALSE
    None = None
    MaxEntries = 3
    MaxRequests = 3
INVARIANTS
    EncodingAsSent
CHECK_DEADLOCK FALSE
