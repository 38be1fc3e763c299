SPECIFICATION Spec
CONSTANTS
    c1 = c1
    c2 = c2
    Caller = {c1, c2}
    MaxOps = 2
    Requests <- ExportRequests
    ChunkSizes = {2}
    Portable = TRUE
    NoopCounts = TRUE
    Faults = {"stall", "crash"}
SYMMETRY CallerSymmetry
CHECK_DEADLOCK FALSE
INVARIANTS
    HoldsCoverOperation
    AdmittedWritesDrained
PROPERTIES
    FrozenDatasetStable
