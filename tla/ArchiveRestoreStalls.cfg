SPECIFICATION Spec
CONSTANTS
    c1 = c1
    c2 = c2
    Caller = {c1, c2}
    MaxOps = 1
    Requests <- RestoreRequests
    ChunkSizes = {2}
    Portable = FALSE
    NoopCounts = TRUE
    Faults = {"stall"}
SYMMETRY CallerSymmetry
CHECK_DEADLOCK FALSE
INVARIANTS
    RestoreComplete
    DiscardLeavesNothing
    EndedForGood
PROPERTIES
    ConflictMeansChanged
    LiveDataSurvives
