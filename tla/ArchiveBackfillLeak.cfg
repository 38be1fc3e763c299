SPECIFICATION Spec
CONSTANTS
    c1 = c1
    c2 = c2
    Caller = {c1, c2}
    MaxOps = 1
    Requests <- RestoreRequests
    ChunkSizes = {3}
    Portable = FALSE
    NoopCounts = TRUE
    Faults = {"fail"}
SYMMETRY CallerSymmetry
CHECK_DEADLOCK FALSE
INVARIANT DiscardLeavesNoBackfill
