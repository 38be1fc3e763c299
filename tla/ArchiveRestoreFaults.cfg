SPECIFICATION FairSpec
CONSTANTS
    c1 = c1
    c2 = c2
    Caller = {c1, c2}
    MaxOps = 2
    Requests <- RestoreRequests
    ChunkSizes = {2}
    Portable = FALSE
    NoopCounts = TRUE
    Faults = {"fail", "crash"}
CHECK_DEADLOCK FALSE
INVARIANTS
    SafeThroughFaults
PROPERTIES
    StaleFreezeHeals
