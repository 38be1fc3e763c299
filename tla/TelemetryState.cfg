SPECIFICATION Spec
CONSTANTS
    r1 = r1
    r2 = r2
    isolate = isolate
    sweep = sweep
    Reporter <- MCReporter
    Runtime <- MCRuntime
    RuntimeOf <- MCRuntimeOf
    Sweeper <- MCSweeper
    Generations = 1
    MaxCalls = 2
    MaxFaults = 1
    CountsMatches = TRUE
    MaxAttempts = 2
    MaxChanges = 1
    MaxMishaps = 1
    ReconcileAttempts = 2
    MaxCommits = 2
    MaxTemplates = 1
    MaxFailures = 1
    MaxRevisions = 2
    MaxOutages = 1
CHECK_DEADLOCK FALSE
INVARIANTS
    TypesOK
    BytesKept
    AcknowledgesNewest
    CoverageCurrent
    ManifestCurrent
    RevisionNamesContent
    NothingSkipped
    PublishedRecoverable
    BehindHasNews
PROPERTIES
    GarbageCollected
    StatusCatchesUp
    NeverGoesBack
