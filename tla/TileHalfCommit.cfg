SPECIFICATION BlobsSpec
CONSTANTS
    r1 = r1
    isolate = isolate
    sweep = sweep
    Reporter <- MCReporter
    Runtime <- MCRuntime
    RuntimeOf <- MCRuntimeOf
    Sweeper <- MCSweeper
    Generations = 1
    MaxCalls = 2
    MaxFaults = 0
    CountsMatches = TRUE
CHECK_DEADLOCK FALSE
PROPERTY NullMeansNoReference
