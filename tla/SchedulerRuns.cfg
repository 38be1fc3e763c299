SPECIFICATION ImportsSpec
CONSTANTS
    o1 = o1
    o2 = o2
    a1 = a1
    a2 = a2
    Owner = {o1}
    Actor = {a1, a2}
    MaxActive = 1
    MaxSets = 2
    MaxTries = 1
    Faults = {"fail", "crash"}
    MaxTiles = 2
    MaxSnapshots = 2
    Budget <- Budgets
CHECK_DEADLOCK FALSE
INVARIANTS
    BackfillSound
PROPERTIES
    EventuallyRuns
    JobsEnd
