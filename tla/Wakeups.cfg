SPECIFICATION WakeupsSpec
CONSTANTS
    o1 = o1
    o2 = o2
    a1 = a1
    a2 = a2
    c1 = c1
    t1 = t1
    Owner = {o1, o2}
    Actor = {a1}
    MaxActive = 2
    MaxSets = 3
    MaxTries = 1
    Faults = {"stall", "fail", "crash"}
    Client = {c1}
    Tile = {t1}
    FollowUpDelay = 1
    RetryDelay = 1
    BatchDelay = 1
    Skew = 1
    MaxTime = 3
    MaxFlips = 2
    MaxVersions = 2
    MaxBreaks = 1
CHECK_DEADLOCK FALSE
INVARIANTS
    RunsOnce
    AlarmShowsLoss
    ProbeHasWakeup
PROPERTIES
    KeepsPromise
    EvaluatesForward
    ProbesDecided
