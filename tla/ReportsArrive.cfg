SPECIFICATION ReportsFairSpec
CONSTANTS
    r1 = r1
    r2 = r2
    e1 = e1
    e2 = e2
    e3 = e3
    t1 = t1
    t2 = t2
    Request = {r1}
    Event = {e1, e2}
    Occurred <- TwoBuckets
    Resolution = 2
    Grace = 1
    Retention = 1
    BatchLimit = 1
    Cap = 2
    MaxTime = 5
    MaxSends = 2
    Faults = {"d1", "db", "crash"}
    Part = {"counters", "repeats"}
    Tile = {t1, t2}
    TileOf <- MCTileOf
    MaxDeliveries = 3
    MaxRecent = 2
    MaxOffers = 2
    MaxHeld = 1
    MaxOwners = 2
    MaxManifests = 3
    MaxExpiries = 1
CHECK_DEADLOCK FALSE
INVARIANTS
    ExactAndArmed
PROPERTIES
    FlushedAtLast
    OffersArrive
