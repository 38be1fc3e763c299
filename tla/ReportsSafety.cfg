SPECIFICATION ReportsSpec
CONSTANTS
    r1 = r1
    r2 = r2
    e1 = e1
    e2 = e2
    e3 = e3
    t1 = t1
    t2 = t2
    Request = {r1, r2}
    Event = {e1, e2, e3}
    Occurred <- OneBucket
    Resolution = 1
    Grace = 1
    Retention = 1
    BatchLimit = 1
    Cap = 2
    MaxTime = 4
    MaxSends = 3
    Faults = {}
    Part = {"counters", "manifests", "connections"}
    Tile = {t1, t2}
    TileOf <- MCTileOf
    MaxDeliveries = 3
    MaxRecent = 1
    MaxOffers = 2
    MaxHeld = 1
    MaxOwners = 2
    MaxManifests = 3
    MaxExpiries = 1
CHECK_DEADLOCK FALSE
INVARIANTS
    ReportsTypesOK
    ExactAndArmed
    AtMostOnce
    WithinCap
    RejectionsCurrent
PROPERTIES
    OffersKept
SYMMETRY CallSymmetry
