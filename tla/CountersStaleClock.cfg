SPECIFICATION Spec
CONSTANTS
    r1 = r1
    r2 = r2
    e1 = e1
    e2 = e2
    e3 = e3
    Request = {r1, r2}
    Event = {e1, e2}
    Occurred <- OneBucket
    Resolution = 1
    Grace = 1
    Retention = 1
    BatchLimit = 1
    Cap = 2
    MaxTime = 4
    MaxSends = 2
    Faults = {}
CHECK_DEADLOCK FALSE
INVARIANTS
    NothingHidden
SYMMETRY CallSymmetry
