CONSTANTS
    Procs = {p1, p2}
    Sessions = {s1, s2}
    MaxTask = 2
    MaxTime = 1
    Lifetime = 1
    MaxEntries = 4
    Overlap = FALSE
    Budget <- MCFaultAndCrash
SYMMETRY Symmetry
SPECIFICATION Spec
INVARIANTS
    CacheIsOrderly
    DeliveredSupersedes
PROPERTIES
    GuidanceStaysDeleted
    InspectionIsSnapshot
