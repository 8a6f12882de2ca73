CONSTANTS
    Procs = {p1, p2}
    MaxGeneration = 2
    MaxCandidates = 4
    Nonces = {n1}
    InitialStores <- MCLegacy
    Requests <- MCSuccessive
    ReadFaults = FALSE
    Budget <- MCFaultAndCrash
SYMMETRY Symmetry
SPECIFICATION DurableSpec
INVARIANTS
    ReportsSurvive
