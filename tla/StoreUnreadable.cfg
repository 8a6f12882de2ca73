CONSTANTS
    Procs = {p1, p2}
    MaxGeneration = 3
    MaxCandidates = 4
    Nonces = {n1}
    InitialStores <- MCLegacyOrEmpty
    Requests <- MCSuccessive
    ReadFaults = TRUE
    Budget <- MCOneFault
SYMMETRY Symmetry
SPECIFICATION Spec
PROPERTIES
    PrunesBehindRollback
