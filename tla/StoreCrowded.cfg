CONSTANTS
    Procs = {p1}
    MaxGeneration = 2
    MaxCandidates = 3
    Nonces = {n1, n2, n3}
    InitialStores <- MCLegacyOrEmpty
    Requests <- MCSuccessive
    ReadFaults = FALSE
    Budget <- MCThreeFaults
SYMMETRY Symmetry
SPECIFICATION Spec
PROPERTIES
    RejectedWriteLeavesLoadable
