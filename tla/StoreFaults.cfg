CONSTANTS
    Procs = {p1, p2}
    MaxGeneration = 2
    MaxCandidates = 4
    Nonces = {n1}
    InitialStores <- MCAnyStore
    Requests <- MCSkipping
    ReadFaults = FALSE
    Budget <- MCFaultAndCrash
SYMMETRY Symmetry
SPECIFICATION Spec
PROPERTIES
    DeletionIsFinal
    PrunesBehindRollback
    CleanCommitLeavesNoDebris
    RegisterSpec
