CONSTANTS
    Procs = {p1, p2}
    MaxGeneration = 2
    MaxCandidates = 4
    Nonces = {n1}
    InitialStores <- MCCurrent
    Requests <- MCSkipping
    ReadFaults = FALSE
    Budget <- MCOneDamage
SPECIFICATION FairSpec
INVARIANTS
    GateExclusive
    BuildsOnNewest
PROPERTIES
    ActiveLoadIsFresh
    CallsComplete
