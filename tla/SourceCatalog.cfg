SPECIFICATION Spec
CHECK_DEADLOCK FALSE
CONSTANTS
    s1 = s1 s2 = s2 w1 = w1 w2 = w2
    Writers = {w1, w2}
    Sources = {s1, s2}
    Remote = {s2}
    Configurations <- MCConfigurations
    None = None
    Bad = Bad
    Batch = 2
    Collections = 1
    CacheAge = 1
    Duration = 1
    Lifetime = 2
    MaxGeneration = 2
    MaxTime = 2
    Duties <- MCDuties
    MaxRuns = 3
    MaxIncidents = 1
    MaxEdits = 1
INVARIANTS
    TransactionsExclusive
    RecordsAreOneVersion
PROPERTIES
    DeletionIsComplete
    AcknowledgedIsTrue
    NothingLost
