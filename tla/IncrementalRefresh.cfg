CONSTANTS
    Count = 2
    MaxChanges = 1
    MaxTime = 2
    MaxCacheAge = 1
    MaxCacheBytes = 4
    DerivedBytes = 1
    Size <- MCSize
SPECIFICATION RefreshSpec
INVARIANTS
    CacheIsSound
    PreviousNeverBlocks
PROPERTIES
    PublishedIsCurrent
