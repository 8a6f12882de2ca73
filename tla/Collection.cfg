SPECIFICATION Spec
CONSTANTS
    root = root  dir = dir  nested = nested  ignored = ignored
    readme = readme  code = code  hidden = hidden  lost = lost  image = image
    Root = root
    Parent <- MCParent
    Directories <- MCDirectories
    Ignored = {ignored}
    Supported <- MCSupported
    NestedAtStart = {nested}
    MaxDepth = 1
    MaxFiles = 6
    MaxFileBytes = 2
    MaxTotalBytes = 3
    MaxTreeEdits = 2
    Commits = {1, 2, 3, 4, 5}
    Parents <- MCParents
    Branches = {main, work}
    Absent = Absent
    Latest = {4, 5}
    Deep = {1}
    Boundary = {2, 3}
    MaxCommits = 4
    MaxRequests = 5
    MaxRepositoryEdits = 2
    Chunks = 2
    OutputLimits = {1, 2}
    Selections = {name}
    Identifiers = {1, 2}
    RequestLimit = 9
    CommitLimit = 2
    MaxHostEdits = 2
    r1 = r1  r2 = r2  m = m  n = n  x = x
    Places <- MCPlaces
    LinkTo <- MCLinkTo
    Nowhere = Nowhere
    Configurations <- MCConfigurations
    MaxRepositories = 2
    MaxAuthorities = 2
    MaxLinks = 3
INVARIANTS
    WalkIsSound
    LocalHistoryIsTrue
    RemoteHistoryIsTrue
    SelectedReadIsTrue
PROPERTIES
    CallSettles
    AuthorityHolds
CHECK_DEADLOCK FALSE
