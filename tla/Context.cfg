CONSTANTS
    Procs = {p1, p2}
    Sessions = {s1}
    MaxTask = 2
    MaxTime = 1
    Lifetime = 1
    MaxEntries = 4
    Overlap = TRUE
    Budget <- MCNoIncident
    a = a
    b = b
    c = c
    r1 = r1
    r2 = r2
    x = x
    y = y
    z = z
    P = P
    Q = Q
    Absent = Absent
    Global = Global
    Places = {a, b, c}
    RepositoryOf <- MCRepositoryOf
    Indicators <- MCIndicators
    Contents = {x, y, z}
    HistoryLimit = 2
    Projects = {P, Q}
    PlaceOrder <- MCPlaceOrder
    LimitationOrder <- MCLimitationOrder
    RefLimit = 2
    NoteLimit = 5
    Shapes <- MCShapes
    StartWorlds <- MCStartWorlds
    MaxWorldEdits = 2
    Capabilities = {a, b, c}
    Languages = {b, c}
    ClaimPool <- MCClaimPool
    ClaimOrder <- MCClaimOrder
    MaxClaims = 3
    Limit = 2
    Project = P
    Options = {one, two}
    Messages <- MCMessages
    Long <- MCLong
    LineLimit = 1
    MaxLines = 3
CHECK_DEADLOCK FALSE
SPECIFICATION AllSpec
INVARIANTS
    EvidenceIsHonest
    CautionIsKept
    GuidanceCoversAllClaims
    HandshakeFirst
PROPERTIES
    DoubtNeverStrengthens
    SilenceMeansUnchanged
    LinesAreAnswered
    HooksEnd
