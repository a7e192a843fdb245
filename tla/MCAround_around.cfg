\* The components around the scoring of a submission.
SPECIFICATION MCSpec
CONSTANTS
    o1 = o1  o2 = o2  r3 = r3  sA = sA  sB = sB
    Service = {s1}
    Campaign = {c1}
    Origin = {o1, o2}
    BadOrigin = {o2}
    Country = {"ID"}
    Code <- MCCode
    IsoOf <- MCIsoOf
    Request <- MCRequest
    Admin = {a1, a2}
    TTL = 2
    Clock = {0, 1, 2, 3}
    EMPTY = EMPTY
    BLANK = BLANK
    UNKNOWN = UNKNOWN
    NULL = NULL
    Device = {d1, d2}
    Thread = {a1, a2}
    MaxCount = 2
    Window = 2
    Times = {0, 1, 2}
    NIL = NIL
    Trx = {r1, r2, r3, r4}
    ScopeOf <- MCScopeOf
    Scope = {sA, ALL}
    ALL = ALL
    Limit = 2
    PageLimit = 3
    Second = {0, 1, 2}
    OltpFiles = 2
    Statements <- MCStatements
    Migrator = {a1, a2}
    User = {root, ann}
    Root = root
    Browser = {a1, a2}
    Process = {p1}
    JwtTtl = 1
    RlLimit = 2
    MaxAttempts = 3
    RlWindow = 1
    Moment = {0, 1}
    NONE = NONE
SYMMETRY Symmetry
INVARIANTS
    AnswersAreFresh
    StaleOnlyByRace
    CopyBehindTable
    FeedInOrder
    MigrationsComplete
    SessionsOfTheActive
    WindowsEnd
PROPERTIES
    ClusterIsWindow
    ChangedByAdmins
