SPECIFICATION DashboardSpec

CONSTANTS
    Agents = {a1, a2}
    Ids = {i1, i2}
    Names = {n1, n2}
    NoRow = NoRow
    NoCreds = NoCreds
    Programs = {p, q}
    EventIds = {e1}
    ShotIds = {s1}
    Grace = 2
    HttpGrace = 6
    MaxReports = 3
    MaxRunning = 2
    MaxShots = 5
    PerPage = 1
    MaxPages = 3
    MaxTableChanges = 2
    Horizons = {0, 2}
    Top = Top
    NoPage = NoPage
    MaxEvents = 3
    MaxPatches = 1
    PageSize = 2
    CardSize = 1
    NoRequest = NoRequest
    WindowOf <- MCWindowOf
    PageLimit = 2
    MaxLogPages = 3
    MaxNewSessions = 2
    Ranges = {0, 2}
    Starts = {0, 13}
    LastDay = 3
    Windows = {w1, w2}
    Standard = w1
    MaxEdits = 1
    Closed = Closed
    Unset = Unset
    Computers = {c1, c2}
    Features = {"audit", "accessControl"}
    MaxActs = 3
    Unknown = Unknown
    None = None
    Tabs = {t1, t2}
    MaxLogins = 2
    MaxReloads = 2
    NoToken = NoToken

INVARIANTS
    DashboardTypeOK
    CredentialsWork
    SessionsCoverActivity
    
    OnlyCursorsAreMissed
    ViewIsCurrent
    LogHasNoHoles
    TypedIsShown
    EditorIsFaithful
    CarefulEditsStick
    TabsAreSound

CHECK_DEADLOCK FALSE
