SPECIFICATION Spec
CONSTANTS
    quake1 = quake1
    quake2 = quake2
    post1 = post1
    post2 = post2
    post3 = post3
    page1 = page1
    page2 = page2
    page3 = page3
    Items = {quake1, quake2, post1, post2, post3}
    OsintItems = {post1, post2, post3}
    Doc <- MCDoc
    Outlet <- MCOutlet
    Category <- MCCategory
    Alike <- MCAlike
    HazardBatches <- MCHazardBatches
    OsintBatches <- MCOsintBatches
    Ingests = {a, b}
    Starts <- MCStarts
    Grades <- MCGrades
    MaxIngests = 2
    MaxMerges = 1
    MaxLost = 1
    Orgs = {o1}
    Users = {u1, u2, u3}
    Requests = {r1, r2}
    MaxCommits = 4
    Accounts = {acc1, acc2}
    Beta = {acc2}
    Situations = {x1, x2}
    FollowLimit = 1
    Posts = {p1, p2}
    MaxActs = 2
    MaxRedelivered = 1
    Levels = {l1, l2}
    LastDate = 2
    Fullness = {1, 2}
    Librarians = {w1, w2}
    MaxSheets = 3
    Ids = {"X", "Y"}
    NoId = "-"
    Names = {"A", "B"}
    Countries = {"c", "d"}
    Values = {"v"}
    Files <- Sent
    Typed <- ByHand
    Clerks = {k1, k2}
    MaxEdits = 3
    WindowDays = 1
    LastDay = 4
    Reports = {"r1", "r2"}
    Origin <- Kinds
    Publishers = {"p"}
    Labels = {"n"}
    CacheSize = 2
    PaidSize = 2
    FreeSize = 1
    MaxMaps = 2
    MaxChanges = 5
INVARIANTS
    StoriesStayWhole
    CurrentIsLatest
    PlanFollowsSubscription
    RegisterIsConsistent
    OneRuleOnEveryRoute
PROPERTIES
    BadItemFallsAlone
    LastAdminGoesInARace
    LimitsBreakInARace
    TimeDropsNobody
CHECK_DEADLOCK FALSE
