SPECIFICATION Spec
CONSTANTS
    a1 = a1
    a2 = a2
    a3 = a3
    e1 = e1
    e2 = e2
    Articles = {a1, a2, a3}
    Events = {e1, e2}
    NoEvent = NoEvent
    Clusterers = {c1}
    EmbedLimit = 2
    ClusterLimit = 2
    Links = {"g1", "g2"}
    Address <- Leads
    Paper <- Publishes
    Story <- Tells
    Window <- Again
    News <- Before
    Fetches = {f1, f2}
    Scheduled = f1
    Budget = 1
    MaxAttempts = 2
    CacheCap = 1
    MaxRestarts = 1
CHECK_DEADLOCK FALSE
INVARIANTS
    EveryEventHasEvidence
PROPERTIES
    NoArticleLeftBehind
    NeverRehomed
    BacklogDrains
