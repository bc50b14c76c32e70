SPECIFICATION LinksSpec
CONSTANTS
    Links = {"g1", "g2"}
    Address <- Leads
    Paper <- Publishes
    Story <- Tells
    Window <- Again
    News <- Before
    Fetches = {f1}
    Scheduled = f1
    Budget = 1
    MaxAttempts = 2
    CacheCap = 1
    MaxRestarts = 0
INVARIANTS
    NoSelfCorroboration
CHECK_DEADLOCK FALSE
