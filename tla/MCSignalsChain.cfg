SPECIFICATION SignalsSpec
CONSTANTS
    quake1 = quake1
    quake2 = quake2
    post1 = post1
    post2 = post2
    post3 = post3
    page1 = page1
    page2 = page2
    page3 = page3
    Items = {quake1, quake2, post1, post2, post3}
    OsintItems = {post1, post2, post3}
    Doc <- MCDoc
    Outlet <- MCOutlet
    Category <- MCCategory
    Alike <- MCAlike
    HazardBatches <- MCHazardBatches
    OsintBatches <- MCOsintBatches
    Ingests = {a, b}
    Starts <- MCStarts
    Grades <- MCGrades
    MaxIngests = 2
    MaxMerges = 1
    MaxLost = 1
INVARIANTS
    DuplicatesPointAtCanonical
CHECK_DEADLOCK FALSE
