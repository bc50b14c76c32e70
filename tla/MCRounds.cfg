SPECIFICATION Spec
CONSTANTS
    e1 = e1
    e2 = e2
    e3 = e3
    Stories = {e1, e2, e3}
    FirstSeen <- MCFirst
    Kin <- MCKin
    TagKin <- MCTagKin
    Runners = {g1}
    ConnectLimit = 2
    VectorLimit = 2
    CommitEvery = 2
    MaxRebuilds = 1
    MaxFaults = 1
    Nobody = Nobody
    s1 = s1
    l1 = l1
    p1 = p1
    p2 = p2
    x1 = x1
    x2 = x2
    Hosts = {h1}
    Enabled = {h1}
    Subs = {s1}
    Weekly = {s1}
    Lists = {l1}
    People = {p1}
    To <- ListOnly
    Situations = {x1}
    DaysPerWeek = 2
    MaxDay = 1
    MaxCrashes = 1
    NoSub = NoSub
    NoOne = NoOne
INVARIANTS
    DirectionFollowsTime
    LinksAreWhole
    LeaversLeftAlone
    OneCopyPerRun
PROPERTIES
    EveryMappedGetsConnected
    EveryoneAnswered
CHECK_DEADLOCK FALSE
