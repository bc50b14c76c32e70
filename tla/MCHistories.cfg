SPECIFICATION Spec
CONSTANTS
    s1 = s1
    l1 = l1
    p1 = p1
    p2 = p2
    x1 = x1
    x2 = x2
    Hosts = {h1, h2}
    Enabled = {h1}
    Subs = {s1}
    Weekly = {}
    Lists = {l1}
    People = {p1, p2}
    To <- ListOnly
    Situations = {}
    DaysPerWeek = 2
    MaxDay = 0
    MaxCrashes = 0
    NoSub = NoSub
    NoOne = NoOne
    a1 = a1
    a2 = a2
    e1 = e1
    e2 = e2
    Articles = {a1, a2}
    Events = {e1, e2}
    NoEvent = NoEvent
    Mappers = {m1}
    Evolvers = {v1}
    ScoreLimit = 2
    MapLimit = 2
    EvolveLimit = 2
    RowLimit = 1
    MaxVersion = 2
    Nodes = {1, 2, 3, 4}
    BaseScore <- MCBase
    Emits <- MCEmits
    FeedOf <- MCFeed
    Stress <- MCStress
    Converging <- MCConv
    Menu <- MCMenu
    Whole = 5
    Gain <- MCGain
    FreeLimit = 1
    PaidLimit = 4
    EdgeLimit = 5
    MaxIters = 5
    Tolerance = 100
    MaxUnbacked = 1
    NoFeed = NoFeed
    Unit = 4
    Said = {0, 1, 4}
    MarketSaid = {1}
    CrowdSaid = {2}
    MinPoints = 2
    Bins = 3
    MaxGraded = 3
    NoSkill = NoSkill
    NoCrowd = NoCrowd
    Documents <- MCAnswers
    Preambles <- MCPreambles
    Epilogues <- MCEpilogues
    Pins <- MCPins
SYMMETRY Symmetry
CHECK_DEADLOCK FALSE
INVARIANTS
    RevisionsFollowMaps
    ScoresAreExplained
    CalibrationIsSound
    ReadingIsSound
PROPERTIES
    LogSpec
    NobodyDropped
    KeepsHistory
