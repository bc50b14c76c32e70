SPECIFICATION PipelineLiveSpec
CONSTANTS
    a1 = a1
    e1 = e1
    e2 = e2
    Articles = {a1}
    Events = {e1, e2}
    NoEvent = NoEvent
    Clusterers = {c1}
    EmbedLimit = 1
    ClusterLimit = 1
    Mappers = {m1, m2}
    Evolvers = {v1}
    ScoreLimit = 1
    MapLimit = 1
    EvolveLimit = 1
    RowLimit = 1
    MaxVersion = 1
CHECK_DEADLOCK FALSE
INVARIANTS
    MapNotLost
PROPERTIES
    EveryArticleReachesAMap
    IntakeIsTheEnvironment
