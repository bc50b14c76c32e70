SPECIFICATION Spec
CONSTANTS
    Citable = {ev1}
    Desk = d
    Batch = b
    EnvProvider = "ollama"
    MaxTurns = 2
    MaxPerTurn = 1
    MaxThreads = 1
    MaxDeepCalls = 4
    MaxWrites = 1
    MaxQuestions = 1
    Feeds = {f1}
    Pages = {}
    Runs = {r1, r2}
    Nightly = r1
    QuarantineAfter = 2
    RetryAfter = 1
    StaleAfter = 0
    Never = Never
    MaxLost = 1
    Entities = {"cve"}
    Registered <- Listed
    Reported <- Knows
    Scored = {"nvd", "circl"}
    Score <- Rates
    Base <- BaseOfKind
    Lookups = {q1, q2}
    Asked = q1
INVARIANTS
    AnswersAreHonest
    HealthIsEarned
PROPERTIES
    BatchFollowsSettings
    ReturningFeedRejoins
    AnswersCatchUp
CHECK_DEADLOCK FALSE
