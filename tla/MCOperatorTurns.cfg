SPECIFICATION OperatorSpec
CONSTANTS
    Citable = {ev1}
    Desk = d
    Batch = b
    EnvProvider = "ollama"
    MaxTurns = 2
    MaxPerTurn = 1
    MaxThreads = 1
    MaxDeepCalls = 4
    MaxWrites = 1
    MaxQuestions = 1
INVARIANTS
    TurnsBounded
CHECK_DEADLOCK FALSE
