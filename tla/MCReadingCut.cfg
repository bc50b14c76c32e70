SPECIFICATION ReadingSpec
CONSTANTS
    Documents <- MCAnswers
    Preambles <- MCPreambles
    Epilogues <- MCEpilogues
    Pins <- MCPins
INVARIANTS
    OnlyWholeValues
CHECK_DEADLOCK FALSE
