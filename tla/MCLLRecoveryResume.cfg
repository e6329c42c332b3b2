SPECIFICATION LiveSpec
CONSTANTS
    Chosen = {"nested", "settings"}
    SentenceLength = 5
    Parsers <- MCParsers
    Inputs <- MCInputs
    Language <- MCLanguage
    Longest <- MCLongest
    MaxErrors = 32
    MaxTotalSkipped = 2048
    MaxSkip = 32
    ContextMaxSkip = 64
PROPERTIES
    ResumptionsGoOn
CHECK_DEADLOCK FALSE
