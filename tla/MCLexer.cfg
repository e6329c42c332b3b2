SPECIFICATION LiveSpec
CONSTANTS
    Chosen = {"number", "keyword", "string", "split", "either", "comment", "fraction"}
    MaxLength = 7
    Slack = 3
    OnlyTokens = FALSE
    Chars = {"d", ".", "-", "i", "f", "q", "a", "b", "c", "x", "/", "*"}
    Lexers <- MCLexers
    Inputs <- MCInputs
    Reference <- MCReference
INVARIANTS
    TokensAreReadings
PROPERTIES
    ScansGoAsFarAsTheyCan
    Finishes
CHECK_DEADLOCK FALSE
