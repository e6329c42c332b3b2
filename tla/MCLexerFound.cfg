SPECIFICATION LiveSpec
CONSTANTS
    Chosen = {"signed", "dotted"}
    MaxLength = 4
    Slack = 3
    OnlyTokens = TRUE
    Chars = {"d", ".", "-", "i", "f", "q", "a", "b", "c", "x", "/", "*"}
    Lexers <- MCLexers
    Inputs <- MCInputs
    Reference <- MCReference
PROPERTIES
    TokensAreFound
CHECK_DEADLOCK FALSE
