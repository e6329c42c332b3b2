SPECIFICATION LiveSpec
CONSTANTS
    Chosen = {"block", "list", "clauses", "nested", "settings", "record"}
    SentenceLength = 5
    Parsers <- MCParsers
    Inputs <- MCInputs
    Language <- MCLanguage
    Longest <- MCLongest
    MaxErrors = 3
    MaxTotalSkipped = 2
    MaxSkip = 1
    ContextMaxSkip = 4
INVARIANTS
    TypeOK
    UnreportedIsASentence
    SentencesGoThrough
    NothingDroppedUncharged
    SkippingIsBounded
PROPERTIES
    EnclosingRulesKeepTheirTokens
    UnwindingKeepsItsTarget
    Terminates
CHECK_DEADLOCK FALSE
