SPECIFICATION FairSpec
CONSTANTS
    Longest = 2
    MaxErrors = 2
    MaxTotalSkipped = 2
    Parsers <- MCParsers
    Inputs <- MCInputs
    Hook <- MCHook
    Blocks <- MCBlocks
    ReportFirst <- MCReportFirst
    Language <- MCLanguage
    Viable <- MCViable
PROPERTIES
    RetryAfterMovingGoesOn
