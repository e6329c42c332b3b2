SPECIFICATION FairSpec
CONSTANTS
    Longest = 5
    MaxErrors = 2
    MaxTotalSkipped = 2
    Parsers <- MCParsers
    Inputs <- MCInputs
    Hook <- MCHook
    Blocks <- MCBlocks
    ReportFirst <- MCReportFirst
    Language <- MCLanguage
    Viable <- MCViable
INVARIANTS
    TypeOK
    ItemsSpellStack
    NoTableFault
    UnreportedIsASentence
    SentencesGoThrough
    ErrorsAreFoundAtOnce
    AcceptedWithinBudget
PROPERTIES
    RepairsStayReported
    Terminates
    RefinesBottomUp
