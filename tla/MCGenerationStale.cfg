CONSTANTS
    Grammars <- MCGrammars
    Paths <- MCPaths
    Contents <- MCContents
    Texts <- MCTexts
    Text <- MCText
    Acting <- MCActing
    Output <- MCOutput
    Absent = "absent"
    Damaged = "damaged"
    MaxCrashes = 2

SPECIFICATION Spec

INVARIANT FinishedRunIsExact
