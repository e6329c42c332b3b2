SPECIFICATION Spec
CONSTANTS
    EntryLimit = 10
    MaxBuilds = 3
    Grammars <- MCGrammarOf
    Requests <- MCRequests
    FirstTokens <- MCFirstTokens
INVARIANTS
    TypeOK
    WarmIsCold
    TablesAreCoherent
    FirstIsExact
    StatesAreTheLR0States
    UnchangedBuildsNothing
    SnapshotIsOfThisBuild
    GoodGrammarsBuild
