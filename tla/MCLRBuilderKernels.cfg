SPECIFICATION Spec
CONSTANTS
    EntryLimit = 10
    MaxBuilds = 1
    Grammars <- MCGrammarOf
    Requests <- BrokenRequests
    FirstTokens <- MCFirstTokens
INVARIANTS
    RepeatedKernelsAreFound
