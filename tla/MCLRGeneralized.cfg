SPECIFICATION FairSpec
CONSTANTS
    NodeLimit <- MCNodeLimit
    Parsers <- MCParsers
    Inputs <- MCInputs
    Readings <- MCReadings
    Viable <- MCViable
INVARIANTS
    TypeOK
    AcceptsTheOnlyReading
    OneReadingIsEnough
    AmbiguityIsReal
    NoCallbackOnDoubt
    BranchesAreViable
PROPERTIES
    Terminates
