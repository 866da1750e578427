CONSTANTS
    Files <- TheFiles
    Sources <- TheSources
SPECIFICATION Spec
INVARIANTS
    TypeOK
    TokensCoverText
    LinesAreStatements
    ExpressionsByPrecedence
PROPERTY
    Terminates
CHECK_DEADLOCK FALSE
