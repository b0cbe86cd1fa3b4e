SPECIFICATION Spec
CONSTANTS
    Alphabets <- MCAlphabets
    MaxLen = 6
INVARIANTS
    TypeOK
    LinesAreSeparated
    NothingLost
    PositionsExact
