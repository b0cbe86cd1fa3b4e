SPECIFICATION Spec
CONSTANTS
    Tokens <- EveryKind
    MaxDepth = 1
    MaxErrors = 2
    MaxOpen = 1
INVARIANTS
    TypeOK
    ValidIffClean
    KeptIsWhole
    RecoveryEndsAtLine
