SPECIFICATION FairSpec
CONSTANTS
    Tokens <- FewTokens
    MaxDepth = 1
    MaxErrors = 2
    MaxOpen = 1
INVARIANTS
    RecursionBounded
PROPERTY
    Returns
