SPECIFICATION Spec
CONSTANTS
    a = a
    b = b
    raw = raw
    alien = alien
    Nothing = Nothing
    Decls <- MCDecls
    Type <- MCType
    Val <- MCVal
    TypeOf <- MCTypeOf
    Coercible <- MCCoercible
    MaxDepth = 1
    MaxFuel = 1
INVARIANTS
    InitNeedsInputs
