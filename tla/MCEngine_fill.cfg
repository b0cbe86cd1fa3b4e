SPECIFICATION Spec
CONSTANTS
    a = a
    b = b
    raw = raw
    alien = alien
    Nothing = Nothing
    Decls <- MCDecls
    Type <- MCType
    Val <- MCVal
    TypeOf <- MCTypeOf
    Coercible <- MCCoercible
    MaxDepth = 2
    MaxFuel = 1
PROPERTIES
    FailedNotFilled
