SPECIFICATION FairSpec
CONSTANTS
    a = a
    b = b
    raw = raw
    alien = alien
    Nothing = Nothing
    Decls <- MCDecls
    Type <- MCType
    Val <- MCVal
    TypeOf <- MCTypeOf
    Coercible <- MCCoercible
    MaxDepth = 3
    MaxFuel = 2
INVARIANTS
    TypeOK
    SingleActivation
    StackDiscipline
    ReadyIsComplete
    StoreWellTyped
PROPERTIES
    HostFillWins
    ScriptOwnsSlots
    InputsFrozenInRun
    RunFailsInHostCodeOnly
    LifecycleSpec
    TickTerminates
