SPECIFICATION Spec
CONSTANTS
    Name <- MCName
    ErrorType = "Error"
    BuiltinType <- MCBuiltinType
    BuiltinRule <- MCBuiltinRule
    Unusable <- MCUnusable
    Operator = {"+"}
    Member = {"f"}
    RuleType = {"Error", "clock", "output.x"}
    TypeSet <- MCTypeSet
    Library <- MCLibrary
    Script <- MCScript
    MaxEntries = 3
CONSTRAINT WithinBounds
INVARIANTS
    TypeOK
    NamesDisjoint
    ErrorTypeInert
    PortsOwnTheirTypes
PROPERTIES
    NothingReplaced
    LibraryWholeOrRefused
    ProgramKeepsRegistry
