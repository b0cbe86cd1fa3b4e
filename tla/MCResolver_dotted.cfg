SPECIFICATION Spec
CONSTANTS
    Ident <- MCIdent
    Field = {"a", "b", "value"}
    Script <- MCScript
    Kinds <- MCKinds
    RegType <- MCRegType
    Spelling <- MCDotted
    Modules = {"Math"}
    ErrorType = "error"
    NoType = "none"
    Bool = "Bool"
    LiteralType = {"Int", "Float", "Bool"}
    Unary <- MCUnary
    Binary <- MCBinary
    MemberRule <- MCMemberRule
    CallRule <- MCCallRule
    Coercion <- MCCoercion
    Fields <- MCFields
    ArgLists <- MCArgLists
    MaxWork = 2
    MaxScopes = 3
INVARIANT QualifiedNamesAreSlots
