------------------------------ MODULE Registry ------------------------------
(***************************************************************************)
(* The registry a host fills before it compiles a script                   *)
(* (registry/registry.go): named types and modules, the words that open a  *)
(* slot declaration, and the rules operators, members, calls and coercions *)
(* resolve to.  Rules are known by their key and the type they evaluate to;*)
(* the Go functions they carry are data.                                   *)
(*                                                                         *)
(* A host registers in any order, under any names, and may go on after a   *)
(* call failed.  A call either fails and changes nothing or adds its entry;*)
(* stdlib.Register, which makes many of them, stops at one that fails.     *)
(***************************************************************************)
EXTENDS Integers, Sequences

CONSTANTS
    Name,           \* names of types, modules and declaration words
    ErrorType,      \* registry.ErrorTypeID: the type of what did not resolve
    BuiltinType,    \* the value types every registry starts with
    BuiltinRule,    \* the standard rules: a function from keys to types
    Unusable,       \* names that are no identifier, a keyword or reserved
    Operator,       \* tokens of binary and unary operators
    Member,         \* names of members, methods and fields
    RuleType,       \* the type ids hosts register rules for
    TypeSet,        \* the sets of type ids hosts pass as parameters or AllowedTypes
    Library         \* the entries of the standard library, in their order

Shape == {"SCALAR", "VECTOR", "MODULE", ""}    \* "" is what a script type has

\* Every table holds its rules under keys of its own form.
BinaryKey       == {"binary"} \X Operator \X Name \X Name
UnaryKey        == {"unary"} \X Operator \X Name
MemberAccessKey == {"member"} \X Name \X Member
CallKey         == {"call"} \X Name \X Member
CoerceKey       == {"coerce"} \X Name \X Name
RuleKey == BinaryKey \cup UnaryKey \cup MemberAccessKey \cup CallKey \cup CoerceKey

\* m is a Go map with some of the keys.
IsMap(m, keys, values) == DOMAIN m \subseteq keys /\ m \in [DOMAIN m -> values]

Fields  == UNION {[ms -> Name] : ms \in SUBSET Member}
TypeDef == [shape : Shape, fields : Fields]
NoFields == [m \in {} |-> ErrorType]

\* m with one more entry.
With(m, k, v) == [x \in DOMAIN m \cup {k} |-> IF x = k THEN v ELSE m[x]]

\* The type ids of a rule's key.
TypesOf(k) == IF k \in BinaryKey THEN {k[3], k[4]}
              ELSE IF k \in UnaryKey THEN {k[3]}
              ELSE IF k \in CoerceKey THEN {k[2], k[3]}
              ELSE {k[2]}

\* A type or module of the library, with the rules that are registered once it is.
IsEntry(e) ==
    /\ e.name \in Name \ {ErrorType} /\ e.shape \in {"SCALAR", "MODULE"}
    /\ IsMap(e.rules, RuleKey, Name)
    /\ \A key \in DOMAIN e.rules :
          e.rules[key] # ErrorType /\ ErrorType \notin TypesOf(key)

ASSUME NamesAssumption == /\ ErrorType \in Name
                          /\ BuiltinType \subseteq Name \ {ErrorType}
                          /\ Unusable \subseteq Name
                          /\ RuleType \subseteq Name
                          /\ TypeSet \subseteq SUBSET Name
ASSUME RulesAssumption ==
    /\ IsMap(BuiltinRule, RuleKey, Name)
    /\ \A k \in DOMAIN BuiltinRule :
          BuiltinRule[k] # ErrorType /\ ErrorType \notin TypesOf(k)
ASSUME LibraryAssumption ==
    /\ Len(Library) \in Nat /\ DOMAIN Library = 1..Len(Library)
    /\ \A k \in DOMAIN Library : IsEntry(Library[k])
    /\ \A j, k \in DOMAIN Library :
          j # k => /\ Library[j].name # Library[k].name
                   /\ DOMAIN Library[j].rules \cap DOMAIN Library[k].rules = {}

VARIABLES
    types,      \* Registry.types
    modules,    \* the keys of Registry.modules
    declKinds,  \* Registry.declKinds, each word with its AllowedTypes
    rules,      \* Registry.binary, unary, memberAccess, call and coerces
    sealed,     \* Registry.sealed
    answer,     \* what the last call returned
    library     \* what stdlib.Register has returned so far, if it was called

tables  == <<types, modules, declKinds, rules>>
regVars == <<types, modules, declKinds, rules, sealed, answer, library>>

RegTypeOK ==
    /\ IsMap(types, Name, TypeDef)
    /\ modules \in SUBSET Name
    /\ IsMap(declKinds, Name, SUBSET Name)
    /\ IsMap(rules, RuleKey, Name)
    /\ sealed \in BOOLEAN
    /\ answer \in {"none", "ok", "error", "ErrSealed", "ErrBuilderSpent", "diagnostics"}
    /\ library \in {"none", "ok", "error"}

DefaultRegistry ==
    /\ types = [t \in BuiltinType |-> [shape |-> "SCALAR", fields |-> NoFields]]
    /\ modules = {}
    /\ declKinds = [w \in {} |-> {}]
    /\ rules = BuiltinRule
    /\ sealed = FALSE
    /\ answer = "none"
    /\ library = "none"

-----------------------------------------------------------------------------

\* Fault: a sealed registry is still written to.
NeverSealed == FALSE

ErrSealed == sealed

Fail(code) == answer' = code /\ UNCHANGED <<types, modules, declKinds, rules, sealed>>

\* The two answers every registration can give besides success.
Refuses(acceptable) ==
    \/ ErrSealed /\ Fail("ErrSealed")
    \/ ~ErrSealed /\ ~acceptable /\ Fail("error")

Accepts(acceptable) == ~ErrSealed /\ acceptable /\ answer' = "ok"

\* Fault: a type may take the name of a declaration word.
FreeOfTypes(name) == name # ErrorType /\ name \notin DOMAIN types

\* registerType's checks: not the reserved id, no declaration word, not taken.
FreeName(name) ==
    /\ name # ErrorType
    /\ name \notin DOMAIN declKinds
    /\ name \notin DOMAIN types

AddType(name, def) == types' = With(types, name, def)

RegisterType(name, shape) ==
    LET acceptable == shape # "MODULE" /\ FreeName(name) IN
    \/ Refuses(acceptable)
    \/ /\ Accepts(acceptable)
       /\ AddType(name, [shape |-> shape, fields |-> NoFields])
       /\ UNCHANGED <<modules, declKinds, rules, sealed>>

RegisterModule(name) ==
    \/ Refuses(FreeName(name))
    \/ /\ Accepts(FreeName(name))
       /\ AddType(name, [shape |-> "MODULE", fields |-> NoFields])
       /\ modules' = modules \cup {name}
       /\ UNCHANGED <<declKinds, rules, sealed>>

\* The word opens declarations in the parser, so it must be an identifier the
\* lexer does not give a meaning, and nothing else may be called by it.
FreeWord(word) ==
    /\ word \notin Unusable
    /\ word \notin DOMAIN declKinds
    /\ word \notin DOMAIN types
    /\ word \notin modules

\* Fault: a kind may allow a type that is registered later, or never.
NotErrorType(allowed) == ErrorType \notin allowed

KnownTypes(allowed) == ErrorType \notin allowed /\ allowed \subseteq DOMAIN types

RegisterDeclKind(word, allowed) ==
    LET acceptable == FreeWord(word) /\ KnownTypes(allowed) IN
    \/ Refuses(acceptable)
    \/ /\ Accepts(acceptable)
       /\ declKinds' = With(declKinds, word, allowed)
       /\ UNCHANGED <<types, modules, rules, sealed>>

-----------------------------------------------------------------------------
(* Rules: keyed by the types they apply to, never registered twice *)

\* Fault: the last registration wins.
AnyKey(key) == TRUE

FreeKey(key) == key \notin DOMAIN rules

\* Fault: the type a rule evaluates to is not looked at.
OperandsUsable(key, result, params) == ErrorType \notin TypesOf(key)

\* rejectReserved over every type id the rule mentions.
NotReserved(key, result, params) ==
    ErrorType \notin TypesOf(key) \cup {result} \cup params

Register(key, result, params) ==
    LET acceptable == NotReserved(key, result, params) /\ FreeKey(key) IN
    \/ Refuses(acceptable)
    \/ /\ Accepts(acceptable)
       /\ rules' = With(rules, key, result)
       /\ UNCHANGED <<types, modules, declKinds, sealed>>

RegisterBinary(tok, left, right, result) ==
    Register(<<"binary", tok, left, right>>, result, {})

RegisterUnary(tok, right, result) ==
    Register(<<"unary", tok, right>>, result, {})

RegisterMemberAccess(owner, member, result) ==
    Register(<<"member", owner, member>>, result, {})

RegisterCall(owner, member, params, result) ==
    Register(<<"call", owner, member>>, result, params)

RegisterCoercion(from, to, result) ==
    Register(<<"coerce", from, to>>, result, {})

-----------------------------------------------------------------------------
(* The type the resolver registers for an inline {field: Type} of a port *)

\* Fault: owner and member of the key are swapped.
FieldRulesSwapped(name, fields) ==
    LET keys == {<<"member", m, name>> : m \in DOMAIN fields}
    IN [k \in DOMAIN rules \cup keys |->
           IF k \in DOMAIN rules THEN rules[k] ELSE fields[k[2]]]

\* Each field gets its member rule; one the host has registered under the same
\* key stays, the error of RegisterMemberAccess is dropped.
FieldRules(name, fields) ==
    LET keys == {<<"member", name, m>> : m \in DOMAIN fields}
    IN [k \in DOMAIN rules \cup keys |->
           IF k \in DOMAIN rules THEN rules[k] ELSE fields[k[3]]]

ScriptTypeFree(name, fields) ==
    FreeName(name) /\ \A m \in DOMAIN fields : fields[m] # ErrorType

RegisterScriptType(name, fields) ==
    \/ Refuses(ScriptTypeFree(name, fields))
    \/ /\ Accepts(ScriptTypeFree(name, fields))
       /\ AddType(name, [shape |-> "", fields |-> fields])
       /\ rules' = FieldRules(name, fields)
       /\ UNCHANGED <<modules, declKinds, sealed>>

Seal == sealed' = TRUE

-----------------------------------------------------------------------------
(* stdlib.Register: math, then Time, Duration and time *)

\* Fault: what is there already, with the same shape, is not registered again.
CannotAdd(e) ==
    ~FreeName(e.name) /\ ~(e.name \in DOMAIN types /\ types[e.name].shape = e.shape)

Taken(e) == ~FreeName(e.name)

\* The entries before the first one that is refused.
Installed == {k \in DOMAIN Library : \A j \in 1..k : ~Taken(Library[j])}

\* The errors of the rules are dropped: a key that is taken stays as it is.
LibraryRules ==
    LET keys == UNION {DOMAIN Library[k].rules : k \in Installed} IN
    [key \in DOMAIN rules \cup keys |->
        IF key \in DOMAIN rules THEN rules[key]
        ELSE Library[CHOOSE k \in Installed : key \in DOMAIN Library[k].rules].rules[key]]

LibraryTypes ==
    LET names == {Library[k].name : k \in Installed} IN
    [n \in DOMAIN types \cup names |->
        IF n \in DOMAIN types THEN types[n]
        ELSE LET e == Library[CHOOSE k \in Installed : Library[k].name = n]
             IN [shape |-> e.shape, fields |-> NoFields]]

LibraryModules == {Library[k].name : k \in {i \in Installed : Library[i].shape = "MODULE"}}

\* What was registered before the refusal stays.
RegisterLibrary ==
    \/ ErrSealed /\ Fail("ErrSealed") /\ library' = "error"
    \/ /\ ~ErrSealed
       /\ types' = LibraryTypes
       /\ modules' = modules \cup LibraryModules
       /\ rules' = LibraryRules
       /\ answer' = IF Installed = DOMAIN Library THEN "ok" ELSE "error"
       /\ library' = answer'
       /\ UNCHANGED <<declKinds, sealed>>

-----------------------------------------------------------------------------

\* What a host may call, with every name and every rule key it may choose.
RegisterEntry ==
    \/ \E n \in Name : RegisterModule(n) \/ \E s \in Shape : RegisterType(n, s)
    \/ \E w \in Name, allowed \in TypeSet : RegisterDeclKind(w, allowed)
    \/ \E l, r, result \in RuleType :
          \/ \E tok \in Operator : RegisterBinary(tok, l, r, result)
          \/ RegisterCoercion(l, r, result)
    \/ \E t, result \in RuleType :
          \/ \E tok \in Operator : RegisterUnary(tok, t, result)
          \/ \E m \in Member : RegisterMemberAccess(t, m, result)
          \/ \E m \in Member, params \in TypeSet :
                RegisterCall(t, m, params, result)

RegisterCalls == (RegisterEntry /\ UNCHANGED library) \/ RegisterLibrary

-----------------------------------------------------------------------------
(* Safety *)

\* One name means one thing: no declaration word names a type or a module, and
\* modules are exactly the types of module shape, whatever was registered in
\* whatever order.  The resolver builds its top-level scope from the three
\* tables and one entry per name (resolver/env.go:89-107).  The types a word
\* allows are registered before it is.
NamesDisjoint ==
    /\ DOMAIN declKinds \cap DOMAIN types = {}
    /\ modules = {n \in DOMAIN types : types[n].shape = "MODULE"}
    /\ DOMAIN declKinds \cap Unusable = {}
    /\ \A w \in DOMAIN declKinds : declKinds[w] \subseteq DOMAIN types

\* The type of an expression that did not resolve matches no rule and is no
\* one's result, so one error in a script cannot resolve to something.
ErrorTypeInert ==
    /\ ErrorType \notin DOMAIN types
    /\ \A k \in DOMAIN rules : rules[k] # ErrorType /\ ErrorType \notin TypesOf(k)
    /\ \A n \in DOMAIN types : \A m \in DOMAIN types[n].fields :
          types[n].fields[m] # ErrorType
=============================================================================
