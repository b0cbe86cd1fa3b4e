------------------------------ MODULE Resolver ------------------------------
(***************************************************************************)
(* Name resolution and type checking of one parsed script                  *)
(* (resolver/resolver.go, resolver/env.go), with the environment in which  *)
(* the evaluator will execute it (evaluator/env.go).                       *)
(*                                                                         *)
(* The script is not given: every step resolves one more AST node of any   *)
(* kind, so a behaviour is the resolution of some script.  Only the headers*)
(* of its declarations are known from the start, the resolver looks ahead  *)
(* at them.  An expression is resolved bottom up, its operands wait on a   *)
(* stack (work), as they do in the activations of resolveExpr.             *)
(*                                                                         *)
(* The language has no loop and no function of its own, so the evaluator   *)
(* reaches the nodes in the order in which they are resolved, or skips a   *)
(* branch together with its scope.  What Env will hold when it reaches the *)
(* node at hand is therefore known, it is live; crash collects what would  *)
(* make the resolver, or the evaluator at one of the nodes so far, panic.  *)
(***************************************************************************)
EXTENDS Integers, Sequences

CONSTANTS
    Ident,       \* identifiers, all a script may mention
    Field,       \* names of members, methods and parameters
    Script,      \* the lists of declarations a script may have
    Kinds,       \* declKinds: from words to declaration kinds
    RegType,     \* ids of the registered types, modules included
    Spelling,    \* the symbol each of them is
    Modules,     \* those of module shape
    ErrorType, NoType, Bool,
    LiteralType, \* the types of literals
    Unary,       \* the rule tables: from operand types to the result type
    Binary,
    MemberRule,
    CallRule,    \* from type and method to parameters and result type
    Coercion,
    Fields,      \* the fields of output types as parameters
    ArgLists,    \* argument lists: a keyword each, "" for a positional one
    MaxWork,     \* bound: operands and open calls at once
    MaxScopes    \* bound: scopes at once

TypeId == RegType \cup {ErrorType, NoType}
Param  == [name : Field, type : TypeId, exact : BOOLEAN]
Kind   == [namespaced : BOOLEAN, assignable : BOOLEAN,
           initializer : {"required", "optional", "forbidden"},
           allowed : SUBSET RegType]

ReservedIdents == {"emit", "Init", "Run"}

(***************************************************************************)
(* A symbol is the sequence of the parts between its dots.  A host may call*)
(* a type or a module what it likes, with dots or not, and other than Ident*)
(* lists.                                                                  *)
(***************************************************************************)
Symbol == {<<n>> : n \in Ident} \cup (Ident \X Ident)
          \cup {Spelling[t] : t \in RegType} \cup {<<n>> : n \in ReservedIdents}

(***************************************************************************)
(* word is const, input, output or the word of a kind; type is absent where*)
(* none is written, and need not be registered.                            *)
(***************************************************************************)
Decl == [word : STRING, name : Ident,
         type : RegType \cup {"absent", "unknown"}, init : BOOLEAN]

\* What the registry promises (NamesDisjoint and ErrorTypeInert of Registry).
ASSUME NameAssumption ==
    /\ "value" \in Field
    /\ Spelling \in [RegType -> Seq(STRING)]
    /\ \A s, t \in RegType : Spelling[s] = Spelling[t] => s = t
    /\ Modules \subseteq RegType
    /\ Kinds \in [DOMAIN Kinds -> Kind]
    /\ \A w \in DOMAIN Kinds :
          /\ w \notin ReservedIdents \cup {"const", "input", "output"}
          /\ Kinds[w].namespaced => w \in Ident
          /\ \A t \in RegType : Spelling[t] # <<w>>
ASSUME TypeAssumption ==
    /\ ErrorType \notin RegType /\ NoType \notin RegType /\ NoType # ErrorType
    /\ Bool \in LiteralType /\ LiteralType \subseteq RegType
    /\ \A t \in {"absent", "unknown"} : t \notin RegType
\* The parser drops a port without a type (parser.go:89-104, KeptIsWhole of Parser).
ASSUME ScriptAssumption ==
    /\ Script \subseteq Seq(Decl)
    /\ \A s \in Script : \A k \in DOMAIN s :
          s[k].word \in {"input", "output"} => s[k].type # "absent"
ASSUME RuleAssumption ==
    /\ DOMAIN Unary \subseteq RegType /\ Unary \in [DOMAIN Unary -> RegType]
    /\ DOMAIN Binary \subseteq RegType \X RegType
    /\ Binary \in [DOMAIN Binary -> RegType]
    /\ DOMAIN MemberRule \subseteq RegType \X Field
    /\ MemberRule \in [DOMAIN MemberRule -> RegType]
    /\ DOMAIN CallRule \subseteq RegType \X Field
    /\ CallRule \in [DOMAIN CallRule -> [params : Seq(Param), type : RegType]]
    /\ DOMAIN Coercion \subseteq RegType \X RegType
    /\ Coercion \in [DOMAIN Coercion -> RegType]
    /\ DOMAIN Fields \subseteq RegType /\ Fields \in [DOMAIN Fields -> Seq(Param)]
    /\ ArgLists \subseteq Seq(Field \cup {""})
    /\ MaxWork \in Nat /\ MaxScopes \in Nat

BindingKind == {"let", "const", "input", "output", "module", "function",
                "type", "slot", "declaration keyword"}
Binding == [kind : BindingKind, type : TypeId, slot : Nat, assignable : BOOLEAN]

VARIABLES
    todo,       \* the declarations that are not resolved yet
    declared,   \* Resolver.declaredNames
    fn,         \* Resolver.currFn; "done" when Resolve has returned
    scopes,     \* Env, the top level first: Symbol -> Binding
    slotCount,  \* Resolver.slotCount
    stmt,       \* the declaration or statement whose expressions are resolved
    work,       \* their operands and open calls, innermost last
    failed,     \* len(Resolver.errs) > 0
    report,     \* the diagnostics the last step added
    live,       \* the names in the chain of evaluator.Env
    crash       \* what would panic if the program is run as it is

position == <<todo, declared, fn>>
env      == <<scopes, slotCount, live>>
vars     == <<todo, declared, fn, scopes, slotCount, stmt, work, failed, report,
              live, crash>>

Idle == [kind |-> "none"]

\* An operand: clean if its resolution added no diagnostic; a module is one
\* only as a receiver.
Value(t, clean) == [tag |-> "value", type |-> t, clean |-> clean, module |-> FALSE]
Operand == [tag : {"value"}, type : TypeId, clean : BOOLEAN, module : BOOLEAN]

\* A call whose arguments are being resolved: those to go, the parameters that
\* have one, and whether all is well so far.
OpenCall == [tag : {"call"}, params : Seq(Param), rest : Seq(Field \cup {""}),
             seen : SUBSET Nat, ok : BOOLEAN, type : TypeId, clean : BOOLEAN]

Statement ==
    {Idle} \cup [kind : {"decl"}, decl : Decl] \cup [kind : {"let"}, name : Ident]
    \cup [kind : {"let taken", "assign", "expression", "if", "emit"}]

\* What may panic: an expression or statement the evaluator has no case for, a
\* name it does not find, a condition of another type, and in the resolver a slot
\* reference to what is none and an error type nobody reported.
Panic == {"bad node", "unknown identifier", "no such variable", "not a Bool",
          "slot is nil", "error type not reported"}

TypeOK ==
    /\ todo \in Seq(Decl) /\ declared \in SUBSET Symbol
    /\ fn \in {"", "Init", "Run", "done"}
    /\ scopes \in Seq({scopes[k] : k \in DOMAIN scopes})
    /\ \A k \in DOMAIN scopes : /\ DOMAIN scopes[k] \subseteq Symbol
                                /\ scopes[k] \in [DOMAIN scopes[k] -> Binding]
    /\ slotCount \in Nat
    /\ stmt \in Statement
    /\ work \in Seq(Operand \cup OpenCall)
    /\ failed \in BOOLEAN
    /\ live \in Seq(SUBSET Ident)
    /\ crash \in SUBSET Panic

-----------------------------------------------------------------------------
(* Environments *)

Bound(s)  == \E k \in DOMAIN scopes : s \in DOMAIN scopes[k]
Get(s)    == LET k == CHOOSE k \in DOMAIN scopes :
                         /\ s \in DOMAIN scopes[k]
                         /\ \A l \in DOMAIN scopes : s \in DOMAIN scopes[l] => l <= k
             IN scopes[k][s]
InLive(n) == \E k \in DOMAIN live : n \in live[k]

Reserved(b) == b.kind \in {"module", "function", "type", "declaration keyword"}
Readable(b) == b.kind \in {"let", "const", "input", "slot"}

With(m, s, b) == [x \in DOMAIN m \cup {s} |-> IF x = s THEN b ELSE m[x]]

Name(kind, type) == [kind |-> kind, type |-> type, slot |-> 0, assignable |-> kind = "let"]

\* Env.Set on the innermost scope.
Set(s, b) == scopes' = [scopes EXCEPT ![Len(scopes)] = With(@, s, b)]
SetLive(n) == live' = [live EXCEPT ![Len(live)] = @ \cup {n}]

\* The symbol a declaration binds.
SlotSymbol(d) == IF d.word \in DOMAIN Kinds /\ Kinds[d.word].namespaced
                 THEN <<d.word, d.name>> ELSE <<d.name>>
KnownWord(d) == d.word \in {"const", "input", "output"} \cup DOMAIN Kinds

DeclWords == {w \in DOMAIN Kinds : Kinds[w].namespaced}

EnvFromRegistry ==
    LET words == {<<w>> : w \in DeclWords}
        functions == {<<n>> : n \in ReservedIdents}
        typed == {Spelling[t] : t \in RegType}
    IN [s \in typed \cup words \cup functions |->
          IF s \in functions THEN Name("function", NoType)
          ELSE IF s \in words THEN Name("declaration keyword", NoType)
          ELSE LET t == CHOOSE t \in RegType : Spelling[t] = s
               IN Name(IF t \in Modules THEN "module" ELSE "type", t)]

\* collectDeclaredNames.
DeclaredNames(decls) ==
    {SlotSymbol(decls[k]) : k \in {j \in DOMAIN decls : KnownWord(decls[j])}}

\* What the evaluator's Env is created with.
ModuleNames == {n \in Ident : \E m \in Modules : Spelling[m] = <<n>>}

Init ==
    /\ todo \in Script
    /\ declared = DeclaredNames(todo)
    /\ fn = ""
    /\ scopes = <<EnvFromRegistry>>
    /\ slotCount = 0
    /\ stmt = Idle
    /\ work = << >>
    /\ failed = FALSE
    /\ report = {}
    /\ live = <<ModuleNames>>
    /\ crash = {}

-----------------------------------------------------------------------------
(* Diagnostics and nodes *)

Report(codes) == report' = codes /\ failed' = (failed \/ codes # {})

\* Nothing of a program that has a diagnostic is ever evaluated.
Panics(what) == crash' = IF failed' THEN {} ELSE crash \cup what

\* The last n of work become one item.
Reduce(n, item, codes, what) ==
    /\ work' = Append(SubSeq(work, 1, Len(work) - n), item)
    /\ Report(codes) /\ Panics(what)
    /\ UNCHANGED <<position, env, stmt>>

Node(n, type, clean) == Reduce(n, Value(type, clean), {}, {})

\* A BadExpr; the evaluator has no case for one.
BadExpr(n, clean, codes) ==
    Reduce(n, Value(ErrorType, clean /\ codes = {}), codes, {"bad node"})

\* newErrorExpr: an operand has the error type, which must have been reported.
ErrorExpr(n, clean) ==
    Reduce(n, Value(ErrorType, clean), {},
           {"bad node"} \cup IF failed THEN {} ELSE {"error type not reported"})

Top   == work[Len(work)]
Under == work[Len(work) - 1]

IsValue(k) == k \in DOMAIN work /\ work[k].tag = "value"
ReceiverOnly == work # << >> /\ Top.tag = "value" /\ Top.module

\* The argument an open call resolves next: a position, or 0 for a keyword that
\* names no parameter.
ParamAt(c) ==
    LET named == {k \in DOMAIN c.params : c.params[k].name = Head(c.rest)}
    IN IF Head(c.rest) = "" THEN Len(c.params) - Len(c.rest) + 1
       ELSE IF named = {} THEN 0
       ELSE CHOOSE k \in named : \A j \in named : k <= j
\* Fault: a parameter may be given twice.
UsedKeyword(c) == ParamAt(c) = 0

UselessKeyword(c) == ParamAt(c) \in {0} \cup c.seen

WantsArgument(c) == c.rest # << >> /\ ~UselessKeyword(c)

\* Where the next operand of the expression at hand may start.
Operands ==
    /\ stmt # Idle /\ Len(work) < MaxWork /\ ~ReceiverOnly
    /\ work = << >> => stmt.kind # "emit"
    /\ work # << >> /\ Top.tag = "call" => WantsArgument(Top)

-----------------------------------------------------------------------------
(* Expressions without operands *)

Literal(t) == Operands /\ Node(0, t, TRUE)

\* A name that is missing: declared further down, or nowhere.
Missing(s, code) ==
    IF fn = "" /\ s \in declared THEN <<"USE_BEFORE_DECLARATION", s>> ELSE <<code>>

\* Fault: inputs are refused outside functions only.
RefusesInputAtTop(b) == b.kind = "input" /\ fn = ""

RefusesInput(b) == b.kind = "input" /\ fn # "Run"

Ref(n, b) ==
    IF b.slot # 0 \/ InLive(n) THEN Node(0, b.type, TRUE)
    ELSE Reduce(0, Value(b.type, TRUE), {}, {"unknown identifier"})

ReadName(n) ==
    LET b == Get(<<n>>) IN
    /\ Operands
    /\ \/ ~Bound(<<n>>) /\ BadExpr(0, TRUE, {Missing(<<n>>, "UNDEFINED_IDENT")})
       \/ Bound(<<n>>) /\ ~Readable(b) /\ BadExpr(0, TRUE, {<<"NOT_READABLE">>})
       \/ /\ Bound(<<n>>) /\ Readable(b) /\ RefusesInput(b)
          /\ BadExpr(0, TRUE, {<<"INPUT_IN_INIT">>})
       \/ Bound(<<n>>) /\ Readable(b) /\ ~RefusesInput(b) /\ Ref(n, b)

IsDeclWord(w) == Bound(<<w>>) /\ Get(<<w>>).kind = "declaration keyword"

\* word.name; whatever the name is bound to is taken for a slot.
SlotRef(w, n) ==
    LET s == <<w, n>> IN
    /\ Operands /\ IsDeclWord(w)
    /\ \/ ~Bound(s) /\ BadExpr(0, TRUE, {Missing(s, "SLOT_UNDECLARED")})
       \/ Bound(s) /\ Get(s).slot # 0 /\ Node(0, Get(s).type, TRUE)
       \/ /\ Bound(s) /\ Get(s).slot = 0
          /\ Reduce(0, Value(NoType, TRUE), {}, {"slot is nil"})

\* A module as the receiver of what follows.
ModuleRef(n) ==
    /\ Operands /\ Bound(<<n>>) /\ Get(<<n>>).kind = "module"
    /\ Reduce(0, [Value(Get(<<n>>).type, TRUE) EXCEPT !.module = TRUE], {},
              IF InLive(n) THEN {} ELSE {"unknown identifier"})

\* A call of a name or of what is no member is never resolved further.
BadCallee ==
    /\ Operands
    /\ \E code \in {"EMIT_NOT_EXPRESSION", "UNDEFINED_FUNC", "NOT_CALLABLE"} :
          BadExpr(0, TRUE, {<<code>>})

-----------------------------------------------------------------------------
(* Expressions with operands *)

Expression == stmt # Idle /\ IsValue(Len(work))
TwoOperands == Expression /\ IsValue(Len(work) - 1) /\ ~Top.module /\ ~Under.module

EitherIsError == ErrorType \in {Under.type, Top.type}

\* What the evaluator does with an operand of && and ||, or a condition.
NotBool(types) == IF types \subseteq {Bool} THEN {} ELSE {"not a Bool"}

Infix ==
    LET key == <<Under.type, Top.type>>
        clean == Under.clean /\ Top.clean
    IN /\ TwoOperands
       /\ \/ EitherIsError /\ ErrorExpr(2, clean)
          \/ /\ ~EitherIsError /\ key \notin DOMAIN Binary
             /\ BadExpr(2, clean, IF clean THEN {<<"INVALID_OPERATION">>} ELSE {})
          \/ /\ ~EitherIsError /\ key \in DOMAIN Binary
             /\ Node(2, Binary[key], clean)


\* Fault: the error type is reported once more.
MismatchesAgain(types) == IF types \subseteq {Bool} THEN {} ELSE {<<"TYPE_MISMATCH">>}

Mismatches(types) == IF types \subseteq {Bool, ErrorType} THEN {} ELSE {<<"TYPE_MISMATCH">>}

\* The result is a Bool whatever the operands are.
Logical ==
    LET types == {Under.type, Top.type}
        codes == Mismatches(types)
    IN /\ TwoOperands
       /\ Reduce(2, Value(Bool, Under.clean /\ Top.clean /\ codes = {}),
                 codes, NotBool(types))

Prefix ==
    /\ Expression /\ ~Top.module
    /\ \/ Top.type = ErrorType /\ ErrorExpr(1, Top.clean)
       \/ /\ Top.type # ErrorType /\ Top.type \notin DOMAIN Unary
          /\ BadExpr(1, Top.clean, IF Top.clean THEN {<<"INVALID_OPERATION">>} ELSE {})
       \/ /\ Top.type # ErrorType /\ Top.type \in DOMAIN Unary
          /\ Node(1, Unary[Top.type], Top.clean)

Member(m) ==
    /\ Expression
    /\ \/ Top.type = ErrorType /\ ErrorExpr(1, Top.clean)
       \/ /\ Top.type # ErrorType /\ <<Top.type, m>> \notin DOMAIN MemberRule
          /\ BadExpr(1, Top.clean, IF Top.clean THEN {<<"UNDEFINED_ATTRIBUTE">>} ELSE {})
       \/ /\ Top.type # ErrorType /\ <<Top.type, m>> \in DOMAIN MemberRule
          /\ Node(1, MemberRule[<<Top.type, m>>], Top.clean)

\* No type has an index rule.
Index ==
    LET clean == Under.clean /\ Top.clean IN
    /\ TwoOperands
    /\ \/ Under.type = ErrorType /\ ErrorExpr(2, clean)
       \/ /\ Under.type # ErrorType
          /\ BadExpr(2, clean, IF clean THEN {<<"NOT_INDEXABLE">>} ELSE {})

-----------------------------------------------------------------------------
(* Calls: the parameters come from a call rule, or from an output's fields *)

Call(rule, args, clean) ==
    [tag |-> "call", params |-> rule.params, rest |-> args, seen |-> {},
     ok |-> TRUE, type |-> rule.type, clean |-> clean]

CountMismatch(params, args) == {<<"ARG_COUNT_MISMATCH", Len(params), Len(args)>>}

\* The method is looked up before any argument is resolved.
MethodCall(m, args) ==
    LET key == <<Top.type, m>> IN
    /\ Expression
    /\ \/ Top.type = ErrorType /\ ErrorExpr(1, Top.clean)
       \/ /\ Top.type # ErrorType /\ key \notin DOMAIN CallRule
          /\ BadExpr(1, Top.clean, IF Top.clean THEN {<<"UNDEFINED_METHOD">>} ELSE {})
       \/ /\ Top.type # ErrorType /\ key \in DOMAIN CallRule
          /\ Len(args) # Len(CallRule[key].params)
          /\ BadExpr(1, Top.clean, CountMismatch(CallRule[key].params, args))
       \/ /\ Top.type # ErrorType /\ key \in DOMAIN CallRule
          /\ Len(args) = Len(CallRule[key].params)
          /\ Len(work) < MaxWork
          /\ Reduce(1, Call(CallRule[key], args, Top.clean), {}, {})

\* A keyword that names no parameter, or one that has its argument; its value
\* is not resolved.
SkipArgument ==
    /\ stmt # Idle /\ work # << >> /\ Top.tag = "call"
    /\ Top.rest # << >> /\ UselessKeyword(Top)
    /\ Reduce(1, [Top EXCEPT !.rest = Tail(@), !.ok = FALSE, !.clean = FALSE],
              {<<IF ParamAt(Top) = 0 THEN "ARG_UNKNOWN" ELSE "ARG_DUPLICATE">>}, {})

Matches(type, p) ==
    type = p.type \/ (~p.exact /\ <<type, p.type>> \in DOMAIN Coercion)

Argument ==
    LET c == Under
        at == ParamAt(c)
        wrong == /\ ~Matches(Top.type, c.params[at])
                 /\ ErrorType \notin {Top.type, c.params[at].type}
    IN /\ Expression /\ ~Top.module
       /\ Len(work) > 1 /\ Under.tag = "call"
       /\ Reduce(2, [c EXCEPT !.rest = Tail(@), !.seen = @ \cup {at},
                              !.ok = @ /\ ~wrong,
                              !.clean = @ /\ Top.clean /\ ~wrong],
                 IF wrong THEN {<<"TYPE_MISMATCH">>} ELSE {}, {})

Unfilled(c) == {<<"ARG_MISSING", c.params[k].name>> : k \in DOMAIN c.params \ c.seen}
CallDone == stmt # Idle /\ work # << >> /\ Top.tag = "call" /\ Top.rest = << >>

CallEnds ==
    LET valid == Top.ok /\ Unfilled(Top) = {} IN
    /\ CallDone /\ ~(stmt.kind = "emit" /\ Len(work) = 1)
    /\ \/ valid /\ Node(1, Top.type, Top.clean)
       \/ ~valid /\ BadExpr(1, Top.clean, Unfilled(Top))

Expressions ==
    \/ \E t \in LiteralType : Literal(t)
    \/ \E n \in Ident : ReadName(n) \/ ModuleRef(n)
    \/ \E m \in Field : Member(m)
    \/ \E w, n \in Ident : SlotRef(w, n)
    \/ BadCallee
    \/ Infix \/ Logical \/ Prefix \/ Index
    \/ \E m \in Field, args \in ArgLists : MethodCall(m, args)
    \/ SkipArgument \/ Argument \/ CallEnds

-----------------------------------------------------------------------------
(* Declarations *)

\* The step between two declarations or statements; it starts one (stmt') or
\* is all of it.
Between == stmt = Idle /\ fn # "done"
Deciding == Between /\ fn = "" /\ todo # << >>
Begin(s) == stmt' = s /\ work' = << >>

\* The expression of stmt is resolved.
Complete(kind) == stmt.kind = kind /\ Len(work) = 1 /\ IsValue(1) /\ ~Top.module

TakenCode(s) == <<IF Reserved(Get(s)) THEN "RESERVED_NAME" ELSE "DUPLICATE_DECLARATION">>

\* Fault: a second declaration replaces the first.
ReservedOnly(d) == Bound(SlotSymbol(d)) /\ Reserved(Get(SlotSymbol(d)))

Taken(d) == Bound(SlotSymbol(d))

NameTaken ==
    LET d == Head(todo) IN
    /\ Deciding /\ KnownWord(d) /\ Taken(d)
    /\ todo' = Tail(todo)
    /\ Report({TakenCode(SlotSymbol(d))})
    /\ UNCHANGED <<declared, fn, env, stmt, work, crash>>

UnknownWord ==
    /\ Deciding /\ ~KnownWord(Head(todo))
    /\ todo' = Tail(todo)
    /\ Report({<<"UNKNOWN_DECL_KEYWORD">>})
    /\ UNCHANGED <<declared, fn, env, stmt, work, crash>>

\* resolveTypeDecl and the annotation of a slot: an unknown type is reported
\* and the declaration goes on with the error type.

\* Fault: the type is taken as it is written.
WrittenType(d) == d.type

DeclaredType(d) == IF d.type \in RegType THEN d.type ELSE ErrorType

\* Fault: an unknown type is not reported.
UnreportedType(d) == {}

UnknownType(d) == IF d.type = "unknown" THEN {<<"UNDEFINED_TYPE">>} ELSE {}

DeclarePort ==
    LET d == Head(todo) IN
    /\ Deciding /\ d.word \in {"input", "output"} /\ ~Taken(d)
    /\ todo' = Tail(todo)
    /\ Set(<<d.name>>, Name(d.word, DeclaredType(d)))
    /\ Report(UnknownType(d))
    /\ UNCHANGED <<declared, fn, slotCount, live, stmt, work, crash>>

StartConst ==
    LET d == Head(todo) IN
    /\ Deciding /\ d.word = "const" /\ ~Taken(d)
    /\ Begin([kind |-> "decl", decl |-> d])
    /\ Report({})
    /\ UNCHANGED <<position, env, crash>>

FinishConst ==
    /\ Complete("decl") /\ stmt.decl.word = "const"
    /\ Set(<<stmt.decl.name>>, Name("const", Top.type))
    /\ SetLive(stmt.decl.name)
    /\ todo' = Tail(todo)
    /\ Begin(Idle)
    /\ Report({})
    /\ UNCHANGED <<declared, fn, slotCount, crash>>

\* What is wrong with a slot before its initializer is looked at.
SlotReports(d) ==
    LET rule == Kinds[d.word].initializer IN
    UnknownType(d)
    \cup (IF rule = "required" /\ ~d.init THEN {<<"INITIALIZER_REQUIRED">>} ELSE {})
    \cup (IF rule = "forbidden" /\ d.init THEN {<<"INITIALIZER_FORBIDDEN">>} ELSE {})

NotAllowed(d, type) ==
    LET allowed == Kinds[d.word].allowed IN
    IF allowed # {} /\ type # ErrorType /\ type \notin allowed
    THEN {<<"DECL_TYPE_NOT_ALLOWED">>} ELSE {}

BindSlot(d, type) ==
    /\ slotCount' = slotCount + 1
    /\ Set(SlotSymbol(d), [kind |-> "slot", type |-> type, slot |-> slotCount + 1,
                           assignable |-> Kinds[d.word].assignable])

DeclareSlot ==
    LET d == Head(todo)
        missing == IF d.type = "absent" THEN {<<"TYPE_REQUIRED">>} ELSE {}
    IN /\ Deciding /\ d.word \in DOMAIN Kinds /\ ~Taken(d) /\ ~d.init
       /\ todo' = Tail(todo)
       /\ BindSlot(d, DeclaredType(d))
       /\ Report(SlotReports(d) \cup missing \cup NotAllowed(d, DeclaredType(d)))
       /\ UNCHANGED <<declared, fn, live, stmt, work, crash>>

StartSlot ==
    LET d == Head(todo) IN
    /\ Deciding /\ d.word \in DOMAIN Kinds /\ ~Taken(d) /\ d.init
    /\ Begin([kind |-> "decl", decl |-> d])
    /\ Report(SlotReports(d))
    /\ UNCHANGED <<position, env, crash>>

Converts(from, to) ==
    \/ from = to \/ ErrorType \in {from, to} \/ <<from, to>> \in DOMAIN Coercion

\* An initializer of a wrong type leaves the slot unbound.
FinishSlot ==
    LET d == stmt.decl
        type == IF d.type = "absent" THEN Top.type ELSE DeclaredType(d)
    IN /\ Complete("decl") /\ d.word \in DOMAIN Kinds
       /\ todo' = Tail(todo)
       /\ Begin(Idle)
       /\ \/ /\ Converts(Top.type, type)
             /\ BindSlot(d, type)
             /\ Report(NotAllowed(d, type))
          \/ /\ ~Converts(Top.type, type)
             /\ Report({<<"TYPE_MISMATCH">>})
             /\ UNCHANGED <<scopes, slotCount>>
       /\ UNCHANGED <<declared, fn, live, crash>>

Declarations ==
    \/ NameTaken \/ UnknownWord \/ DeclarePort
    \/ StartConst \/ FinishConst
    \/ DeclareSlot \/ StartSlot \/ FinishSlot

-----------------------------------------------------------------------------
(* Functions and blocks *)

\* NewEnclosedEnv, here and in the evaluator.
Enclose(names) ==
    /\ Len(scopes) < MaxScopes
    /\ scopes' = Append(scopes, [s \in {} |-> Name("let", NoType)])
    /\ live' = Append(live, names)

Leave ==
    /\ scopes' = SubSeq(scopes, 1, Len(scopes) - 1)
    /\ live' = SubSeq(live, 1, Len(live) - 1)

InputNames == {n \in Ident : /\ <<n>> \in DOMAIN scopes[1]
                             /\ scopes[1][<<n>>].kind = "input"}

\* A function's body: its scope is on top of the top level's.
EnterFn(names) ==
    /\ scopes' = <<scopes[1], [s \in {} |-> Name("let", NoType)]>>
    /\ live' = <<live[1], names>>

\* Init may be missing; bindInputs fills the outermost scope of Run.
ResolveInit ==
    /\ Between /\ fn = "" /\ todo = << >>
    /\ fn' = "Init"
    /\ EnterFn({})
    /\ Report({})
    /\ UNCHANGED <<todo, declared, slotCount, stmt, work, crash>>

ResolveRun ==
    /\ Between /\ \/ fn = "" /\ todo = << >>
                  \/ fn = "Init" /\ Len(scopes) = 2
    /\ fn' = "Run"
    /\ EnterFn(InputNames)
    /\ Report({})
    /\ UNCHANGED <<todo, declared, slotCount, stmt, work, crash>>

Return ==
    /\ Between /\ fn = "Run" /\ Len(scopes) = 2
    /\ fn' = "done"
    /\ Report({})
    /\ UNCHANGED <<todo, declared, env, stmt, work, crash>>

InFunction == Between /\ fn \in {"Init", "Run"}

\* A block statement, or the else branch of an if whose consequence is closed.
OpenBlock ==
    /\ InFunction
    /\ Enclose({})
    /\ Report({})
    /\ UNCHANGED <<position, slotCount, stmt, work, crash>>

CloseBlock ==
    /\ InFunction /\ Len(scopes) > 2
    /\ Leave
    /\ Report({})
    /\ UNCHANGED <<position, slotCount, stmt, work, crash>>

-----------------------------------------------------------------------------
(* Statements *)

\* A statement that is resolved to a BadStmt, for which the evaluator has no
\* case either.
BadStmt(codes) ==
    /\ Begin(Idle)
    /\ Report(codes) /\ Panics({"bad node"})
    /\ UNCHANGED <<position, env>>

\* The statements that start with an expression.
StartStmt(kind) ==
    /\ InFunction
    /\ Begin([kind |-> kind])
    /\ Report({})
    /\ UNCHANGED <<position, env, crash>>

FinishExpr ==
    /\ Complete("expression")
    /\ Begin(Idle)
    /\ Report({})
    /\ UNCHANGED <<position, env, crash>>

\* Fault: only the innermost scope is looked at.
NameInScope(n) == <<n>> \in DOMAIN scopes[Len(scopes)]

NameInUse(n) == Bound(<<n>>)

StartLet(n) ==
    /\ InFunction
    /\ \/ ~NameInUse(n) /\ Begin([kind |-> "let", name |-> n]) /\ Report({})
       \/ /\ NameInUse(n) /\ Begin([kind |-> "let taken"])
          /\ Report({TakenCode(<<n>>)})
    /\ UNCHANGED <<position, env, crash>>

FinishLet ==
    \/ /\ Complete("let")
       /\ Set(<<stmt.name>>, Name("let", Top.type))
       /\ SetLive(stmt.name)
       /\ Begin(Idle)
       /\ Report({})
       /\ UNCHANGED <<position, slotCount, crash>>
    \/ Complete("let taken") /\ BadStmt({})

Assignable(b) == b.assignable

\* The value is resolved before the target is looked at.
AssignTo(s, n) ==
    LET b == Get(s) IN
    \/ ~Assignable(b) /\ BadStmt({<<"NOT_ASSIGNABLE">>})
    \/ /\ Assignable(b) /\ ErrorType \in {Top.type, b.type}
       /\ BadStmt({})
    \/ /\ Assignable(b) /\ ErrorType \notin {Top.type, b.type}
       /\ ~Converts(Top.type, b.type)
       /\ BadStmt({<<"TYPE_MISMATCH">>})
    \/ /\ Assignable(b) /\ ErrorType \notin {Top.type, b.type}
       /\ Converts(Top.type, b.type)
       /\ Begin(Idle)
       /\ Report({})
       /\ Panics(IF b.slot # 0 \/ InLive(n) THEN {} ELSE {"no such variable"})
       /\ UNCHANGED <<position, env>>

FinishAssign ==
    /\ Complete("assign")
    /\ \/ \E n \in Ident :
             \/ ~Bound(<<n>>) /\ BadStmt({<<"UNDEFINED_VAR">>})
             \/ Bound(<<n>>) /\ AssignTo(<<n>>, n)
       \/ \E w, n \in Ident :
             \/ ~IsDeclWord(w) /\ BadStmt({<<"INVALID_ASSIGN_TARGET">>})
             \/ /\ IsDeclWord(w) /\ ~Bound(<<w, n>>)
                /\ BadStmt({<<"SLOT_UNDECLARED">>})
             \/ IsDeclWord(w) /\ Bound(<<w, n>>) /\ AssignTo(<<w, n>>, n)

\* The consequence follows, in a scope of its own.
FinishIf ==
    /\ Complete("if")
    /\ Enclose({})
    /\ Begin(Idle)
    /\ Report(Mismatches({Top.type}))
    /\ Panics(NotBool({Top.type}))
    /\ UNCHANGED <<position, slotCount>>

\* The parameters of an output: its fields, or its value.
EmitRule(type) ==
    [params |-> IF type \in DOMAIN Fields /\ Fields[type] # << >> THEN Fields[type]
                ELSE <<[name |-> "value", type |-> type, exact |-> FALSE]>>,
     type |-> type]

EmitOutsideRun == IF fn = "Run" THEN {} ELSE {<<"EMIT_OUTSIDE_RUN">>}

EmitTo(n, args) ==
    LET rule == EmitRule(Get(<<n>>).type) IN
    IF Len(args) # Len(rule.params)
    THEN BadStmt(EmitOutsideRun \cup CountMismatch(rule.params, args))
    ELSE /\ Len(work) < MaxWork
         /\ stmt' = [kind |-> "emit"]
         /\ work' = <<Call(rule, args, TRUE)>>
         /\ Report(EmitOutsideRun)
         /\ UNCHANGED <<position, env, crash>>

StartEmit ==
    /\ InFunction
    /\ \/ BadStmt({<<"INVALID_EMIT_TARGET">>})     \* no argument, or no name
       \/ \E n \in Ident :
             \/ ~Bound(<<n>>) /\ BadStmt({<<"UNDEFINED_IDENT">>})
             \/ /\ Bound(<<n>>) /\ Get(<<n>>).kind # "output"
                /\ BadStmt({<<"INVALID_EMIT_TARGET">>})
             \/ /\ Bound(<<n>>) /\ Get(<<n>>).kind = "output"
                /\ \E args \in ArgLists : EmitTo(n, args)

FinishEmit ==
    /\ CallDone /\ stmt.kind = "emit" /\ Len(work) = 1
    /\ \/ /\ Top.ok /\ Unfilled(Top) = {}
          /\ Begin(Idle)
          /\ Report({})
          /\ UNCHANGED <<position, env, crash>>
       \/ ~(Top.ok /\ Unfilled(Top) = {}) /\ BadStmt(Unfilled(Top))

Statements ==
    \/ \E kind \in {"expression", "if", "assign"} : StartStmt(kind)
    \/ \E n \in Ident : StartLet(n)
    \/ StartEmit
    \/ FinishExpr \/ FinishLet \/ FinishAssign \/ FinishIf \/ FinishEmit
    \/ OpenBlock \/ CloseBlock

Done == fn = "done" /\ UNCHANGED vars

Next ==
    \/ Declarations
    \/ ResolveInit \/ ResolveRun \/ Return
    \/ Statements
    \/ Expressions
    \/ Done

Spec == Init /\ [][Next]_vars

-----------------------------------------------------------------------------
(* Safety *)

\* A program without diagnostics reaches none of the panics that the evaluator
\* calls unreachable (evaluator.go:298, 318, 371, 408, 429, 460, 480), and its
\* resolution none of the resolver's (resolver.go:491): every name is in Env
\* when it is read or assigned to, conditions and the operands of && and || are
\* Bool, and no bad node is left.
AcceptedNeverPanics == ~failed => crash = {}

\* The error type never appears without a diagnostic (resolver.go:489-494), not
\* in a binding that outlives the statement either.
ErrorHasCause ==
    ~failed => /\ \A k \in DOMAIN work : work[k].type # ErrorType
               /\ \A k \in DOMAIN scopes : \A s \in DOMAIN scopes[k] :
                     scopes[k][s].type # ErrorType

\* A name has one binding, in whatever scope: nothing is shadowed.
NoShadowing ==
    \A j, k \in DOMAIN scopes : j # k => DOMAIN scopes[j] \cap DOMAIN scopes[k] = {}

\* The evaluator's cells are one per slot: the bindings number them without
\* gaps, at the top level only.
SlotBindings(k) == {s \in DOMAIN scopes[k] : scopes[k][s].slot # 0}
SlotsHaveOwnCells ==
    /\ \A j, k \in SlotBindings(1) : scopes[1][j].slot = scopes[1][k].slot => j = k
    /\ {scopes[1][s].slot : s \in SlotBindings(1)} = 1..slotCount
    /\ \A k \in DOMAIN scopes : k > 1 => SlotBindings(k) = {}

\* Neither names nor cells are shared.
BindingsAreApart == NoShadowing /\ SlotsHaveOwnCells

\* What a declaration has bound is never bound again.
NothingRebound ==
    [][\A s \in DOMAIN scopes[1] :
          s \in DOMAIN scopes'[1] /\ scopes'[1][s] = scopes[1][s]]_vars

\* Counting arguments is enough to know that each parameter has one: one is
\* missing only where an argument was refused (resolver.go:661, 739-745).
MissingHasCause ==
    [][\A d \in report' : d[1] = "ARG_MISSING" => ~Top.ok]_vars

\* What an expression or a condition reports about its operands is not about
\* error types alone: one mistake is not reported again further up.
MistakeReportedOnce ==
    [][/\ stmt # Idle /\ IsValue(Len(work)) /\ Len(work') <= Len(work)
       /\ stmt.kind \notin {"assign", "decl"} \/ stmt' = stmt
       /\ report' # {}
       => \E k \in Len(work') .. Len(work) :
             IsValue(k) /\ work[k].type # ErrorType]_vars

-----------------------------------------------------------------------------
(* What the docs promise and the code does not do *)

\* env.go:51 "a qualified key can never collide with a user name".
QualifiedNamesAreSlots == "slot is nil" \notin crash
=============================================================================
