# TLA+ models of tascript

tascript is an embedded scripting engine: a host registers types, rules, modules and declaration
words, compiles one script against them, wires the script's ports and then drives it, `Init` once
and `Run` for every event. The modules here model the parts of the engine whose correctness depends
on the *order* of calls, and the parts that compute at the limits of 64-bit integers and floats; they
are checked with TLC on small instances, and the main invariants are proved with TLAPS for all.

## The system

| component | code | state | operations | hard because |
|---|---|---|---|---|
| executable lifecycle | `executable.go` | `stage` | `BindInput`, `BindOutput`, `Init`, `Run`, `Slot.Get`, `Slot.Set` | host code called by the engine calls these again |
| evaluator | `evaluator/` | slots, inputs, outputs, `inTick`, `currFn`, scopes | `EvalInit`, `EvalRun`, slot and port access, expressions | panics and errors unwind through a deferred recovery; checks are made before host code runs and used after it; expressions trust the tables for the types of values |
| registry | `registry/registry.go` | types, modules, declaration words, five rule tables, `sealed` | `Register*`, `Seal`, lookups | three maps share one name space; entries refer to each other; it must not change behind a program |
| builder | `tascript.go` | `spent` | `Compile` | parse, resolve, seal and three early returns in an order that matters |
| resolver | `resolver/` | scopes, declared names, diagnostics | `Resolve` | one error must not cause another, none must be lost; it writes the registry |
| parser | `parser/` | two tokens, depth, diagnostics | `Parse` | error recovery has to advance, at most 100 diagnostics, nesting of 64 |
| lexer | `lexer/`, `token/` | cursor, bracket depth | `NextToken` | newlines are tokens except where brackets, blank lines, comments and `else` swallow them |
| stdlib, standard operators | `stdlib/`, `registry/std_math.go`, `registry/cast.go` | none | `math`, `time`, `+ - * / %`, comparisons | 64-bit wrap, floats that round, flooring, types kept in tables apart from the functions, registration that fails half-way |
| ast, resolved, diag | | none | constructors, `String` | data only |

How they interact: the host calls the builder's registry and `Compile`; `Compile` runs parser and
resolver, which calls the registry back to register the types of structured ports, seals the
registry and wraps the resolved program in an executable. The executable forwards to the evaluator,
which calls *host* functions: rules and coercions out of the registry, and sinks. All of it runs on
one goroutine (`tascript.go:1` makes that a contract), so there is no preemption, but at every call
out of the engine the host has control again and may call any API operation.

What makes each component correct: the engine runs one activation at a time, whatever is called
back; a program that may run is complete; cells change only in the turn they belong to; a failed tick
leaves an engine that can be used. The registry gives one meaning to a name and never changes behind
a program; what does not resolve never resolves to something. The resolver accepts no program on
which the evaluator reaches one of its `unreachable` panics, and the standard functions return what their tables promise the resolver. The
parser always returns.

## Modules

| module | models | written from |
|---|---|---|
| `Lifecycle` | the promise to the host: phases, who may write what and when; no call stack | `docs/SPEC.md` 4.1, 4.2 |
| `Engine` | executable and evaluator under re-entrant hosts; implements `Lifecycle` | `executable.go`, `evaluator/evaluator.go` |
| `Engine_proofs` | theorems about `Engine` | |
| `Lifecycle_proofs` | `Engine` implements `Lifecycle` | |
| `MCEngine` | a script and values for TLC | |
| `Registry` | the registry, every `Register*` | `registry/registry.go`, `registry/type.go` |
| `Builder` | `Compile` over `Registry`, with the resolver's registry writes | `tascript.go`, `resolver/resolver.go:253-334` |
| `Builder_proofs` | theorems about `Builder` and `Registry` | |
| `MCBuilder` | names, rules and scripts for TLC | |
| `Resolver` | resolution of a script, with the scopes in which it will be evaluated | `resolver/`, `evaluator/evaluator.go`, `evaluator/env.go` |
| `Resolver_proofs` | theorems about `Resolver` | |
| `MCResolver` | types, rules, words and names for TLC | |
| `Parser` | every parse function and the recovery from errors | `parser/` |
| `Parser_proofs` | theorems about `Parser` | |
| `MCParser` | the tokens sources are made of | |
| `Lexer` | `NextToken` | `lexer/lexer.go`, `token/token.go` |
| `Lexer_proofs` | theorems about `Lexer` | |
| `MCLexer` | the characters sources are made of | |
| `Arithmetic` | what the standard functions compute: integers that wrap, floats that round | `registry/std_math.go`, `registry/cast.go`, `stdlib/*.go` |
| `Arithmetic_proofs` | lemmas about wrapping, flooring and the rounding of floats | |
| `Stdlib` | the tables of standard rules, each with its static type and its function | `registry/std_math.go`, `registry/registry.go`, `stdlib/*.go` |
| `Evaluator` | the expressions of a tick over those rules | `evaluator/evaluator.go:377-531` |
| `Evaluator_proofs` | theorems about `Evaluator` | |
| `MCEvaluator` | the instance for TLC | |

### Engine

`stage`, `inTick`, `currFn` and `inputs` are the fields of those names; `cells` is
`Evaluator.slots`, `outputs` the keys of the map of sinks. `stack` is the Go call stack cut down to
activations that are suspended inside the engine: a tick (`fn` is `"Init"` or `"Run"`) or a pending
coercion of `Slot.Set` or `BindInput`. `ret` is what the last API call that finished returned.

An API call that calls no host code is one action (`SlotGet`, `BindOutput`, the refusals). A call
that does is split where control leaves the engine: `SlotSet` pushes a frame before the coercion and
`CoercionReturns` writes the cell after it *without testing anything again*, as the code does. A
tick is a loop of `ScriptStep`s: declarations in source order (`SkipDecl`, `EnterDecl`,
`StoreConst`, `StoreInitializer`), then a body of host calls, slot reads, slot writes and emits in
any order, then `BodyEnds`. `TickEnds` is the deferred function together with what
`Executable.Init` or `Run` does with its result. When the innermost activation is in host code
(`HostTurn`), the host may call any operation, return, fail or panic.

Abstractions:

- A body is *any* finite sequence of effects. The language has neither loops nor functions of its
  own, so the sequence is finite; `MaxFuel` bounds its host calls and slot writes. `let` variables
  and the scope chain are left to `Resolver`: nothing of the engine's state depends on them.
- An expression yields any value of its static type. This trusts two contracts the code trusts
  too: a rule's function returns the type it was registered with, and a coercion's function the
  type it converts to. `StoreWellTyped` is relative to them.
- A slot reference reaches the slots declared above it: the resolver's walk in source order
  (`resolver.go:40`). Whether a declaration kind allows assignment is left out; a script that may
  assign to every slot has more behaviours.
- An output is bound to a sink or not; which sink, and what is emitted, is not recorded.

### Registry and Builder

`types`, `modules`, `declKinds` and `sealed` are the fields of those names. The five rule tables are
one function `rules` whose keys carry the table they are in; a rule is the type it evaluates to.
Every registration is written as the two ways it refuses and the one way it succeeds.
`RegisterScriptType` is called by the resolver only. A script is reduced to whether it parses,
whether anything unrelated to ports is wrong with it, and its structured ports, resolved one per
step (`ResolvePort`); no host code runs during `Compile`, hence `HostTurn`.

`RegisterLibrary` is `stdlib.Register`: the entries of `Library` in the order of the code, each a
type or module with the rules that are registered once it is there, up to the first whose name is
taken. `library` remembers what it returned. The rules are registered with their errors dropped, so
that a clash of two keys would be silent: `KeysAreDistinct`, an assumption of `Stdlib` that TLC
evaluates, rules it out.

### Resolver

Of a script only the headers of its declarations are given (`Script`: the word, name and type, and
whether there is an initializer); at every point of the walk the next expression or statement is
*any* the parser can produce, and a behaviour is the resolution of one script. Expressions are
resolved bottom-up; `work` holds the operands that are resolved and wait for the node around them, a
call is on it with the parameters filled so far, and `stmt` is the statement whose expressions are
awaited. `scopes` is the chain of `resolver.Env`s, `declared` is `declaredNames`, `fn` is
`Resolver.currFn`, `slotCount` the next slot index, and `report` what the last step reported;
`failed` remembers that anything was.

Beside it the module keeps what the *evaluator* will have when it gets to the node at hand: `live`,
the names in its scopes (`evaluator.Env`), which are opened and filled by other code than the
resolver's. A node that is accepted is looked at once more as the evaluator does, and `crash` collects
the `unreachable` panics and nil pointers it would meet. `AcceptedNeverPanics` relates the two packages.

### Parser

The stack of activations of parse functions is explicit: a frame has its function, the place it has
come to, and whether an error was reported since it last took the count (`errsBefore` in the code).
A step is what happens between two calls of `nextToken`. The source is not given either: `NextToken`
reads any token the lexer may return (never two newlines in a row, none in brackets or before `else`,
which is what `Lexer` shows), so sources have any length, and a behaviour ends because `EOF` is read.
The tree is reduced to `broken`: whether a part of the declaration at hand is a `BadExpr`, a
`BadStmt` or nil. `errors` stops at its limit, as the list of diagnostics does. `brackets` is the
lexer's depth; `MaxOpen` bounds it, and the braces that recovery skips.

### Lexer

The source is given, the state is the lexer's cursor, position and bracket depth, and a token records
the piece of the source it came from. Characters are classes; `else` is one of them, since only
what follows it matters. The loops are recursive functions on places of the source (`SkipBlank`,
`NextLine`, `Scan`), and so is what `advance` does to line and column (`Position`).

### Arithmetic, Stdlib and Evaluator

A value carries its type, as a Go interface value does. `Arithmetic` has the functions behind the
rules: every accessor of `cast.go` that finds another type panics, integers wrap to
`MinInt .. MaxInt`, and floats are a sign and a magnitude with a few significant bits, a subnormal
step, infinities and NaN. A float of the code has fewer significant bits than an integer, and the
instance keeps that order, so that integers are lost when they become floats. A function has a *set*
of outcomes: what Go leaves open (a float converted to an integer it does not fit) is the least
integer, the nearest one or zero, which is what processors give,
and `sqrt`, `log`, `pow` and the calendar fields of a time, which belong to Go's packages, are any of
a few values of their range.

`Stdlib` has the tables: a rule has its key, its static type and its function, which are written in
different places of the code and know nothing of each other. `Evaluator` evaluates expressions: at
every step the next node is any whose rule the resolver finds for the static types at hand, so
scripts are not given. `value` is what the last `evalExpr` returned, `type` the static type the
resolver gave that node, and `pending` the left operands and arguments that wait in the activations
of `evalExpr`. `&&` and `||` evaluate their right operand only if the left one leaves the result open.
A failure aborts the tick and leaves the program usable (`NextTick`), as in `Engine`.

## Runs

| run | configuration | shows |
|---|---|---|
| `engine` | 3 suspended activations, 2 effects per body, a slot to be filled, one with initializer, a constant, an input, an output, 4 values, `FairSpec` | type invariant, `SingleActivation`, `StackDiscipline`, `ReadyIsComplete`, `StoreWellTyped`, the action properties, refinement of `Lifecycle`, `TickTerminates` |
| `builder` | 5 names, one builtin type, an operator, a member, a library of a module and a type, 3 entries on top of the prelude, 3 scripts | one meaning to a name and only known types in it (`NamesDisjoint`), error type, ports, a library that is whole or refused, growth and freezing of the registry |
| `inputs`, `failed`, `fill` | smaller instances of `Engine` | disagreements listed below |
| `resolver` | 5 scripts of 2 to 4 declarations, 2 operands at a time, 3 scopes, 2 words, 1 module, 1 structured type, 6 argument lists | type invariant, `AcceptedNeverPanics`, `ErrorHasCause`, `BindingsAreApart`, `NothingRebound`, `MissingHasCause`, `MistakeReportedOnce` |
| `dotted` | the same instance with a host type named like a slot | a disagreement listed below |
| `lexer` | every source of up to 6 characters over 4 alphabets | type invariant, `LinesAreSeparated`, `NothingLost`, `PositionsExact` |
| `parser` | 22 tokens, depth 1, 2 errors, 1 open bracket | type invariant, `ValidIffClean`, `KeptIsWhole`, `RecoveryEndsAtLine` |
| `parser_returns` | 15 tokens, depth 1, 2 errors, 1 open bracket, `FairSpec` | `RecursionBounded`, `Returns` |
| `evaluator` | 7-bit integers, floats of 4 significant bits, a day of 24 milliseconds, one operand that waits | `ValuesHaveTheirTypes`, `RulesNeverPanic`, `ZeroDivisorsFail`, `TruncateFloors`, `ScalingRounds` |
| `nearest` | the same instance | a disagreement listed below |

The bounds. Three activations are enough for every shape of the stack: `StackDiscipline` says that
a tick has at most pending `BindInput`s above it and there is one tick, so below, at and above the
tick is covered, and `Engine_proofs` removes the bound for the invariants. Two effects per body let a
body write, call host code and go on. The four values are two of the declared type, one that can be
converted to it and one that cannot. The two slots are the two cases of the load phase. The names of
`MCBuilder` are the reserved type, a builtin, a name that can be a word or a type, the name of a
structured port's type, and a keyword; three more entries let a word, a type and a rule meet in any
order.

In `MCResolver` two waiting operands are both sides of an infix, or a call and its argument; three
scopes are the top level, a function and a block in it; the five scripts have
every kind of declaration, one that repeats a name, ones whose word or type is unknown or not allowed,
and slots with and without initializer. Bodies have any number of statements: the state does not
grow with them. Six characters of
source hold a statement, a newline with a comment or blank line after it, and another one, or a
bracket around it. In `MCParser` the limits are small (the code has 64 and 100) so that every
function meets them. The 22 tokens of `parser` are all that
it tells apart there: in an expression a number is parsed as a name is, and one too large as what
begins no expression.
With two errors parsing goes on after the first wrong declaration, through
`syncToNewLine`, and ends after the second; inside a body it goes on past the limit. Depth 1 is an
expression or an `if`, and the refusal of whatever nests in it, also of a condition; the bound of
`RecursionBounded` is reached there. The tokens of `parser_returns` are those that the loops of the
parser wait for, or that lead to them: ports with a schema, functions, blocks, `let`, `if` and
chains of `else`, calls with several arguments. A recovery that does not look for the end of the
source violates `Returns` in this instance, be it `syncToNewLine`, `syncToStmtEnd` or
`advanceToLBrace`, and so does such a loop over statements or fields.

In `MCEvaluator` every integer of 7 bits and every float of 4 bits and 8 exponents is an operand, so
that each function meets its limits: the largest and the smallest integer, both zeros, subnormals,
infinities, NaN, halves, integers that no float counts. Units of time divide one another as they do
in the code, and the smallest integer is no multiple of a day, as in the code. One operand that waits
gives every pair of operands; a third would only repeat types that a pair has.

Fairness. The evaluator is sequential code between two calls of host code, hence `WF_vars(ScriptStep)`.
That a host function called by the engine returns, fails or panics in the end is an assumption about
the host; without it `Run` hangs in the code, too. It is stated per depth of the call stack and as
strong fairness, since a host function that calls the API is not on top while the call lasts.
No fairness is assumed of what the host calls. For `Returns`, the parser runs on (`WF_vars(Step)`),
and a source has an end: a step that may read `EOF` infinitely often does so once
(`SF_vars(Step /\ peek' = "EOF")`). After it every token is `EOF`.

### Where the code and its documents disagree

- `inputs`: `Init` does not look at inputs (`evaluator.go:144`), although SPEC 3.3 says it fails with
  `INPUT_MISSING`. The program becomes ready, can be bound no more and fails every `Run`.
- `failed`: `Init` called from a host rule during `Init` fails and sets the stage to failed
  (`executable.go:117`); the outer `Init` then sets it to initialized. SPEC 4.1: "a failure is
  terminal". `Lifecycle` is refined nevertheless because its phase is read off the call stack
  while a tick runs: the host is told of a failure of the *nested* call only.
- `fill`: a `Set` whose coercion runs an `Init` that fails stores its value in a failed program,
  against `executable.go:36`.
- `nearest`: a duration is rounded by adding a half and flooring (`stdlib/time_operators.go:173`), and
  the sum is a float that is rounded, too. 1 ms * 0.49999999999999994 is 1 ms, and (2^52 + 1) ms / 1 is
  2^52 + 2 ms, where SPEC 3.5 (`docs/SPEC.md:296`) says "to the nearest integer, half away from zero".
  In the instance it is -15 ms * 1/32 = -1 ms. `ScalingRounds` says what does hold: a small result is
  one of the two integers around the exact one, and the nearest one for an integer operand.
- `dotted`: a host type or module named `state.x` makes the reference `state.x` resolve to a slot reference
  without a slot, against `resolver/env.go:51`; the resolver dereferences nil.

Seen in the same modules, without a run of their own:

- A script that does not parse returns from `Compile` before the seal (`tascript.go:40`): the builder
  is spent and its registry still takes registrations, against SPEC 4.4 ("every `Register*` afterwards
  returns `ErrBuilderSpent`").
- `BindInput` may be repeated before `Init`, although SPEC 3.3 calls a binding permanent.
- A slot whose initializer has the wrong type is left out of the environment (`resolver.go:407`), so
  a reference *below* it is reported as a use before its declaration.
- A call with too few arguments is reported as `ARG_COUNT_MISMATCH`, which SPEC 6.4 gives to calls
  with too many.
- `syncToStmtEnd` does not count an opening brace it is on: recovery from a statement such as `{ }`
  takes its closing brace for the end of the function body and reads the rest of the body as
  declarations.
- `math.round` adds a half as durations do (`stdlib/math.go:91`): the largest float below a half
  becomes 1 and an odd number from 2^52 on becomes the next even one,
  where SPEC 5.3 says "round to nearest". `Arithmetic` rounds the sum and has the same cases.
- `truncate` of a time in the first, cut-off bucket before the smallest integer wraps around to the
  far future (`stdlib/time.go:172`), and `abs` of the smallest duration is negative
  (`stdlib/time.go:142`). `TruncateFloors` says so by its hypothesis; the documents say nothing.
- SPEC 3.4 and 3.5 coerce an Integer to Float at operators; the resolver looks for the exact pair of
  types only (`resolver.go:538`). The standard tables have a rule of their own for each mixed pair,
  so that only a host's operator on floats shows the difference.

## Theorems

`Engine_proofs` proves, for every script, value set, coercion table and bound, every safety property
of the run `engine`, and `Lifecycle_proofs` its refinement. The inductive invariant is

    IInv == TypeOK /\ SingleActivation /\ StackDiscipline /\ ReadyIsComplete

`SingleActivation` alone is not inductive: to know that popping a tick leaves none, the invariant
has to say what lies above and below it, which is `StackDiscipline`; that an `Init` which is running
found its outputs bound is in `StackDiscipline` too, and `ReadyIsComplete` is what it hands on when
it succeeds. The lemmas go from the stack (`PushStack`, `PopStack`, `SetTopStack`: what each frame of
the new stack is) over the kinds of step (`PushTickKeeps`, `PopTickKeeps`, ...) to one step per
action in `IInvStep`.

The action properties follow from `IInv` and from `Writers`, which lists the steps that write cells
and inputs: under a tick `UnderTick` leaves only the script and pending `BindInput`s. `HostFillWins`
needs one more invariant, `Initializing`: the cell whose initializer is being evaluated stays empty,
however long host code called by that initializer takes, because nothing can write it meanwhile.

`EngineKeepsPromise` maps every step of the engine to a step of `Lifecycle` or to a stutter. The
lemmas before it say what each kind of step does to `Phase`, which is read off the call stack while
a tick runs and is `stage` otherwise.

`Builder_proofs` proves every property of the run `builder`. Every step adds to the tables or leaves
them (`TableStep`), and the table invariants are preserved by each way of adding; the ports resolved
so far own their types unless the script is rejected (`Resolved`), which is preserved because tables
only grow and complete when the last port is resolved.

Assumptions: `DeclsAssumption`, `ValAssumption`, `BoundAssumption` (`Engine`), `NamesAssumption`,
`RulesAssumption` (`Registry`), `ScriptAssumption` (`Builder`). They say what the constants are; the
only one with content is that builtin rules do not mention the error type and that no two ports of a
script have the same name, which the resolver rejects before it resolves the port
(`resolver.go:253-262, 274-283`).

`Evaluator_proofs` proves every property of the run `evaluator`, for integers of any width, floats of
any precision and expressions of any depth. The argument is one lemma per family of rules: on operands
of its types a rule is `Sound`, it gives a value of the type its table promises or a failure.
`RulesSound` puts the families together, and the invariant `Static` says that the value at hand and
every operand that waits is `Valid`: it has the tag of its static type, holds an integer in range, a
float, a Boolean or a string, and a string is within the bound. Valid values are the values of a type
(`ValidIs`), which is `ValuesHaveTheirTypes` (`TypesAreStatic`), and a function that is called on them
does not panic (`NeverPanics`).

The other three say what functions compute on valid operands. `TruncateIsFloor` rests on
`FloorDivFloors`: the code's quotient, corrected when signs differ, is the floor, and multiplying it
back cannot wrap unless the start of the bucket is out of range. `ZeroDivisors` rests on the tables,
which name every rule that divides (`DivisionRules`), and on `RoundZero`: no integer but zero becomes
the float zero, so that it does not matter whether a divisor is tested before it is converted or
after. `Scalings` goes through `Round`. Its lemmas bound it by floats on either side (`RoundDown`,
`RoundUp`), hence it keeps floats (`RoundExact`); its sign does not matter to it (`RoundSign`). A
product of small integers is a float and so is the product and a half, so nothing is rounded
(`ProductExact`). A quotient is rounded twice, once as a float and once more with a half added to it.
`QuotientRounds` shows that both together do not carry it over a half: if K is the nearest integer,
what is left after the second rounding is at least K and less than K + 1. The case that needs care is
a quotient just below K and a half (`QuotientAboveWhole`): the distance to it is at least 1/2N, and
for a small N that is more than half the distance between the floats there. For a float operand
neither step carries the result over an integer, since integers are floats: `RoundsBetween` says this
of a quotient between two integers, `RoundsNextTo` that hence the result is less than one away from the
quotient, and `ScalesNextTo` applies it to products and quotients of either sign. Opposite durations
are opposite floats or both zero (`OppositeToFloat`), and every operation keeps that (`TimesAlike`,
`OverAlike`, `AlikeMilliseconds`).

Assumptions: `IntAssumption`, `UnitAssumption`, `PendingAssumption`, and `FloatAssumption`: `Precision`
and `Scale` are powers of two, one is far enough from the least float to have all of its bits, a float
counts no further than integers go, and no integer is too large for a float. In Go `MaxInt` is 2^63 - 1, `Precision` 2^53, `Scale` 2^1074 and
`MaxExp` 2045, which satisfy it, and so do the numbers of `MCEvaluator`. That every operation is
rounded on its own is assumed, too; Go may fuse a product with the half that is added to it
on processors that can.

`Parser_proofs` proves every safety property of the runs `parser` and `parser_returns`, for sources of
any length and any limits. One lemma for each parse function says that its steps are `Inner`: at most
one token is read, an error is counted, nothing goes missing without one, and the innermost activation
moves, calls, becomes another or returns. The grammar is not needed beyond that. `Places` says what
an activation relies on: under another one it waits, and an error that it noticed `Parse` has
noticed too. `ValidIffClean` is strengthened to `Verdict`, which relates `valid` and `errCount` while
`Parse` runs and not only when it is done: what it has not looked at yet is in its `clean`.
`KeptIsWhole` and `RecoveryEndsAtLine` are read off the place of `Parse` (`Kept`, `Recovered`).
`RecursionBounded` needs an invariant of each activation (`DepthOK`): it is at most twice the
number of counted activations up to it, plus a `Slack` of its function, since between two that are
counted there is a block and an assignment at most; only an expression or an `if` that has not looked
at the depth yet may be one above the limit. The bound, 2 * MaxDepth + 5, is reached: 133 activations
in the code. Assumption: `TokenAssumption`.

`Resolver_proofs` proves every property of the run `resolver`, for every registry, rule table and
script and any depth of scopes. There is one lemma for each action. It says that a step either
`Resolves(n)`, replacing the last `n` items on the stack by one and leaving the environments alone,
or `Turns` from one declaration or statement to the next, where the environments change in one of two
ways: `Reshapes(n)` opens or closes scopes, `Binds(s, b)` binds a symbol nobody has bound. The
invariant is kept by these two kinds of steps, whatever the node. `AcceptedNeverPanics` speaks of the
step that was taken and is far from inductive; its strengthening `BindingsOK` says for each kind of
binding where the evaluator has a variable of that name: a `let` or constant in the very scope,
inputs in the second one once `Run` has begun, a slot in a cell. `Levels` says that the two chains of
scopes are equally long. Names are found in them because nothing is shadowed (`NoShadowing`), so that
the innermost binding is the only one. `WorkOK` says of every operand that waits that the error type,
or a subexpression that is not clean, means that a diagnostic was added, and of every open call that
the parameters with an argument and the arguments to come are as many as the parameters. Since no
parameter is filled twice, a call whose arguments are used up has none left (`CountingIsEnough`),
which is why the code may compare numbers (`resolver.go:661`) and then not look for gaps. `StmtOK`
keeps what was found out when a statement began, that its name was free, until its expression is
resolved.

`AcceptedNeverPanics` has a hypothesis, `NoDots`: no type or module is named like a slot of a
declaration word. `RegisterType` and `RegisterModule` look at no dots, so this is up to the host. The run `dotted` shows that it is needed; `MCResolver` satisfies it. Assumptions: `NameAssumption` and
`TypeAssumption` say what names and types are; their part with content, that no type has the name of
another or of a word and that nobody registers the error type, is what `Builder_proofs` proves of the
registry. `RuleAssumption` says what the tables are, and `ScriptAssumption`: a port of a script has a type, since the parser drops
one that has none (`parser.go:89-104`; `KeptIsWhole` is proved). Without it a port could be resolved to the error
type with no diagnostic, and `ErrorHasCause` would not hold.

`Lexer_proofs` proves every property of the run `lexer`, for sources of any length over any of the
characters. Its three parts are what is skipped (`Skips`: blanks, newlines and whole comments), what
one token is (`Reads`: it ends on the line it began on, consumes something, is `else` exactly where the
loop after a newline looks for it, and has a slash inside only as a string), and where the lexer stands
between two calls. The properties are not inductive. `LinesAreSeparated` needs `LastToken`: the lexer
is still on the line of its last token, or, after a NEWLINE, at a character where a line begins that is
neither blank nor a comment nor `else`, so that the next call skips nothing; and `Counted`, since
`Open` is a recursion over the tokens and `bracketDepth` a counter. `NothingLost` needs `Clean`: a
comment that seems to go on where the lexer stands began inside a string of the same line. The type
invariant needs that `bracketDepth` is below the cursor. The loops are recursive functions, for which
there is no induction rule here: a claim about all places that fails, fails for a place closest to the
end of the source (`LeastIs`), and the recursion refutes that one. `DescentExists` shows in this way
that such a function exists, `DescentInduction` that it passes on what holds where it stops;
`PositionIs` and `OpenIs` do the same from left to right. Assumption: `SourceAssumption`.

Checked by TLC only: `TickTerminates` and `Returns`, since liveness under fairness is out of the
prover's reach.

## Not modelled, and the plan

The calendar fields of a time are those of Go's `time`, `sqrt`, `log` and `pow` those of its `math`.
`ast`, `resolved` and `diag` are node and message types with `String` methods and no behaviour of
their own; their shape is in `Parser` and `Resolver`. The examples are hosts, and what a host may do
is the environment of `Engine` and `Builder`. Messages and positions of diagnostics are left out,
except for how many there are and whether one is reported.

Left for later: a fused product and sum in `Scaled`.
