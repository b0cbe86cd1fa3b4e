------------------------------- MODULE Engine -------------------------------
(***************************************************************************)
(* The executable of one compiled script and the evaluator under it        *)
(* (executable.go, evaluator/evaluator.go), driven by a host that may call *)
(* back into it.                                                           *)
(*                                                                         *)
(* Everything runs on one goroutine, yet the host regains control in the   *)
(* middle of an API call whenever host code runs: a registered rule or     *)
(* coercion, or a sink, during a tick; a coercion while Slot.Set or        *)
(* BindInput converts a value.  From there it may call any API operation,  *)
(* so the state is the Go call stack, restricted to the activations that   *)
(* are suspended in the engine.                                            *)
(*                                                                         *)
(* A script body is any finite sequence of the effects a body can have: the*)
(* language has no loops, so its length is bounded by the program          *)
(* (MaxFuel).  What an expression computes is any value of its type, which *)
(* is what the resolver and the rules' contracts guarantee.                *)
(***************************************************************************)
EXTENDS Integers, Sequences

CONSTANTS
    Decls,      \* prog.Decls: the resolved declarations in source order
    Type,       \* registered type ids
    Val,        \* runtime values, script values and host objects alike
    TypeOf,     \* Value.TypeID()
    Coercible,  \* the <<from, to>> pairs LookupCoerce answers with a host rule
    Nothing,    \* the content of an empty cell and of an unbound input
    MaxDepth,   \* bound: activations suspended at once
    MaxFuel     \* bound: host calls and slot writes of one activation

Decl == [kind : {"const", "slot", "input", "output"},
         type : Type, hasInit : BOOLEAN]

ASSUME DeclsAssumption == Decls \in Seq(Decl)
ASSUME ValAssumption == /\ TypeOf \in [Val -> Type]
                        /\ Coercible \subseteq Type \X Type
                        /\ Nothing \notin Val
ASSUME BoundAssumption == MaxDepth \in Nat /\ MaxFuel \in Nat

(***************************************************************************)
(* A declaration is known by its place in Decls: names are unique, the     *)
(* resolver rejects a script that declares one twice.                      *)
(***************************************************************************)
DeclsOf(kind) == {d \in DOMAIN Decls : Decls[d].kind = kind}
Slots   == DeclsOf("slot")
Inputs  == DeclsOf("input")
Outputs == DeclsOf("output")

BodyAt == Len(Decls) + 1        \* where the body of Init or Run is evaluated

(***************************************************************************)
(* One suspended activation.  Of a tick, fn is the entry point, at the     *)
(* declaration the load phase is at (BodyAt in the body), eval whether its *)
(* expression is being evaluated, calling the host code that is running.   *)
(* Of a coercion on the way into Slot.Set or BindInput, at is the          *)
(* declaration whose cell is to be written once the host rule returns.     *)
(***************************************************************************)
TickFns == {"Init", "Run"}
Frame == [fn      : TickFns \cup {"Set", "Bind"},
          at      : 1..BodyAt,
          eval    : BOOLEAN,
          fuel    : 0..MaxFuel,
          calling : {"none", "rule", "coerce", "emit"}]

Codes == {"none", "ok", "panic", "ErrMidActivation", "ErrSlotEmpty",
          "ErrNotInitialized", "ErrInitRepeated", "ErrBindTooLate",
          "ErrSetTooLate", "SLOT_TYPE_MISMATCH", "INPUT_TYPE_MISMATCH",
          "INPUT_UNKNOWN", "INPUT_MISSING", "OUTPUT_TYPE_MISMATCH",
          "OUTPUT_UNKNOWN", "OUTPUT_MISSING", "UNINITIALIZED_SLOT",
          "RUNTIME_FAILURE", "INTERNAL_FAILURE"}

VARIABLES
    stage,      \* Executable.stage
    inTick,     \* Evaluator.inTick
    currFn,     \* Evaluator.currFn, the entry point runtime diagnostics name
    cells,      \* Evaluator.slots
    inputs,     \* Evaluator.inputs
    outputs,    \* the keys of Evaluator.outputs
    stack,      \* suspended activations, innermost last
    ret         \* what the last finished API call returned

data   == <<cells, inputs, outputs>>
engine == <<stage, inTick, currFn>>
vars   == <<stage, inTick, currFn, cells, inputs, outputs, stack, ret>>

TypeOK ==
    /\ stage \in {"created", "initialized", "failed"}
    /\ inTick \in BOOLEAN
    /\ currFn \in TickFns \cup {""}
    /\ cells \in [Slots -> Val \cup {Nothing}]
    /\ inputs \in [Inputs -> Val \cup {Nothing}]
    /\ outputs \in SUBSET Outputs
    /\ stack \in Seq(Frame)
    /\ ret \in Codes

Init ==
    /\ stage = "created"
    /\ inTick = FALSE
    /\ currFn = ""
    /\ cells = [s \in Slots |-> Nothing]
    /\ inputs = [i \in Inputs |-> Nothing]
    /\ outputs = {}
    /\ stack = << >>
    /\ ret = "none"

-----------------------------------------------------------------------------
(* The call stack *)

Top        == stack[Len(stack)]
HostTurn   == stack # << >> => Top.calling # "none"
ScriptTurn == stack # << >> /\ Top.calling = "none"

Push(f)   == Len(stack) < MaxDepth /\ stack' = Append(stack, f)
Pop       == stack' = SubSeq(stack, 1, Len(stack) - 1)
SetTop(f) == stack' = [stack EXCEPT ![Len(stack)] = f]

Tick(fn, at)        == [fn |-> fn, at |-> at, eval |-> FALSE,
                        fuel |-> MaxFuel, calling |-> "none"]
Coercion(fn, d)     == [fn |-> fn, at |-> d, eval |-> FALSE,
                        fuel |-> 0, calling |-> "coerce"]

\* An API call that returns and changes nothing.
Answer(code) == ret' = code /\ UNCHANGED <<stage, inTick, currFn, data, stack>>

Fits(v, d)      == TypeOf[v] = Decls[d].type
CanCoerce(v, d) == <<TypeOf[v], Decls[d].type>> \in Coercible
ValuesOf(d)     == {v \in Val : Fits(v, d)}

-----------------------------------------------------------------------------
(* Slot handles *)

SlotGet(s) ==
    /\ HostTurn
    /\ \/ inTick  /\ Answer("ErrMidActivation")
       \/ ~inTick /\ cells[s] = Nothing /\ Answer("ErrSlotEmpty")
       \/ ~inTick /\ cells[s] # Nothing /\ Answer("ok")

SetCell(s, v)   == cells'  = [cells EXCEPT ![s] = v]
SetInput(i, v)  == inputs' = [inputs EXCEPT ![i] = v]

\* Fault: SlotSet forgets that a tick may be under way.
NeverReentered == FALSE

SetReentered == inTick

\* The host coercion runs between the checks and the write.
SlotSet(s, v) ==
    \/ /\ SetReentered
       /\ Answer("ErrMidActivation")
    \/ /\ ~SetReentered /\ ~Fits(v, s) /\ ~CanCoerce(v, s)
       /\ Answer("SLOT_TYPE_MISMATCH")
    \/ /\ ~SetReentered /\ ~Fits(v, s) /\ CanCoerce(v, s)
       /\ Push(Coercion("Set", s))
       /\ UNCHANGED <<engine, data, ret>>
    \/ /\ ~SetReentered /\ Fits(v, s)
       /\ SetCell(s, v)
       /\ ret' = "ok"
       /\ UNCHANGED <<engine, inputs, outputs, stack>>

Set(s, v) ==
    /\ HostTurn
    /\ \/ stage = "failed" /\ Answer("ErrSetTooLate")
       \/ stage # "failed" /\ SlotSet(s, v)

-----------------------------------------------------------------------------
(* Ports *)

\* Fault: the value is stored under whatever type it has.
BindUnchecked(i, v) ==
    /\ SetInput(i, v)
    /\ ret' = "ok"
    /\ UNCHANGED <<engine, cells, outputs, stack>>

EvalBindInput(i, v) ==
    \/ /\ ~Fits(v, i) /\ ~CanCoerce(v, i)
       /\ Answer("INPUT_TYPE_MISMATCH")
    \/ /\ ~Fits(v, i) /\ CanCoerce(v, i)
       /\ Push(Coercion("Bind", i))
       /\ UNCHANGED <<engine, data, ret>>
    \/ /\ Fits(v, i)
       /\ SetInput(i, v)
       /\ ret' = "ok"
       /\ UNCHANGED <<engine, cells, outputs, stack>>

\* Fault: ports stay open until the program fails.
BindClosedByFailure == stage = "failed"

BindClosed == stage # "created"

BindInput(i, v) ==
    /\ HostTurn
    /\ \/ BindClosed  /\ Answer("ErrBindTooLate")
       \/ ~BindClosed /\ EvalBindInput(i, v)

EvalBindOutput(o, t) ==
    \/ /\ t # Decls[o].type
       /\ Answer("OUTPUT_TYPE_MISMATCH")
    \/ /\ t = Decls[o].type
       /\ outputs' = outputs \cup {o}
       /\ ret' = "ok"
       /\ UNCHANGED <<engine, cells, inputs, stack>>

BindOutput(o, t) ==
    /\ HostTurn
    /\ \/ BindClosed  /\ Answer("ErrBindTooLate")
       \/ ~BindClosed /\ EvalBindOutput(o, t)

\* A name no declaration has falls off the end of the search.
BindUnknown(code) ==
    /\ HostTurn
    /\ IF BindClosed THEN Answer("ErrBindTooLate") ELSE Answer(code)

\* The host rule of a pending Set or BindInput returns: the checks made before
\* the call are not made again.
CoercionReturns(v) ==
    /\ HostTurn /\ stack # << >> /\ Top.fn \notin TickFns
    /\ Fits(v, Top.at)
    /\ \/ Top.fn = "Set"  /\ SetCell(Top.at, v)  /\ UNCHANGED inputs
       \/ Top.fn = "Bind" /\ SetInput(Top.at, v) /\ UNCHANGED cells
    /\ Pop
    /\ ret' = "ok"
    /\ UNCHANGED <<engine, outputs>>

\* It panics: nothing in Set or BindInput recovers, the host code below does
\* or panics in turn.
CoercionPanics ==
    /\ HostTurn /\ stack # << >> /\ Top.fn \notin TickFns
    /\ Pop
    /\ ret' = "panic"
    /\ UNCHANGED <<engine, data>>

-----------------------------------------------------------------------------
(* Entering and leaving a tick *)

InitReentered == inTick
RunReentered  == inTick

\* Fault: an Init that failed may be tried again.
InitRetries(code) == stage' = IF code = "ok" THEN "initialized" ELSE "created"

\* What Executable.Init does with EvalInit's answer.
InitReturns(code) == stage' = IF code = "ok" THEN "initialized" ELSE "failed"

\* Fault: the sinks are not looked for before they are needed.
OutputsUnchecked == TRUE

OutputsBound == outputs = Outputs

EvalInit ==
    \/ /\ InitReentered
       /\ InitReturns("ErrMidActivation")
       /\ ret' = "ErrMidActivation"
       /\ UNCHANGED <<inTick, currFn, data, stack>>
    \/ /\ ~InitReentered /\ ~OutputsBound
       /\ currFn' = "Init"
       /\ InitReturns("OUTPUT_MISSING")
       /\ ret' = "OUTPUT_MISSING"
       /\ UNCHANGED <<inTick, data, stack>>
    \/ /\ ~InitReentered /\ OutputsBound
       /\ currFn' = "Init"
       /\ inTick' = TRUE
       /\ Push(Tick("Init", 1))
       /\ UNCHANGED <<stage, data, ret>>

InitCall ==
    /\ HostTurn
    /\ \/ stage # "created" /\ Answer("ErrInitRepeated")
       \/ stage = "created" /\ EvalInit

AllBound == \A i \in Inputs : inputs[i] # Nothing

EvalRun ==
    \/ /\ RunReentered
       /\ Answer("ErrMidActivation")
    \/ /\ ~RunReentered /\ ~AllBound
       /\ currFn' = "Run"
       /\ ret' = "INPUT_MISSING"
       /\ UNCHANGED <<stage, inTick, data, stack>>
    \/ /\ ~RunReentered /\ AllBound
       /\ currFn' = "Run"
       /\ inTick' = TRUE
       /\ Push(Tick("Run", BodyAt))
       /\ UNCHANGED <<stage, data, ret>>

RunCall ==
    /\ HostTurn
    /\ \/ stage # "initialized" /\ Answer("ErrNotInitialized")
       \/ stage = "initialized" /\ EvalRun

\* Fault: inTick is cleared on the way out of the body, not in a defer, so a
\* panic leaves it set.
TickUnwinds(code) ==
    /\ Pop
    /\ inTick' = (code = "INTERNAL_FAILURE")
    /\ IF Top.fn = "Init" THEN InitReturns(code) ELSE UNCHANGED stage
    /\ ret' = code
    /\ UNCHANGED <<currFn, data>>

\* The deferred function of the innermost tick, then Executable.Init or Run.
TickEnds(code) ==
    /\ Pop
    /\ inTick' = FALSE
    /\ IF Top.fn = "Init" THEN InitReturns(code) ELSE UNCHANGED stage
    /\ ret' = code
    /\ UNCHANGED <<currFn, data>>

-----------------------------------------------------------------------------
(* The load phase: declarations in source order *)

Filled(s) == cells[s] # Nothing
Loading   == ScriptTurn /\ Top.fn = "Init" /\ Top.at < BodyAt

\* Fault: the loop index is advanced twice.
SkipsOneDecl == SetTop([Top EXCEPT !.at = @ + 2, !.eval = FALSE])

NextDecl == SetTop([Top EXCEPT !.at = @ + 1, !.eval = FALSE])

\* Fault: an initializer runs over a value the host set.
SkipsUninitialized(d) ==
    \/ Decls[d].kind \in {"input", "output"}
    \/ Decls[d].kind = "slot" /\ ~Decls[d].hasInit

\* A host fill wins: the initializer is only a fallback.
Skips(d) == \/ Decls[d].kind \in {"input", "output"}
            \/ Decls[d].kind = "slot" /\ (Filled(d) \/ ~Decls[d].hasInit)

SkipDecl ==
    /\ Loading /\ ~Top.eval /\ Skips(Top.at)
    /\ NextDecl
    /\ UNCHANGED <<engine, data, ret>>

EnterDecl ==
    /\ Loading /\ ~Top.eval /\ ~Skips(Top.at)
    /\ SetTop([Top EXCEPT !.eval = TRUE])
    /\ UNCHANGED <<engine, data, ret>>

StoreConst ==
    /\ Loading /\ Top.eval /\ Decls[Top.at].kind = "const"
    /\ NextDecl
    /\ UNCHANGED <<engine, data, ret>>

StoreInitializer(v) ==
    /\ Loading /\ Top.eval /\ Decls[Top.at].kind = "slot"
    /\ Fits(v, Top.at)
    /\ SetCell(Top.at, v)
    /\ NextDecl
    /\ UNCHANGED <<engine, inputs, outputs, ret>>

-----------------------------------------------------------------------------
(* Expressions and statements *)

InBody     == ScriptTurn /\ Top.at = BodyAt
Evaluating == ScriptTurn /\ (Top.eval \/ Top.at = BodyAt)
Spend(f)   == [f EXCEPT !.fuel = @ - 1]

\* An operator, method or member rule, or a coercion the resolver inserted.
CallHost(callee) ==
    /\ Evaluating /\ Top.fuel > 0
    /\ SetTop([Spend(Top) EXCEPT !.calling = callee])
    /\ UNCHANGED <<engine, data, ret>>

\* A slot reference reaches slots above the declaration being evaluated.
ReadEmptySlot(s) ==
    /\ Evaluating /\ s < Top.at /\ ~Filled(s)
    /\ TickEnds("UNINITIALIZED_SLOT")

AssignSlot(s, v) ==
    /\ InBody /\ Top.fuel > 0
    /\ Fits(v, s)
    /\ SetCell(s, v)
    /\ SetTop(Spend(Top))
    /\ UNCHANGED <<engine, inputs, outputs, ret>>

\* emit(...) is accepted in Run only; the sink of an unbound output is nil.
Emit(o) ==
    /\ InBody /\ Top.fn = "Run" /\ Top.fuel > 0
    /\ \/ /\ o \in outputs
          /\ SetTop([Spend(Top) EXCEPT !.calling = "emit"])
          /\ UNCHANGED <<engine, data, ret>>
       \/ /\ o \notin outputs
          /\ TickEnds("INTERNAL_FAILURE")

InCallback == HostTurn /\ stack # << >> /\ Top.fn \in TickFns

CallbackReturns ==
    /\ InCallback
    /\ SetTop([Top EXCEPT !.calling = "none"])
    /\ UNCHANGED <<engine, data, ret>>

\* Rules may return an error; a coercion and a sink have no way to.
CallbackFails ==
    /\ InCallback /\ Top.calling = "rule"
    /\ TickEnds("RUNTIME_FAILURE")

CallbackPanics ==
    /\ InCallback
    /\ TickEnds("INTERNAL_FAILURE")

\* Fault: only the slots that have an initializer are looked at.
InitializedFilled == \A s \in Slots : Decls[s].hasInit => Filled(s)

AllFilled == \A s \in Slots : Filled(s)

BodyEnds ==
    /\ InBody
    /\ IF Top.fn = "Init" /\ ~AllFilled
          THEN TickEnds("UNINITIALIZED_SLOT")
          ELSE TickEnds("ok")

-----------------------------------------------------------------------------

HostCall ==
    \/ \E s \in Slots : SlotGet(s) \/ \E v \in Val : Set(s, v)
    \/ \E i \in Inputs, v \in Val : BindInput(i, v)
    \/ \E o \in Outputs, t \in Type : BindOutput(o, t)
    \/ \E code \in {"INPUT_UNKNOWN", "OUTPUT_UNKNOWN"} : BindUnknown(code)
    \/ InitCall
    \/ RunCall

CoercionEnds == CoercionPanics \/ \E v \in Val : CoercionReturns(v)
CallbackEnds == CallbackReturns \/ CallbackFails \/ CallbackPanics

ScriptStep ==
    \/ SkipDecl \/ EnterDecl \/ StoreConst \/ BodyEnds
    \/ \E v \in Val : StoreInitializer(v)
    \/ \E callee \in {"rule", "coerce"} : CallHost(callee)
    \/ \E s \in Slots : ReadEmptySlot(s) \/ \E v \in Val : AssignSlot(s, v)
    \/ \E o \in Outputs : Emit(o)

Next == HostCall \/ CoercionEnds \/ CallbackEnds \/ ScriptStep

Spec == Init /\ [][Next]_vars

(***************************************************************************)
(* The evaluator is plain sequential code: its next step is always taken.  *)
(* That host code called by the engine returns is an assumption about the  *)
(* environment: a host function calls the API finitely often, so however   *)
(* deep it is on the stack it is left at last.  It is strong fairness as   *)
(* each call of its own suspends the function for a while.                 *)
(***************************************************************************)
HostReturns(depth) == Len(stack) = depth /\ (CallbackEnds \/ CoercionEnds)

Fairness == /\ WF_vars(ScriptStep)
            /\ \A depth \in 1..MaxDepth : SF_vars(HostReturns(depth))

FairSpec == Spec /\ Fairness

-----------------------------------------------------------------------------
(* Safety *)

Ticking(fn) == \E k \in DOMAIN stack : stack[k].fn = fn
LoadPhase   == \E k \in DOMAIN stack : stack[k].fn = "Init" /\ stack[k].at < BodyAt

\* The engine is never re-entered: whatever host code calls, at most one tick
\* is on the call stack, inTick says exactly whether one is (evaluator.go:30
\* "inTick guards the slot handle API and Init/Run against re-entrancy"), and
\* currFn, which its diagnostics read after the host code returned, names it.
SingleActivation ==
    /\ \A j, k \in DOMAIN stack :
          stack[j].fn \in TickFns /\ stack[k].fn \in TickFns => j = k
    /\ inTick <=> \E k \in DOMAIN stack : stack[k].fn \in TickFns
    /\ \A k \in DOMAIN stack : stack[k].fn \in TickFns => currFn = stack[k].fn

\* What can be suspended above what, and in which stage.  Only the innermost
\* activation computes; the others wait for host code.  Host code of an Init can
\* suspend nothing but a BindInput above it (a Set is refused), host code of a
\* Run nothing at all, so no pending write is ever completed in the middle of a
\* Run and no slot write in the middle of a tick.
StackDiscipline ==
    /\ \A k \in DOMAIN stack : k < Len(stack) => stack[k].calling # "none"
    /\ \A k \in DOMAIN stack :
          /\ stack[k].fn = "Set"  => stack[k].calling = "coerce" /\ stack[k].at \in Slots
          /\ stack[k].fn = "Bind" => stack[k].calling = "coerce" /\ stack[k].at \in Inputs
          /\ stack[k].fn = "Init" => stage # "initialized" /\ outputs = Outputs
          /\ stack[k].fn = "Run"  => stage = "initialized" /\ stack[k].at = BodyAt
    /\ \A j, k \in DOMAIN stack :
          j < k /\ stack[j].fn \in TickFns
             => stack[j].fn = "Init" /\ stack[k].fn = "Bind"

\* A program that may run is complete: no slot is empty (SPEC 4.2, Rule B) and
\* every output has its sink, whatever host code did while Init was running.
ReadyIsComplete ==
    stage = "initialized" => (\A s \in Slots : Filled(s)) /\ outputs = Outputs

\* No value reaches a slot or an input under another type than the declared
\* one: by the host, by a pending coercion or by the script.
StoreWellTyped ==
    /\ \A s \in Slots  : Filled(s) => Fits(cells[s], s)
    /\ \A i \in Inputs : inputs[i] # Nothing => Fits(inputs[i], i)

-----------------------------------------------------------------------------
(* What a step may never do *)

\* SPEC 4.2, Rule A: while the load phase runs no filled cell is overwritten,
\* so a value the host set before Init is what the body of Init finds.
HostFillWins ==
    [][LoadPhase => \A s \in Slots : Filled(s) => cells'[s] = cells[s]]_vars

\* During a tick slots are written by the script alone, never by host code it
\* called, nor by a Set that was suspended when the tick began.
ScriptOwnsSlots == [][inTick /\ cells' # cells => ScriptTurn]_vars

\* The inputs of a Run do not change under it (evaluator.go:204 "Bound inputs
\* must stay immutable for the call's duration"), though a coercion of
\* BindInput can outlast the stage in which binding is allowed.
InputsFrozenInRun == [][Ticking("Run") => UNCHANGED inputs]_vars

\* Once Init has succeeded the engine itself never fails a Run: an activation
\* that host code does not fail neither reads an empty slot nor emits to a
\* missing sink (evaluator.go:352, 412-424).
RunFailsInHostCodeOnly ==
    [][ScriptTurn /\ Top.fn = "Run" /\ Len(stack') < Len(stack) => ret' = "ok"]_vars

-----------------------------------------------------------------------------
(* Liveness *)

\* Every Init and every Run comes back to the host that called it.
TickTerminates == inTick ~> ~inTick

-----------------------------------------------------------------------------
(* What the docs promise and the code does not do *)

\* SPEC.md:157-158 "Every declared input must be bound before Init or Init
\* fails with INPUT_MISSING".
InitNeedsInputs == stage = "initialized" => AllBound

\* SPEC.md:366-367 "A failure is terminal; the executable moves to failed and
\* never runs": after a failed Init no program becomes ready.
FailedIsFinal == [][stage = "failed" => stage' = "failed"]_vars

\* executable.go:36 "a failed program can not be filled".
FailedNotFilled == [][stage = "failed" /\ ~inTick => UNCHANGED cells]_vars

-----------------------------------------------------------------------------
(* The lifecycle a host may rely on *)

\* The stage field alone does not tell: host code that calls Init during Init
\* leaves "failed" there until the Init that is running returns.
Phase == IF Ticking("Run") THEN "running"
         ELSE IF LoadPhase THEN "loading"
         ELSE IF Ticking("Init") THEN "seeding"
         ELSE stage

Promise == INSTANCE Lifecycle WITH phase <- Phase, cells <- cells, inputs <- inputs

\* The engine implements the lifecycle of Lifecycle.tla.
LifecycleSpec == Promise!Spec
=============================================================================
