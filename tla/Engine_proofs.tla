--------------------------- MODULE Engine_proofs ---------------------------
(***************************************************************************)
(* Proofs about Engine: its type invariant, that it is never re-entered,   *)
(* that only complete programs are ready, that the store is well typed and *)
(* what a step may never do.                                               *)
(***************************************************************************)
EXTENDS Engine, SequenceTheorems, TLAPS

-----------------------------------------------------------------------------
(* The operations on the call stack *)

LEMMA BodyAtType == BodyAt \in Nat /\ BodyAt >= 1
BY DeclsAssumption DEF BodyAt

LEMMA DeclPlace ==
    ASSUME NEW kind, NEW d \in DeclsOf(kind)
    PROVE  d \in 1..BodyAt /\ d < BodyAt /\ Decls[d] \in Decl
BY DeclsAssumption DEF DeclsOf, BodyAt

LEMMA TickType ==
    ASSUME NEW fn \in TickFns, NEW at \in 1..BodyAt
    PROVE  Tick(fn, at) \in Frame
BY BoundAssumption DEF Tick, Frame

LEMMA CoercionType ==
    ASSUME NEW fn \in {"Set", "Bind"}, NEW d \in 1..BodyAt
    PROVE  Coercion(fn, d) \in Frame
BY BoundAssumption DEF Coercion, Frame

LEMMA TopType ==
    ASSUME stack \in Seq(Frame), stack # << >>
    PROVE  Len(stack) \in DOMAIN stack /\ Len(stack) >= 1 /\ Top \in Frame
BY DEF Top

LEMMA NextDeclType ==
    ASSUME NEW f \in Frame, f.at < BodyAt
    PROVE  [f EXCEPT !.at = @ + 1, !.eval = FALSE] \in Frame
<1>1. f.at + 1 \in 1..BodyAt
  BY BodyAtType DEF Frame
<1>. QED
  BY <1>1 DEF Frame

LEMMA SpendType ==
    ASSUME NEW f \in Frame, f.fuel > 0
    PROVE  Spend(f) \in Frame
<1>1. f.fuel - 1 \in 0..MaxFuel
  BY BoundAssumption DEF Frame
<1>. QED
  BY <1>1 DEF Spend, Frame

LEMMA CallingType ==
    ASSUME NEW f \in Frame, NEW callee \in {"none", "rule", "coerce", "emit"}
    PROVE  [f EXCEPT !.calling = callee] \in Frame
BY DEF Frame

LEMMA PushStack ==
    ASSUME stack \in Seq(Frame), NEW f \in Frame, Push(f)
    PROVE  /\ stack' \in Seq(Frame)
           /\ Len(stack') = Len(stack) + 1
           /\ \A k \in DOMAIN stack : stack'[k] = stack[k]
           /\ stack'[Len(stack) + 1] = f
BY DEF Push

LEMMA PopStack ==
    ASSUME stack \in Seq(Frame), stack # << >>, Pop
    PROVE  /\ stack' \in Seq(Frame)
           /\ Len(stack') = Len(stack) - 1
           /\ \A k \in DOMAIN stack' : k \in DOMAIN stack /\ stack'[k] = stack[k]
<1>. DEFINE n == Len(stack) - 1
            t == SubSeq(stack, 1, n)
<1>1. n \in Nat /\ \A k \in 1..n : k \in DOMAIN stack /\ stack[k] \in Frame
  OBVIOUS
<1>2. stack' = t
  BY DEF Pop
<1>. HIDE DEF n
<1>3. /\ t \in Seq(Frame)
      /\ Len(t) = IF 1 <= n THEN n - 1 + 1 ELSE 0
      /\ \A k \in 1..(n - 1 + 1) : t[k] = stack[1 + k - 1]
  BY <1>1, SubSeqProperties
<1>. HIDE DEF t
<1>4. Len(t) = n /\ \A k \in 1..n : t[k] = stack[k]
  BY <1>1, <1>3
<1>. QED
  BY <1>1, <1>2, <1>3, <1>4 DEF n

LEMMA SetTopStack ==
    ASSUME stack \in Seq(Frame), stack # << >>, NEW f \in Frame, SetTop(f)
    PROVE  /\ stack' \in Seq(Frame)
           /\ Len(stack') = Len(stack)
           /\ \A k \in DOMAIN stack : k # Len(stack) => stack'[k] = stack[k]
           /\ stack'[Len(stack)] = f
BY DEF SetTop

-----------------------------------------------------------------------------
(* Types *)

LEMMA AnswerType ==
    ASSUME TypeOK, NEW code \in Codes, Answer(code)
    PROVE  TypeOK'
BY DEF TypeOK, Answer, data

LEMMA TickEndsType ==
    ASSUME TypeOK, stack # << >>, NEW code \in Codes, TickEnds(code)
    PROVE  TypeOK'
<1>1. stack' \in Seq(Frame)
  BY PopStack DEF TypeOK, TickEnds
<1>. QED
  BY <1>1 DEF TypeOK, TickEnds, InitReturns, data

\* A step that only replaces the innermost activation.
LEMMA SetTopType ==
    ASSUME TypeOK, stack # << >>, NEW f \in Frame, SetTop(f),
           UNCHANGED <<engine, inputs, outputs, ret>>,
           cells' \in [Slots -> Val \cup {Nothing}]
    PROVE  TypeOK'
<1>1. stack' \in Seq(Frame)
  BY SetTopStack DEF TypeOK
<1>. QED
  BY <1>1 DEF TypeOK, engine

LEMMA SetCellType ==
    ASSUME TypeOK, NEW s, NEW v \in Val, SetCell(s, v)
    PROVE  cells' \in [Slots -> Val \cup {Nothing}]
BY DEF TypeOK, SetCell

LEMMA SetInputType ==
    ASSUME TypeOK, NEW i, NEW v \in Val, SetInput(i, v)
    PROVE  inputs' \in [Inputs -> Val \cup {Nothing}]
BY DEF TypeOK, SetInput

LEMMA TypeStep == TypeOK /\ [Next]_vars => TypeOK'
<1>. SUFFICES ASSUME TypeOK, [Next]_vars PROVE TypeOK'
  OBVIOUS
<1>1. CASE UNCHANGED vars
  BY <1>1 DEF TypeOK, vars
<1>2. ASSUME NEW s \in Slots, SlotGet(s) PROVE TypeOK'
  BY <1>2, AnswerType DEF SlotGet, Codes
<1>3. ASSUME NEW s \in Slots, NEW v \in Val, Set(s, v) PROVE TypeOK'
  <2>1. CASE \E code \in Codes : Answer(code)
    BY <2>1, AnswerType
  <2>2. CASE Push(Coercion("Set", s)) /\ UNCHANGED <<engine, data, ret>>
    <3>1. stack' \in Seq(Frame)
      BY <2>2, CoercionType, DeclPlace, PushStack DEF TypeOK, Slots
    <3>. QED
      BY <2>2, <3>1 DEF TypeOK, engine, data
  <2>3. CASE SetCell(s, v) /\ ret' = "ok" /\ UNCHANGED <<engine, inputs, outputs, stack>>
    BY <2>3, SetCellType DEF TypeOK, engine, Codes
  <2>. QED
    BY <1>3, <2>1, <2>2, <2>3 DEF Set, SlotSet, Codes
<1>4. ASSUME NEW i \in Inputs, NEW v \in Val, BindInput(i, v) PROVE TypeOK'
  <2>1. CASE \E code \in Codes : Answer(code)
    BY <2>1, AnswerType
  <2>2. CASE Push(Coercion("Bind", i)) /\ UNCHANGED <<engine, data, ret>>
    <3>1. stack' \in Seq(Frame)
      BY <2>2, CoercionType, DeclPlace, PushStack DEF TypeOK, Inputs
    <3>. QED
      BY <2>2, <3>1 DEF TypeOK, engine, data
  <2>3. CASE SetInput(i, v) /\ ret' = "ok" /\ UNCHANGED <<engine, cells, outputs, stack>>
    BY <2>3, SetInputType DEF TypeOK, engine, Codes
  <2>. QED
    BY <1>4, <2>1, <2>2, <2>3 DEF BindInput, EvalBindInput, Codes
<1>5. ASSUME NEW o \in Outputs, NEW t \in Type, BindOutput(o, t) PROVE TypeOK'
  <2>1. CASE \E code \in Codes : Answer(code)
    BY <2>1, AnswerType
  <2>2. CASE /\ outputs' = outputs \cup {o} /\ ret' = "ok"
             /\ UNCHANGED <<engine, cells, inputs, stack>>
    BY <2>2 DEF TypeOK, engine, Codes
  <2>. QED
    BY <1>5, <2>1, <2>2 DEF BindOutput, EvalBindOutput, Codes
<1>6. ASSUME NEW code \in {"INPUT_UNKNOWN", "OUTPUT_UNKNOWN"}, BindUnknown(code)
      PROVE  TypeOK'
  BY <1>6, AnswerType DEF BindUnknown, Codes
<1>7. CASE InitCall
  <2>1. CASE \E code \in Codes : Answer(code)
    BY <2>1, AnswerType
  <2>2. CASE /\ Push(Tick("Init", 1)) /\ currFn' = "Init" /\ inTick' = TRUE
             /\ UNCHANGED <<stage, data, ret>>
    <3>1. 1 \in 1..BodyAt /\ BodyAt \in 1..BodyAt
      BY BodyAtType
    <3>2. Tick("Init", 1) \in Frame /\ Tick("Run", BodyAt) \in Frame
      BY <3>1, TickType DEF TickFns
    <3>3. stack' \in Seq(Frame)
      BY <2>2, <3>2, PushStack DEF TypeOK
    <3>. QED
      BY <2>2, <3>3 DEF TypeOK, data, TickFns
  <2>3. CASE UNCHANGED <<inTick, data, stack>> /\ EvalInit
    BY <2>3 DEF EvalInit, InitReturns, TypeOK, data, TickFns, Codes
  <2>. QED
    BY <1>7, <2>1, <2>2, <2>3 DEF InitCall, EvalInit, Codes
<1>8. CASE RunCall
  <2>1. CASE \E code \in Codes : Answer(code)
    BY <2>1, AnswerType
  <2>2. CASE /\ Push(Tick("Run", BodyAt)) /\ currFn' = "Run" /\ inTick' = TRUE
             /\ UNCHANGED <<stage, data, ret>>
    <3>1. 1 \in 1..BodyAt /\ BodyAt \in 1..BodyAt
      BY BodyAtType
    <3>2. Tick("Init", 1) \in Frame /\ Tick("Run", BodyAt) \in Frame
      BY <3>1, TickType DEF TickFns
    <3>3. stack' \in Seq(Frame)
      BY <2>2, <3>2, PushStack DEF TypeOK
    <3>. QED
      BY <2>2, <3>3 DEF TypeOK, data, TickFns
  <2>3. CASE /\ currFn' = "Run" /\ ret' = "INPUT_MISSING"
             /\ UNCHANGED <<stage, inTick, data, stack>>
    BY <2>3 DEF TypeOK, data, TickFns, Codes
  <2>. QED
    BY <1>8, <2>1, <2>2, <2>3 DEF RunCall, EvalRun, Codes
<1>9. CASE CoercionPanics
  <2>1. stack' \in Seq(Frame)
    BY <1>9, PopStack DEF TypeOK, CoercionPanics
  <2>. QED
    BY <1>9, <2>1 DEF TypeOK, CoercionPanics, engine, data, Codes
<1>10. ASSUME NEW v \in Val, CoercionReturns(v) PROVE TypeOK'
  <2>1. stack' \in Seq(Frame)
    BY <1>10, PopStack DEF TypeOK, CoercionReturns
  <2>2. /\ cells' \in [Slots -> Val \cup {Nothing}]
        /\ inputs' \in [Inputs -> Val \cup {Nothing}]
    BY <1>10, SetCellType, SetInputType DEF CoercionReturns, TypeOK
  <2>. QED
    BY <1>10, <2>1, <2>2 DEF TypeOK, CoercionReturns, engine, Codes
<1>11. CASE CallbackReturns
  <2>1. [Top EXCEPT !.calling = "none"] \in Frame
    BY <1>11, TopType DEF TypeOK, CallbackReturns, InCallback, Frame
  <2>. QED
    BY <1>11, <2>1, SetTopType DEF CallbackReturns, InCallback, data, TypeOK
<1>12. CASE CallbackFails \/ CallbackPanics
  BY <1>12, TickEndsType DEF CallbackFails, CallbackPanics, InCallback, Codes
<1>13. CASE SkipDecl \/ StoreConst
  <2>1. [Top EXCEPT !.at = @ + 1, !.eval = FALSE] \in Frame
    BY <1>13, TopType, NextDeclType DEF TypeOK, SkipDecl, StoreConst, Loading, ScriptTurn
  <2>. QED
    BY <1>13, <2>1, SetTopType
    DEF SkipDecl, StoreConst, Loading, ScriptTurn, NextDecl, data, TypeOK
<1>14. CASE EnterDecl
  <2>1. [Top EXCEPT !.eval = TRUE] \in Frame
    BY <1>14, TopType DEF TypeOK, EnterDecl, Loading, ScriptTurn, Frame
  <2>. QED
    BY <1>14, <2>1, SetTopType DEF EnterDecl, Loading, ScriptTurn, data, TypeOK
<1>15. ASSUME NEW v \in Val, StoreInitializer(v) PROVE TypeOK'
  <2>1. [Top EXCEPT !.at = @ + 1, !.eval = FALSE] \in Frame
    BY <1>15, TopType, NextDeclType DEF TypeOK, StoreInitializer, Loading, ScriptTurn
  <2>. QED
    BY <1>15, <2>1, SetTopType, SetCellType
    DEF StoreInitializer, Loading, ScriptTurn, NextDecl
<1>16. ASSUME NEW callee \in {"rule", "coerce"}, CallHost(callee) PROVE TypeOK'
  <2>1. [Spend(Top) EXCEPT !.calling = callee] \in Frame
    BY <1>16, TopType, SpendType, CallingType DEF TypeOK, CallHost, Evaluating, ScriptTurn
  <2>. QED
    BY <1>16, <2>1, SetTopType DEF CallHost, Evaluating, ScriptTurn, data, TypeOK
<1>17. ASSUME NEW s \in Slots, ReadEmptySlot(s) PROVE TypeOK'
  BY <1>17, TickEndsType DEF ReadEmptySlot, Evaluating, ScriptTurn, Codes
<1>18. ASSUME NEW s \in Slots, NEW v \in Val, AssignSlot(s, v) PROVE TypeOK'
  <2>1. Spend(Top) \in Frame
    BY <1>18, TopType, SpendType DEF TypeOK, AssignSlot, InBody, ScriptTurn
  <2>. QED
    BY <1>18, <2>1, SetTopType, SetCellType DEF AssignSlot, InBody, ScriptTurn
<1>19. ASSUME NEW o \in Outputs, Emit(o) PROVE TypeOK'
  <2>1. [Spend(Top) EXCEPT !.calling = "emit"] \in Frame
    BY <1>19, TopType, SpendType, CallingType DEF TypeOK, Emit, InBody, ScriptTurn
  <2>2. CASE o \in outputs
    BY <1>19, <2>1, <2>2, SetTopType DEF Emit, InBody, ScriptTurn, data, TypeOK
  <2>3. CASE o \notin outputs
    BY <1>19, <2>3, TickEndsType DEF Emit, InBody, ScriptTurn, Codes
  <2>. QED
    BY <2>2, <2>3
<1>20. CASE BodyEnds
  BY <1>20, TickEndsType DEF BodyEnds, InBody, ScriptTurn, Codes
<1>. QED
  BY <1>1, <1>2, <1>3, <1>4, <1>5, <1>6, <1>7, <1>8, <1>9, <1>10, <1>11, <1>12,
     <1>13, <1>14, <1>15, <1>16, <1>17, <1>18, <1>19, <1>20
  DEF Next, HostCall, CoercionEnds, CallbackEnds, ScriptStep

\* Type correctness: the shape of the executable's state, of its stack of
\* suspended activations and of the answers it gives, at every step.
THEOREM Typing == Spec => []TypeOK
<1>1. Init => TypeOK
  BY EmptySeq DEF Init, TypeOK, Codes
<1>2. QED
  BY <1>1, TypeStep, PTL DEF Spec

-----------------------------------------------------------------------------
(* The inductive invariant *)

(***************************************************************************)
(* That the engine is not re-entered follows only together with what may   *)
(* be suspended above what: a tick that ends must leave no other tick      *)
(* below it, and the write of a coercion that ends must not happen under   *)
(* one.  That a ready program is complete needs in turn that an Init which *)
(* is running has found its outputs bound.                                 *)
(***************************************************************************)
IInv == TypeOK /\ SingleActivation /\ StackDiscipline /\ ReadyIsComplete

\* A step that leaves the stack and the flags alone.
LEMMA QuietStep ==
    ASSUME IInv, UNCHANGED <<inTick, currFn, stack>>,
           outputs \subseteq outputs', outputs' \subseteq Outputs,
           stage' = stage \/ (stage = "created" /\ stage' = "failed")
    PROVE  SingleActivation' /\ StackDiscipline'
BY DEF IInv, SingleActivation, StackDiscipline, Slots, Inputs, BodyAt

\* A step that replaces the innermost activation by one of the same function.
LEMMA SetTopKeeps ==
    ASSUME IInv, stack # << >>, NEW f \in Frame, SetTop(f),
           UNCHANGED <<stage, inTick, currFn, outputs>>,
           f.fn = Top.fn, Top.fn \in TickFns,
           Top.fn = "Run" => f.at = Top.at
    PROVE  SingleActivation' /\ StackDiscipline'
<1>1. /\ Len(stack') = Len(stack)
      /\ stack' \in Seq(Frame) /\ stack \in Seq(Frame)
      /\ \A k \in DOMAIN stack : k # Len(stack) => stack'[k] = stack[k]
      /\ stack'[Len(stack)] = f
  BY SetTopStack DEF IInv, TypeOK
<1>2. DOMAIN stack' = DOMAIN stack /\ DOMAIN stack = 1..Len(stack)
  BY <1>1
<1>3. \A k \in DOMAIN stack : stack'[k].fn = stack[k].fn
  BY <1>1 DEF Top
<1>4. SingleActivation'
  BY <1>2, <1>3 DEF IInv, SingleActivation
<1>5. \A k \in DOMAIN stack : stack[k].fn \in {"Set", "Bind"} => stack'[k] = stack[k]
  BY <1>1, <1>2 DEF Top, TickFns
<1>6. \A k \in DOMAIN stack : stack[k].fn = "Run" => stack'[k].at = stack[k].at
  BY <1>1, <1>2 DEF Top
<1>7. \A k \in DOMAIN stack : k < Len(stack) => stack'[k] = stack[k]
  BY <1>1, <1>2
<1>8. StackDiscipline'
  BY <1>1, <1>2, <1>3, <1>5, <1>6, <1>7
  DEF IInv, StackDiscipline, Slots, Inputs, BodyAt
<1>. QED
  BY <1>4, <1>8

\* Host code suspends a coercion.
LEMMA PushCoercionKeeps ==
    ASSUME IInv, HostTurn, NEW fn \in {"Set", "Bind"}, NEW d \in 1..BodyAt,
           Push(Coercion(fn, d)), UNCHANGED <<stage, inTick, currFn, outputs>>,
           fn = "Set"  => ~inTick /\ d \in Slots,
           fn = "Bind" => stage = "created" /\ d \in Inputs
    PROVE  SingleActivation' /\ StackDiscipline'
<1>. DEFINE f == Coercion(fn, d)
<1>1. f.fn = fn /\ f.at = d /\ f.calling = "coerce" /\ f \in Frame
  BY CoercionType DEF Coercion
<1>. HIDE DEF f
<1>2. /\ Len(stack') = Len(stack) + 1
      /\ stack' \in Seq(Frame) /\ stack \in Seq(Frame)
      /\ \A k \in DOMAIN stack : stack'[k] = stack[k]
      /\ stack'[Len(stack) + 1] = f
  BY <1>1, PushStack DEF IInv, TypeOK, f
<1>3. SingleActivation'
  BY <1>1, <1>2 DEF IInv, SingleActivation, TickFns
<1>4. StackDiscipline'
  BY <1>1, <1>2 DEF IInv, SingleActivation, StackDiscipline, HostTurn, Top, Slots, Inputs, BodyAt, TickFns
<1>. QED
  BY <1>3, <1>4

\* A tick begins: nothing below it is a tick.
LEMMA PushTickKeeps ==
    ASSUME IInv, HostTurn, NEW fn \in TickFns, NEW at \in 1..BodyAt,
           Push(Tick(fn, at)), ~inTick, inTick', currFn' = fn,
           UNCHANGED <<stage, outputs>>,
           fn = "Init" => stage = "created" /\ outputs = Outputs,
           fn = "Run"  => stage = "initialized" /\ at = BodyAt
    PROVE  SingleActivation' /\ StackDiscipline'
<1>. DEFINE f == Tick(fn, at)
<1>1. f.fn = fn /\ f.at = at /\ f.calling = "none" /\ f \in Frame
  BY TickType DEF Tick
<1>. HIDE DEF f
<1>2. /\ Len(stack') = Len(stack) + 1
      /\ stack' \in Seq(Frame) /\ stack \in Seq(Frame)
      /\ \A k \in DOMAIN stack : stack'[k] = stack[k]
      /\ stack'[Len(stack) + 1] = f
  BY <1>1, PushStack DEF IInv, TypeOK, f
<1>3. SingleActivation'
  BY <1>1, <1>2 DEF IInv, SingleActivation, TickFns
<1>4. StackDiscipline'
  BY <1>1, <1>2 DEF IInv, SingleActivation, StackDiscipline, HostTurn, Top, Slots, Inputs, BodyAt, TickFns
<1>. QED
  BY <1>3, <1>4

\* The innermost activation, a coercion, ends.
LEMMA PopCoercionKeeps ==
    ASSUME IInv, stack # << >>, Top.fn \notin TickFns, Pop,
           UNCHANGED <<stage, inTick, currFn, outputs>>
    PROVE  SingleActivation' /\ StackDiscipline'
<1>1. /\ Len(stack') = Len(stack) - 1
      /\ stack' \in Seq(Frame) /\ stack \in Seq(Frame)
      /\ \A k \in DOMAIN stack' : k \in DOMAIN stack /\ stack'[k] = stack[k]
  BY PopStack DEF IInv, TypeOK
<1>2. \A k \in DOMAIN stack : k \in DOMAIN stack' \/ k = Len(stack)
  BY <1>1
<1>3. SingleActivation'
  BY <1>1, <1>2 DEF IInv, SingleActivation, Top
<1>4. StackDiscipline'
  BY <1>1 DEF IInv, StackDiscipline, Slots, Inputs, BodyAt
<1>. QED
  BY <1>3, <1>4

\* The innermost activation, the tick, ends: only coercions are left.
LEMMA PopTickKeeps ==
    ASSUME IInv, stack # << >>, Top.fn \in TickFns, Pop, ~inTick',
           UNCHANGED <<currFn, outputs>>
    PROVE  SingleActivation' /\ StackDiscipline'
<1>1. /\ Len(stack') = Len(stack) - 1
      /\ stack' \in Seq(Frame) /\ stack \in Seq(Frame)
      /\ \A k \in DOMAIN stack' : k \in DOMAIN stack /\ stack'[k] = stack[k]
  BY PopStack DEF IInv, TypeOK
<1>2. \A k \in DOMAIN stack' : stack'[k].fn \notin TickFns
  BY <1>1 DEF IInv, SingleActivation, Top
<1>3. SingleActivation'
  BY <1>2 DEF SingleActivation
<1>4. StackDiscipline'
  BY <1>1, <1>2 DEF IInv, StackDiscipline, Slots, Inputs, BodyAt, TickFns
<1>. QED
  BY <1>3, <1>4

\* A program becomes ready only complete, and no write empties a slot again.
LEMMA ReadyKeeps ==
    ASSUME IInv,
           stage' = "initialized"
              => stage = "initialized" \/ (AllFilled /\ outputs = Outputs),
           outputs \subseteq outputs', outputs' \subseteq Outputs,
           UNCHANGED cells \/ \E s, v : v \in Val /\ SetCell(s, v)
    PROVE  ReadyIsComplete'
<1>1. \A s \in Slots : Filled(s) => cells'[s] # Nothing
  BY ValAssumption DEF SetCell, Filled, IInv, TypeOK
<1>2. stage' = "initialized" => AllFilled /\ outputs = Outputs
  BY DEF IInv, ReadyIsComplete, AllFilled
<1>. QED
  BY <1>1, <1>2 DEF ReadyIsComplete, AllFilled, Filled, Slots, Outputs

LEMMA AnswerKeeps ==
    ASSUME IInv, NEW code, Answer(code)
    PROVE  SingleActivation' /\ StackDiscipline' /\ ReadyIsComplete'
<1>1. UNCHANGED <<stage, inTick, currFn, cells, inputs, outputs, stack>>
  BY DEF Answer, data
<1>2. outputs \subseteq Outputs
  BY DEF IInv, TypeOK
<1>. QED
  BY <1>1, <1>2, QuietStep, ReadyKeeps

LEMMA TickEndsKeeps ==
    ASSUME IInv, stack # << >>, Top.fn \in TickFns, NEW code, TickEnds(code),
           code = "ok" /\ Top.fn = "Init" => AllFilled
    PROVE  SingleActivation' /\ StackDiscipline' /\ ReadyIsComplete'
<1>1. SingleActivation' /\ StackDiscipline'
  BY PopTickKeeps DEF TickEnds, data
<1>2. Top.fn = "Init" => outputs = Outputs
  BY TopType DEF IInv, TypeOK, StackDiscipline, Top
<1>3. stage' = "initialized"
         => stage = "initialized" \/ (AllFilled /\ outputs = Outputs)
  BY <1>2 DEF TickEnds, InitReturns
<1>. QED
  BY <1>1, <1>3, ReadyKeeps DEF TickEnds, data, IInv, TypeOK

\* The innermost activation computes: a tick, since a coercion waits for its rule.
LEMMA ScriptRunsTicks ==
    ASSUME IInv, ScriptTurn
    PROVE  stack # << >> /\ Top.fn \in TickFns
<1>1. Len(stack) \in DOMAIN stack /\ Top \in Frame
  BY TopType DEF IInv, TypeOK, ScriptTurn
<1>. QED
  BY <1>1 DEF IInv, StackDiscipline, ScriptTurn, Top, Frame, TickFns

\* A step of the script inside its activation.
LEMMA ScriptKeeps ==
    ASSUME IInv, ScriptTurn, NEW f \in Frame, SetTop(f),
           f.fn = Top.fn, Top.fn = "Run" => f.at = Top.at,
           UNCHANGED <<engine, inputs, outputs, ret>>,
           UNCHANGED cells \/ \E s, v : v \in Val /\ SetCell(s, v)
    PROVE  SingleActivation' /\ StackDiscipline' /\ ReadyIsComplete'
<1>1. UNCHANGED <<stage, inTick, currFn, outputs>> /\ outputs \subseteq Outputs
  BY DEF engine, IInv, TypeOK
<1>2. SingleActivation' /\ StackDiscipline'
  BY <1>1, ScriptRunsTicks, SetTopKeeps
<1>. QED
  BY <1>1, <1>2, ReadyKeeps

LEMMA IInvStep == IInv /\ [Next]_vars => IInv'
<1>. SUFFICES ASSUME IInv, [Next]_vars
              PROVE  SingleActivation' /\ StackDiscipline' /\ ReadyIsComplete'
  BY TypeStep DEF IInv
<1>. DEFINE Kept == SingleActivation' /\ StackDiscipline' /\ ReadyIsComplete'
<1>. USE DEF engine, data
<1>t. TypeOK /\ outputs \subseteq Outputs
  BY DEF IInv, TypeOK
<1>1. CASE UNCHANGED vars
  BY <1>1, <1>t, QuietStep, ReadyKeeps DEF vars
<1>2. ASSUME NEW s \in Slots, SlotGet(s) PROVE Kept
  BY <1>2, AnswerKeeps DEF SlotGet
<1>3. ASSUME NEW s \in Slots, NEW v \in Val, Set(s, v) PROVE Kept
  <2>1. CASE \E code : Answer(code)
    BY <2>1, AnswerKeeps
  <2>2. CASE /\ HostTurn /\ ~inTick /\ Push(Coercion("Set", s))
             /\ UNCHANGED <<engine, data, ret>>
    <3>1. s \in 1..BodyAt
      BY DeclPlace DEF Slots
    <3>. QED
      BY <2>2, <3>1, <1>t, PushCoercionKeeps, ReadyKeeps
  <2>3. CASE SetCell(s, v) /\ UNCHANGED <<engine, inputs, outputs, stack>>
    BY <2>3, <1>t, QuietStep, ReadyKeeps
  <2>. QED
    BY <1>3, <2>1, <2>2, <2>3 DEF Set, SlotSet, SetReentered
<1>4. ASSUME NEW i \in Inputs, NEW v \in Val, BindInput(i, v) PROVE Kept
  <2>1. CASE \E code : Answer(code)
    BY <2>1, AnswerKeeps
  <2>2. CASE /\ HostTurn /\ stage = "created" /\ Push(Coercion("Bind", i))
             /\ UNCHANGED <<engine, data, ret>>
    <3>1. i \in 1..BodyAt
      BY DeclPlace DEF Inputs
    <3>. QED
      BY <2>2, <3>1, <1>t, PushCoercionKeeps, ReadyKeeps
  <2>3. CASE UNCHANGED <<engine, cells, outputs, stack>>
    BY <2>3, <1>t, QuietStep, ReadyKeeps
  <2>. QED
    BY <1>4, <2>1, <2>2, <2>3 DEF BindInput, EvalBindInput, BindClosed
<1>5. ASSUME NEW o \in Outputs, NEW t \in Type, BindOutput(o, t) PROVE Kept
  <2>1. CASE \E code : Answer(code)
    BY <2>1, AnswerKeeps
  <2>2. CASE outputs' = outputs \cup {o} /\ UNCHANGED <<engine, cells, inputs, stack>>
    BY <2>2, <1>t, QuietStep, ReadyKeeps
  <2>. QED
    BY <1>5, <2>1, <2>2 DEF BindOutput, EvalBindOutput
<1>6. ASSUME NEW code, BindUnknown(code) PROVE Kept
  BY <1>6, AnswerKeeps DEF BindUnknown
<1>7. CASE InitCall
  <2>1. CASE \E code : Answer(code)
    BY <2>1, AnswerKeeps
  <2>2. CASE /\ HostTurn /\ stage = "created" /\ ~inTick /\ outputs = Outputs
             /\ currFn' = "Init" /\ inTick' = TRUE /\ Push(Tick("Init", 1))
             /\ UNCHANGED <<stage, data, ret>>
    <3>1. 1 \in 1..BodyAt
      BY BodyAtType
    <3>. QED
      BY <2>2, <3>1, <1>t, PushTickKeeps, ReadyKeeps DEF TickFns
  <2>3. CASE /\ stage = "created" /\ stage' = "failed" /\ inTick
             /\ UNCHANGED <<inTick, currFn, data, stack>>
    BY <2>3, <1>t, QuietStep, ReadyKeeps
  <2>4. CASE /\ stage = "created" /\ stage' = "failed" /\ ~inTick /\ currFn' = "Init"
             /\ UNCHANGED <<inTick, data, stack>>
    <3>1. ReadyIsComplete'
      BY <2>4, <1>t, ReadyKeeps
    <3>2. SingleActivation'
      BY <2>4 DEF IInv, SingleActivation
    <3>3. StackDiscipline'
      BY <2>4 DEF IInv, SingleActivation, StackDiscipline, Slots, Inputs, BodyAt, TickFns
    <3>. QED
      BY <3>1, <3>2, <3>3
  <2>. QED
    BY <1>7, <2>1, <2>2, <2>3, <2>4
    DEF InitCall, EvalInit, InitReentered, OutputsBound, InitReturns
<1>8. CASE RunCall
  <2>1. CASE \E code : Answer(code)
    BY <2>1, AnswerKeeps
  <2>2. CASE /\ HostTurn /\ stage = "initialized" /\ ~inTick
             /\ currFn' = "Run" /\ inTick' = TRUE /\ Push(Tick("Run", BodyAt))
             /\ UNCHANGED <<stage, data, ret>>
    <3>1. BodyAt \in 1..BodyAt
      BY BodyAtType
    <3>. QED
      BY <2>2, <3>1, <1>t, PushTickKeeps, ReadyKeeps DEF TickFns
  <2>3. CASE ~inTick /\ UNCHANGED <<stage, inTick, data, stack>>
    <3>1. ReadyIsComplete'
      BY <2>3, <1>t, ReadyKeeps
    <3>2. SingleActivation'
      BY <2>3 DEF IInv, SingleActivation
    <3>3. StackDiscipline'
      BY <2>3 DEF IInv, StackDiscipline, Slots, Inputs, BodyAt
    <3>. QED
      BY <3>1, <3>2, <3>3
  <2>. QED
    BY <1>8, <2>1, <2>2, <2>3 DEF RunCall, EvalRun, RunReentered
<1>9. CASE CoercionPanics
  BY <1>9, <1>t, PopCoercionKeeps, ReadyKeeps DEF CoercionPanics
<1>10. ASSUME NEW v \in Val, CoercionReturns(v) PROVE Kept
  BY <1>10, <1>t, PopCoercionKeeps, ReadyKeeps DEF CoercionReturns
<1>11. CASE CallbackReturns
  <2>1. Top \in Frame
    BY <1>11, TopType DEF TypeOK, CallbackReturns, InCallback, IInv
  <2>2. [Top EXCEPT !.calling = "none"] \in Frame
    BY <2>1, CallingType
  <2>3. /\ [Top EXCEPT !.calling = "none"].fn = Top.fn
        /\ [Top EXCEPT !.calling = "none"].at = Top.at
    BY <2>1 DEF Frame
  <2>. QED
    BY <1>11, <1>t, <2>2, <2>3, SetTopKeeps, ReadyKeeps DEF CallbackReturns, InCallback
<1>12. CASE CallbackFails \/ CallbackPanics
  BY <1>12, TickEndsKeeps DEF CallbackFails, CallbackPanics, InCallback
<1>13. ASSUME NEW f, SetTop(f), ScriptTurn, UNCHANGED <<engine, inputs, outputs, ret>>,
              UNCHANGED cells \/ \E s, v : v \in Val /\ SetCell(s, v),
              \/ f = [Top EXCEPT !.eval = TRUE]
              \/ f = [Top EXCEPT !.at = @ + 1, !.eval = FALSE]
                    /\ Top.fn = "Init" /\ Top.at < BodyAt
              \/ f = Spend(Top) /\ Top.fuel > 0
              \/ \E callee \in {"rule", "coerce", "emit"} :
                    f = [Spend(Top) EXCEPT !.calling = callee] /\ Top.fuel > 0
       PROVE  Kept
  <2>1. Top \in Frame
    BY <1>13, <1>t, TopType DEF TypeOK, ScriptTurn
  <2>2. f.fn = Top.fn /\ (Top.fn = "Run" => f.at = Top.at)
    BY <1>13, <2>1 DEF Frame, Spend
  <2>3. f \in Frame
    <3>1. CASE f = [Top EXCEPT !.eval = TRUE]
      BY <3>1, <2>1 DEF Frame
    <3>2. CASE f = [Top EXCEPT !.at = @ + 1, !.eval = FALSE] /\ Top.at < BodyAt
      BY <3>2, <2>1, NextDeclType
    <3>3. CASE Top.fuel > 0 /\ f = Spend(Top)
      BY <3>3, <2>1, SpendType
    <3>4. CASE Top.fuel > 0 /\ \E callee \in {"rule", "coerce", "emit"} :
                  f = [Spend(Top) EXCEPT !.calling = callee]
      <4>1. PICK callee \in {"rule", "coerce", "emit"} :
                   f = [Spend(Top) EXCEPT !.calling = callee]
        BY <3>4
      <4>2. Spend(Top) \in Frame
        BY <3>4, <2>1, SpendType
      <4>. QED
        BY <4>1, <4>2, CallingType
    <3>. QED
      BY <1>13, <3>1, <3>2, <3>3, <3>4
  <2>. QED
    BY <1>13, <2>2, <2>3, ScriptKeeps
<1>14. CASE SkipDecl \/ StoreConst \/ EnterDecl
  BY <1>14, <1>13 DEF SkipDecl, StoreConst, EnterDecl, Loading, NextDecl
<1>15. ASSUME NEW v \in Val, StoreInitializer(v) PROVE Kept
  BY <1>15, <1>13 DEF StoreInitializer, Loading, NextDecl
<1>16. ASSUME NEW callee \in {"rule", "coerce"}, CallHost(callee) PROVE Kept
  BY <1>16, <1>13 DEF CallHost, Evaluating
<1>17. ASSUME NEW s \in Slots, ReadEmptySlot(s) PROVE Kept
  BY <1>17, ScriptRunsTicks, TickEndsKeeps DEF ReadEmptySlot, Evaluating
<1>18. ASSUME NEW s \in Slots, NEW v \in Val, AssignSlot(s, v) PROVE Kept
  BY <1>18, <1>13 DEF AssignSlot, InBody
<1>19. ASSUME NEW o \in Outputs, Emit(o) PROVE Kept
  <2>1. CASE o \in outputs
    BY <1>19, <2>1, <1>13 DEF Emit, InBody
  <2>2. CASE o \notin outputs
    BY <1>19, <2>2, ScriptRunsTicks, TickEndsKeeps DEF Emit, InBody
  <2>. QED
    BY <2>1, <2>2
<1>20. CASE BodyEnds
  BY <1>20, ScriptRunsTicks, TickEndsKeeps DEF BodyEnds, InBody
<1>. QED
  BY <1>1, <1>2, <1>3, <1>4, <1>5, <1>6, <1>7, <1>8, <1>9, <1>10, <1>11, <1>12,
     <1>14, <1>15, <1>16, <1>17, <1>18, <1>19, <1>20
  DEF Next, HostCall, CoercionEnds, CallbackEnds, ScriptStep

\* The inductive invariant holds in every reachable state.
THEOREM Inductive == Spec => []IInv
<1>1. Init => IInv
  <2>1. Init => TypeOK
    BY EmptySeq DEF Init, TypeOK, Codes
  <2>2. Init => DOMAIN stack = {} /\ inTick = FALSE /\ stage = "created"
    <3>1. DOMAIN << >> = {}
      <4>1. << >> \in Seq({0}) /\ Len(<< >>) = 0
        BY EmptySeq
      <4>2. DOMAIN << >> = 1..Len(<< >>)
        BY <4>1
      <4>. QED
        BY <4>1, <4>2
    <3>. QED
      BY <3>1 DEF Init
  <2>3. Init => SingleActivation
    BY <2>2 DEF SingleActivation
  <2>4. Init => StackDiscipline
    BY <2>2 DEF StackDiscipline
  <2>5. Init => ReadyIsComplete
    BY <2>2 DEF ReadyIsComplete
  <2>. QED
    BY <2>1, <2>3, <2>4, <2>5 DEF IInv
<1>2. QED
  BY <1>1, IInvStep, PTL DEF Spec

\* Whatever host code does in the middle of a tick, no second tick begins:
\* for every script, any values and any depth of the call stack.
THEOREM ActivationsDoNotNest == Spec => []SingleActivation
BY Inductive, PTL DEF IInv

\* No write is ever pending above a Run, and above an Init only writes of inputs
\* are.
THEOREM PendingWritesAreOrdered == Spec => []StackDiscipline
BY Inductive, PTL DEF IInv

\* A program that may run has no empty slot and no output without a sink.
THEOREM RunnableIsComplete == Spec => []ReadyIsComplete
BY Inductive, PTL DEF IInv

-----------------------------------------------------------------------------
(* The store *)

\* Every step leaves slots and inputs alone or stores one value of the
\* declared type.
LEMMA StoreStep ==
    ASSUME IInv, [Next]_vars
    PROVE  /\ \/ UNCHANGED cells
              \/ \E s, v : v \in Val /\ Fits(v, s) /\ SetCell(s, v)
           /\ \/ UNCHANGED inputs
              \/ \E i, v : v \in Val /\ Fits(v, i) /\ SetInput(i, v)
<1>. USE DEF data, engine
<1>1. CASE UNCHANGED vars
  BY <1>1 DEF vars
<1>2. CASE \E code : Answer(code)
  BY <1>2 DEF Answer
<1>3. CASE HostCall
  BY <1>2, <1>3
  DEF HostCall, SlotGet, Set, SlotSet, BindInput, EvalBindInput, BindOutput,
      EvalBindOutput, BindUnknown, InitCall, EvalInit, RunCall, EvalRun
<1>4. CASE CoercionEnds
  BY <1>4 DEF CoercionEnds, CoercionReturns, CoercionPanics
<1>5. CASE CallbackEnds
  BY <1>5 DEF CallbackEnds, CallbackReturns, CallbackFails, CallbackPanics, TickEnds
<1>6. CASE ScriptStep
  BY <1>6
  DEF ScriptStep, SkipDecl, EnterDecl, StoreConst, StoreInitializer, CallHost,
      ReadEmptySlot, AssignSlot, Emit, BodyEnds, TickEnds
<1>. QED
  BY <1>1, <1>3, <1>4, <1>5, <1>6 DEF Next

\* Slots and inputs hold values of their declared types only.
THEOREM StoreTyping == Spec => []StoreWellTyped
<1>1. Init => StoreWellTyped
  BY DEF Init, StoreWellTyped, Filled
<1>2. IInv /\ StoreWellTyped /\ [Next]_vars => StoreWellTyped'
  <2>. SUFFICES ASSUME IInv, StoreWellTyped, [Next]_vars
                PROVE  StoreWellTyped'
    OBVIOUS
  <2>1. ASSUME NEW s \in Slots, cells'[s] # Nothing
        PROVE  TypeOf[cells'[s]] = Decls[s].type
    BY <2>1, StoreStep DEF IInv, TypeOK, SetCell, StoreWellTyped, Filled, Fits
  <2>2. ASSUME NEW i \in Inputs, inputs'[i] # Nothing
        PROVE  TypeOf[inputs'[i]] = Decls[i].type
    BY <2>2, StoreStep DEF IInv, TypeOK, SetInput, StoreWellTyped, Fits
  <2>. QED
    BY <2>1, <2>2 DEF StoreWellTyped, Filled, Fits, Slots, Inputs
<1>. QED
  BY <1>1, <1>2, Inductive, PTL DEF Spec

-----------------------------------------------------------------------------
(* What a step may never do *)

\* In host code that a tick called: a tick is below it, and a coercion that waits
\* on top of it is one of BindInput, called in the course of an Init.
LEMMA UnderTick ==
    ASSUME IInv, NEW j \in DOMAIN stack, stack[j].fn \in TickFns
    PROVE  /\ inTick
           /\ stack # << >>
           /\ Top.fn \notin TickFns => stack[j].fn = "Init" /\ Top.fn = "Bind"
           /\ Top.fn \in TickFns => j = Len(stack)
<1>0. stack \in Seq(Frame)
  BY DEF IInv, TypeOK
<1>1. j \in 1..Len(stack)
  BY <1>0
<1>2. Len(stack) \in DOMAIN stack /\ stack # << >>
  BY <1>0, <1>1
<1>3. inTick
  BY DEF IInv, SingleActivation
<1>4. CASE j = Len(stack)
  BY <1>2, <1>3, <1>4 DEF Top
<1>5. CASE j < Len(stack)
  <2>1. stack[j].fn = "Init" /\ Top.fn = "Bind"
    BY <1>2, <1>5 DEF IInv, StackDiscipline, Top
  <2>. QED
    BY <1>2, <1>3, <2>1 DEF TickFns
<1>. QED
  BY <1>1, <1>4, <1>5

\* Which steps write cells and inputs.
LEMMA Writers ==
    ASSUME IInv, [Next]_vars
    PROVE  /\ \/ UNCHANGED cells
              \/ HostTurn /\ ~inTick
              \/ HostTurn /\ stack # << >> /\ Top.fn = "Set"
              \/ \E v \in Val : StoreInitializer(v)
              \/ \E s \in Slots, v \in Val : AssignSlot(s, v)
           /\ \/ UNCHANGED inputs
              \/ stage = "created"
              \/ HostTurn /\ stack # << >> /\ Top.fn = "Bind"
<1>. USE DEF data, engine
<1>1. CASE UNCHANGED vars
  BY <1>1 DEF vars
<1>2. CASE \E code : Answer(code)
  BY <1>2 DEF Answer
<1>3. CASE HostCall
  BY <1>2, <1>3
  DEF HostCall, SlotGet, Set, SlotSet, SetReentered, BindInput, EvalBindInput,
      BindClosed, BindOutput, EvalBindOutput, BindUnknown, InitCall, EvalInit,
      RunCall, EvalRun
<1>4. CASE CoercionEnds
  BY <1>4 DEF CoercionEnds, CoercionReturns, CoercionPanics
<1>5. CASE CallbackEnds
  BY <1>5 DEF CallbackEnds, CallbackReturns, CallbackFails, CallbackPanics, TickEnds
<1>6. CASE ScriptStep
  BY <1>6
  DEF ScriptStep, SkipDecl, EnterDecl, StoreConst, StoreInitializer, CallHost,
      ReadEmptySlot, AssignSlot, Emit, BodyEnds, TickEnds
<1>. QED
  BY <1>1, <1>3, <1>4, <1>5, <1>6 DEF Next

\* No cell is written from host code while a tick is under way.
LEMMA TickWrites ==
    ASSUME IInv, [Next]_vars, inTick
    PROVE  \/ UNCHANGED cells
           \/ \E v \in Val : StoreInitializer(v)
           \/ \E s \in Slots, v \in Val : AssignSlot(s, v)
<1>1. PICK j \in DOMAIN stack : stack[j].fn \in TickFns
  BY DEF IInv, SingleActivation
<1>2. Top.fn # "Set"
  BY <1>1, UnderTick DEF TickFns
<1>. QED
  BY <1>2, Writers

\* During a tick the script alone writes slots.
THEOREM HostNeverWritesUnderTick == Spec => ScriptOwnsSlots
<1>1. ASSUME IInv, [Next]_vars
      PROVE  inTick /\ cells' # cells => ScriptTurn
  BY <1>1, TickWrites DEF StoreInitializer, AssignSlot, Loading, InBody
<1>2. IInv /\ [Next]_vars
        => [inTick /\ cells' # cells => ScriptTurn]_vars
  BY <1>1
<1>. QED
  BY <1>2, Inductive, PTL DEF Spec, ScriptOwnsSlots

\* The inputs a Run reads do not change under it.
THEOREM RunSeesOneInput == Spec => InputsFrozenInRun
<1>1. ASSUME IInv, [Next]_vars, Ticking("Run")
      PROVE  UNCHANGED inputs
  <2>1. PICK j \in DOMAIN stack : stack[j].fn = "Run"
    BY <1>1 DEF Ticking
  <2>2. stage = "initialized"
    BY <1>1, <2>1 DEF IInv, StackDiscipline
  <2>3. Top.fn # "Bind"
    BY <1>1, <2>1, UnderTick DEF TickFns
  <2>. QED
    BY <1>1, <2>2, <2>3, Writers
<1>2. IInv /\ [Next]_vars => [Ticking("Run") => UNCHANGED inputs]_vars
  BY <1>1
<1>. QED
  BY <1>2, Inductive, PTL DEF Spec, InputsFrozenInRun

\* A step of the script that pops the stack ends its tick.
LEMMA ScriptPops ==
    ASSUME IInv, [Next]_vars, ScriptTurn, Len(stack') < Len(stack)
    PROVE  \/ \E s \in Slots : ReadEmptySlot(s)
           \/ \E o \in Outputs : o \notin outputs
           \/ BodyEnds
<1>1. stack \in Seq(Frame) /\ stack # << >> /\ ~HostTurn
  BY DEF IInv, TypeOK, ScriptTurn, HostTurn
<1>2. ASSUME NEW f, SetTop(f) PROVE Len(stack') = Len(stack)
  BY <1>1, <1>2 DEF SetTop
<1>3. Len(stack) \in Nat
  BY <1>1
<1>4. stack' # stack
  BY <1>3
<1>5. CASE UNCHANGED vars
  BY <1>4, <1>5 DEF vars
<1>6. ~HostCall /\ ~CoercionEnds /\ ~CallbackEnds
  BY <1>1
  DEF HostCall, SlotGet, Set, BindInput, BindOutput, BindUnknown, InitCall, RunCall,
      CoercionEnds, CoercionReturns, CoercionPanics, CallbackEnds, CallbackReturns,
      CallbackFails, CallbackPanics, InCallback
<1>7. ~ \E f : SetTop(f)
  BY <1>2, <1>3
<1>8. CASE ScriptStep
  BY <1>7, <1>8
  DEF ScriptStep, SkipDecl, EnterDecl, StoreConst, StoreInitializer, NextDecl,
      CallHost, AssignSlot, Emit
<1>. QED
  BY <1>5, <1>6, <1>8 DEF Next

\* The engine itself never fails a Run.
THEOREM EngineNeverFailsRun == Spec => RunFailsInHostCodeOnly
<1>1. ASSUME IInv, [Next]_vars, ScriptTurn, Top.fn = "Run", Len(stack') < Len(stack)
      PROVE  ret' = "ok"
  <2>1. Len(stack) \in DOMAIN stack
    BY <1>1, TopType DEF IInv, TypeOK, ScriptTurn
  <2>2. stage = "initialized"
    BY <1>1, <2>1 DEF IInv, StackDiscipline, Top
  <2>3. (\A s \in Slots : Filled(s)) /\ outputs = Outputs
    BY <1>1, <2>2 DEF IInv, ReadyIsComplete
  <2>4. BodyEnds
    BY <1>1, <2>3, ScriptPops DEF ReadEmptySlot
  <2>. QED
    BY <1>1, <2>4 DEF BodyEnds, TickEnds
<1>2. IInv /\ [Next]_vars
        => [ScriptTurn /\ Top.fn = "Run" /\ Len(stack') < Len(stack) => ret' = "ok"]_vars
  BY <1>1
<1>. QED
  BY <1>2, Inductive, PTL DEF Spec, RunFailsInHostCodeOnly

-----------------------------------------------------------------------------
(* The load phase *)

\* What HostFillWins needs besides: only an Init evaluates initializers, and the
\* slot whose initializer it evaluates is still empty, for as long as that takes.
Initializing ==
    \A k \in DOMAIN stack :
        stack[k].eval => /\ stack[k].fn = "Init"
                         /\ stack[k].at \in Slots => ~Filled(stack[k].at)

\* How a step may change an activation.
LEMMA FramesStep ==
    ASSUME IInv, [Next]_vars
    PROVE  \A k \in DOMAIN stack' :
              \/ ~stack'[k].eval
              \/ /\ k \in DOMAIN stack
                 /\ stack'[k].fn = stack[k].fn
                 /\ stack'[k].at = stack[k].at
                 /\ stack[k].eval \/ (k = Len(stack) /\ EnterDecl)
<1>. DEFINE Goal == \A k \in DOMAIN stack' :
                       \/ ~stack'[k].eval
                       \/ /\ k \in DOMAIN stack
                          /\ stack'[k].fn = stack[k].fn
                          /\ stack'[k].at = stack[k].at
                          /\ stack[k].eval \/ (k = Len(stack) /\ EnterDecl)
<1>0. stack \in Seq(Frame)
  BY DEF IInv, TypeOK
<1>1. CASE UNCHANGED stack
  BY <1>1
<1>2. CASE stack # << >> /\ Pop
  BY <1>0, <1>2, PopStack
<1>3. ASSUME NEW f \in Frame, ~f.eval, Push(f) PROVE Goal
  <2>1. /\ DOMAIN stack' = 1..(Len(stack) + 1) /\ DOMAIN stack = 1..Len(stack)
        /\ Len(stack) \in Nat
        /\ \A k \in DOMAIN stack : stack'[k] = stack[k]
        /\ stack'[Len(stack) + 1] = f
    BY <1>0, <1>3, PushStack
  <2>2. \A k \in DOMAIN stack' : k \in DOMAIN stack \/ k = Len(stack) + 1
    BY <2>1
  <2>. QED
    BY <1>3, <2>1, <2>2
<1>4. ASSUME stack # << >>, NEW f \in Frame, SetTop(f),
             ~f.eval \/ (f.fn = Top.fn /\ f.at = Top.at /\ (Top.eval \/ EnterDecl))
      PROVE  Goal
  <2>1. /\ DOMAIN stack' = DOMAIN stack
        /\ \A k \in DOMAIN stack : k # Len(stack) => stack'[k] = stack[k]
        /\ stack'[Len(stack)] = f
    BY <1>0, <1>4, SetTopStack
  <2>. QED
    BY <1>4, <2>1 DEF Top
<1>5. CASE HostCall
  <2>1. ASSUME NEW fn \in {"Set", "Bind"}, NEW d \in 1..BodyAt, Push(Coercion(fn, d))
        PROVE  Goal
    BY <1>3, <2>1, CoercionType DEF Coercion
  <2>2. ASSUME NEW fn \in TickFns, NEW d \in 1..BodyAt, Push(Tick(fn, d))
        PROVE  Goal
    BY <1>3, <2>2, TickType DEF Tick
  <2>3. \A d \in Slots \cup Inputs : d \in 1..BodyAt
    BY DeclPlace DEF Slots, Inputs
  <2>4. 1 \in 1..BodyAt /\ BodyAt \in 1..BodyAt
    BY BodyAtType
  <2>5. CASE \E code : Answer(code)
    BY <1>1, <2>5 DEF Answer
  <2>. QED
    BY <1>1, <1>5, <2>1, <2>2, <2>3, <2>4, <2>5
    DEF HostCall, SlotGet, Set, SlotSet, BindInput, EvalBindInput, BindOutput,
        EvalBindOutput, BindUnknown, InitCall, EvalInit, RunCall, EvalRun, TickFns
<1>6. CASE CoercionEnds
  BY <1>2, <1>6 DEF CoercionEnds, CoercionReturns, CoercionPanics
<1>7. ASSUME NEW callee \in {"none", "rule", "coerce", "emit"}, stack # << >>,
             \/ SetTop([Top EXCEPT !.calling = callee])
             \/ Top.fuel > 0 /\ SetTop([Spend(Top) EXCEPT !.calling = callee])
             \/ Top.fuel > 0 /\ SetTop(Spend(Top))
      PROVE  Goal
  <2>1. Top \in Frame
    BY <1>0, <1>7, TopType
  <2>2. CASE SetTop([Top EXCEPT !.calling = callee])
    <3>. DEFINE f == [Top EXCEPT !.calling = callee]
    <3>1. f \in Frame /\ f.fn = Top.fn /\ f.at = Top.at /\ f.eval = Top.eval
      BY <2>1 DEF Frame
    <3>. QED
      BY <1>4, <1>7, <2>1, <2>2, <3>1 DEF Frame
  <2>3. CASE Top.fuel > 0 /\ SetTop([Spend(Top) EXCEPT !.calling = callee])
    <3>. DEFINE f == [Spend(Top) EXCEPT !.calling = callee]
    <3>1. f \in Frame
      BY <2>1, <2>3, SpendType, CallingType
    <3>2. f.fn = Top.fn /\ f.at = Top.at /\ f.eval = Top.eval
      BY <2>1 DEF Spend, Frame
    <3>. QED
      BY <1>4, <1>7, <2>1, <2>3, <3>1, <3>2 DEF Frame
  <2>4. CASE Top.fuel > 0 /\ SetTop(Spend(Top))
    <3>1. Spend(Top) \in Frame
      BY <2>1, <2>4, SpendType
    <3>2. /\ Spend(Top).fn = Top.fn /\ Spend(Top).at = Top.at
          /\ Spend(Top).eval = Top.eval
      BY <2>1 DEF Spend, Frame
    <3>. QED
      BY <1>4, <1>7, <2>1, <2>4, <3>1, <3>2 DEF Frame
  <2>. QED
    BY <1>7, <2>2, <2>3, <2>4
<1>8. CASE CallbackEnds
  <2>1. CASE CallbackReturns
    BY <1>7, <2>1 DEF CallbackReturns, InCallback
  <2>2. CASE CallbackFails \/ CallbackPanics
    BY <1>2, <2>2 DEF CallbackFails, CallbackPanics, InCallback, TickEnds
  <2>. QED
    BY <1>8, <2>1, <2>2 DEF CallbackEnds
<1>9. CASE ScriptStep
  <2>1. ASSUME stack # << >>, Top.at < BodyAt, NextDecl PROVE Goal
    <3>. DEFINE f == [Top EXCEPT !.at = @ + 1, !.eval = FALSE]
    <3>1. Top \in Frame
      BY <1>0, <2>1, TopType
    <3>2. f \in Frame /\ ~f.eval
      BY <2>1, <3>1, NextDeclType DEF Frame
    <3>. QED
      BY <1>4, <2>1, <3>2 DEF NextDecl
  <2>2. CASE EnterDecl
    <3>. DEFINE f == [Top EXCEPT !.eval = TRUE]
    <3>1. stack # << >> /\ SetTop(f)
      BY <2>2 DEF EnterDecl, Loading, ScriptTurn
    <3>2. f \in Frame /\ f.fn = Top.fn /\ f.at = Top.at
      BY <1>0, <3>1, TopType DEF Frame
    <3>. QED
      BY <1>4, <2>2, <3>1, <3>2
  <2>3. CASE SkipDecl \/ StoreConst \/ \E v \in Val : StoreInitializer(v)
    BY <2>1, <2>3
    DEF SkipDecl, StoreConst, StoreInitializer, Loading, ScriptTurn
  <2>4. CASE \/ \E callee \in {"rule", "coerce"} : CallHost(callee)
             \/ \E s \in Slots, v \in Val : AssignSlot(s, v)
             \/ \E o \in Outputs : Emit(o)
    BY <1>2, <1>7, <2>4
    DEF CallHost, AssignSlot, Emit, Evaluating, InBody, ScriptTurn, TickEnds
  <2>5. CASE BodyEnds \/ \E s \in Slots : ReadEmptySlot(s)
    BY <1>2, <2>5 DEF BodyEnds, ReadEmptySlot, Evaluating, InBody, ScriptTurn, TickEnds
  <2>. QED
    BY <1>9, <2>2, <2>3, <2>4, <2>5 DEF ScriptStep
<1>10. CASE UNCHANGED vars
  BY <1>1, <1>10 DEF vars
<1>. QED
  BY <1>5, <1>6, <1>8, <1>9, <1>10 DEF Next

LEMMA InitializingStep ==
    ASSUME IInv, Initializing, [Next]_vars
    PROVE  Initializing'
<1>. SUFFICES ASSUME NEW k \in DOMAIN stack', stack'[k].eval
              PROVE  /\ stack'[k].fn = "Init"
                     /\ stack'[k].at \in Slots => cells'[stack'[k].at] = Nothing
  BY DEF Initializing, Filled, Slots
<1>0. stack \in Seq(Frame)
  BY DEF IInv, TypeOK
<1>1. /\ k \in DOMAIN stack
      /\ stack'[k].fn = stack[k].fn
      /\ stack'[k].at = stack[k].at
      /\ stack[k].eval \/ (k = Len(stack) /\ EnterDecl)
  BY FramesStep
<1>2. stack[k].fn = "Init" /\ (stack[k].at \in Slots => cells[stack[k].at] = Nothing)
  <2>1. CASE stack[k].eval
    BY <1>1, <2>1 DEF Initializing, Filled
  <2>2. CASE k = Len(stack) /\ EnterDecl
    BY <2>2 DEF EnterDecl, Loading, Top, Skips, Filled, Slots, DeclsOf
  <2>. QED
    BY <1>1, <2>1, <2>2
<1>3. stack[k].at \in Slots => cells'[stack[k].at] = Nothing
  <2>1. inTick /\ stack # << >> /\ (Top.fn \in TickFns => k = Len(stack))
    BY <1>1, <1>2, UnderTick DEF TickFns
  <2>2. CASE \E v \in Val : StoreInitializer(v)
    <3>1. ScriptTurn /\ NextDecl /\ Top \in Frame
      BY <1>0, <2>1, <2>2, TopType DEF StoreInitializer, Loading
    <3>2. k = Len(stack)
      BY <2>1, <3>1, ScriptRunsTicks
    <3>3. [Top EXCEPT !.at = @ + 1, !.eval = FALSE].eval = FALSE
      BY <3>1 DEF Frame
    <3>4. stack'[k] = [Top EXCEPT !.at = @ + 1, !.eval = FALSE]
      BY <1>0, <1>1, <3>1, <3>2 DEF NextDecl, SetTop
    <3>. QED
      BY <3>3, <3>4
  <2>3. CASE \E s \in Slots, v \in Val : AssignSlot(s, v)
    <3>1. ScriptTurn /\ Top.at = BodyAt
      BY <2>3 DEF AssignSlot, InBody
    <3>2. stack[k].at = BodyAt
      BY <2>1, <3>1, ScriptRunsTicks DEF Top
    <3>. QED
      BY <3>2, DeclPlace, BodyAtType DEF Slots
  <2>. QED
    BY <1>2, <2>1, <2>2, <2>3, TickWrites
<1>. QED
  BY <1>1, <1>2, <1>3

\* The cell an initializer is evaluated for is empty until it is stored.
THEOREM InitializersFindEmptySlots == Spec => []Initializing
<1>1. Init => Initializing
  <2>1. << >> \in Seq({0}) /\ Len(<< >>) = 0
    BY EmptySeq
  <2>2. DOMAIN << >> = 1..Len(<< >>)
    BY <2>1
  <2>3. DOMAIN << >> = {}
    BY <2>1, <2>2
  <2>. QED
    BY <2>3 DEF Init, Initializing
<1>2. IInv /\ Initializing /\ [Next]_vars => Initializing'
  BY InitializingStep
<1>. QED
  BY <1>1, <1>2, Inductive, PTL DEF Spec

\* No step of the load phase, and nothing host code does meanwhile, overwrites a
\* cell that is filled.
THEOREM LoadKeepsFills == Spec => HostFillWins
<1>1. ASSUME IInv, Initializing, [Next]_vars, LoadPhase, NEW s \in Slots, Filled(s)
      PROVE  cells'[s] = cells[s]
  <2>1. PICK k \in DOMAIN stack : stack[k].fn = "Init" /\ stack[k].at < BodyAt
    BY <1>1 DEF LoadPhase
  <2>2. inTick /\ stack # << >> /\ (Top.fn \in TickFns => k = Len(stack))
    BY <1>1, <2>1, UnderTick DEF TickFns
  <2>3. CASE \E v \in Val : StoreInitializer(v)
    <3>1. PICK v \in Val : StoreInitializer(v)
      BY <2>3
    <3>2. ScriptTurn /\ Top.eval /\ SetCell(Top.at, v)
      BY <3>1 DEF StoreInitializer, Loading
    <3>3. Top = stack[k]
      BY <1>1, <2>2, <3>2, ScriptRunsTicks DEF Top
    <3>4. Top.at # s
      BY <1>1, <3>2, <3>3 DEF Initializing
    <3>. QED
      BY <1>1, <3>2, <3>4 DEF SetCell, IInv, TypeOK
  <2>4. CASE \E r \in Slots, v \in Val : AssignSlot(r, v)
    <3>1. ScriptTurn /\ Top.at = BodyAt
      BY <2>4 DEF AssignSlot, InBody
    <3>2. Top = stack[k]
      BY <1>1, <2>2, <3>1, ScriptRunsTicks DEF Top
    <3>. QED
      BY <2>1, <3>1, <3>2, BodyAtType
  <2>. QED
    BY <1>1, <2>2, <2>3, <2>4, TickWrites
<1>2. IInv /\ Initializing /\ [Next]_vars
        => [LoadPhase => \A s \in Slots : Filled(s) => cells'[s] = cells[s]]_vars
  BY <1>1
<1>. QED
  BY <1>2, Inductive, InitializersFindEmptySlots, PTL DEF Spec, HostFillWins

=============================================================================
