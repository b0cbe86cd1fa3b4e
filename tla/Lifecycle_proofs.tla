-------------------------- MODULE Lifecycle_proofs --------------------------
(***************************************************************************)
(* The engine implements the lifecycle of Lifecycle.tla: every step of the *)
(* engine is a step of the lifecycle or changes nothing it speaks of, under*)
(* the phase read off the call stack.                                      *)
(***************************************************************************)
EXTENDS Engine_proofs

-----------------------------------------------------------------------------
(* The phase *)

\* What the lifecycle sees.
seen == <<Phase, cells, inputs>>

LEMMA PhaseBetweenTicks == IInv => (~inTick => Phase = stage)
BY DEF IInv, SingleActivation, Phase, Ticking, LoadPhase, TickFns

LEMMA PhaseInTick ==
    IInv => \A j \in DOMAIN stack : stack[j].fn \in TickFns =>
                Phase = IF stack[j].fn = "Run" THEN "running"
                        ELSE IF stack[j].at < BodyAt THEN "loading" ELSE "seeding"
BY DEF IInv, SingleActivation, Phase, Ticking, LoadPhase, TickFns

LEMMA StagePhase ==
    IInv => /\ Phase \in {"running", "loading", "seeding"} <=> inTick
            /\ Phase = "running" => stage = "initialized"
            /\ stage = "initialized" /\ inTick => Phase = "running"
BY DEF IInv, TypeOK, SingleActivation, StackDiscipline, Phase, Ticking, LoadPhase, TickFns

\* The phase depends on the stage only between ticks.
LEMMA PhaseKept ==
    ASSUME IInv, UNCHANGED <<inTick, stack>>, UNCHANGED stage \/ inTick
    PROVE  UNCHANGED Phase
BY DEF IInv, SingleActivation, Phase, Ticking, LoadPhase, TickFns, BodyAt

LEMMA PhaseAfterPush ==
    ASSUME IInv, NEW f \in Frame, f.fn \notin TickFns, Push(f), UNCHANGED stage
    PROVE  UNCHANGED Phase
<1>0. stack \in Seq(Frame)
  BY DEF IInv, TypeOK
<1>1. /\ DOMAIN stack' = 1..(Len(stack) + 1) /\ DOMAIN stack = 1..Len(stack)
      /\ Len(stack) \in Nat
      /\ \A k \in DOMAIN stack : stack'[k] = stack[k]
      /\ stack'[Len(stack) + 1] = f
  BY <1>0, PushStack
<1>2. \A k \in DOMAIN stack' :
         stack'[k].fn \in TickFns => k \in DOMAIN stack /\ stack'[k] = stack[k]
  BY <1>1
<1>3. \A k \in DOMAIN stack : k \in DOMAIN stack' /\ stack'[k] = stack[k]
  BY <1>1
<1>. QED
  BY <1>2, <1>3 DEF Phase, Ticking, LoadPhase, TickFns, BodyAt

LEMMA PhaseAfterPop ==
    ASSUME IInv, stack # << >>, Top.fn \notin TickFns, Pop, UNCHANGED stage
    PROVE  UNCHANGED Phase
<1>1. /\ stack' \in Seq(Frame) /\ stack \in Seq(Frame)
      /\ Len(stack') = Len(stack) - 1
      /\ \A k \in DOMAIN stack' : k \in DOMAIN stack /\ stack'[k] = stack[k]
  BY PopStack DEF IInv, TypeOK
<1>2. \A k \in DOMAIN stack : k = Len(stack) \/ k \in DOMAIN stack'
  BY <1>1
<1>3. \A k \in DOMAIN stack :
         stack[k].fn \in TickFns => k \in DOMAIN stack' /\ stack'[k] = stack[k]
  BY <1>1, <1>2 DEF Top
<1>. QED
  BY <1>1, <1>3 DEF Phase, Ticking, LoadPhase, TickFns, BodyAt

\* Where the tick is, when it has control or is in host code of its own.
LEMMA PhaseOfTop ==
    ASSUME IInv, stack # << >>, Top.fn \in TickFns
    PROVE  /\ inTick
           /\ Phase = IF Top.fn = "Run" THEN "running"
                      ELSE IF Top.at < BodyAt THEN "loading" ELSE "seeding"
           /\ Top.fn = "Run" => stage = "initialized"
<1>1. Len(stack) \in DOMAIN stack /\ Top = stack[Len(stack)]
  BY TopType DEF IInv, TypeOK, Top
<1>. QED
  BY <1>1, PhaseInTick, UnderTick DEF IInv, StackDiscipline

LEMMA PhaseAfterSetTop ==
    ASSUME IInv, IInv', stack # << >>, NEW f \in Frame, SetTop(f), f.fn \in TickFns
    PROVE  Phase' = IF f.fn = "Run" THEN "running"
                    ELSE IF f.at < BodyAt THEN "loading" ELSE "seeding"
<1>1. stack \in Seq(Frame) /\ Len(stack) \in DOMAIN stack
  BY TopType DEF IInv, TypeOK
<1>2. Len(stack) \in DOMAIN stack' /\ stack'[Len(stack)] = f
  BY <1>1, SetTopStack
<1>3. \A j \in DOMAIN stack' : stack'[j].fn \in TickFns =>
                Phase' = IF stack'[j].fn = "Run" THEN "running"
                         ELSE IF stack'[j].at < BodyAt THEN "loading" ELSE "seeding"
  <2>1. (IInv => \A j \in DOMAIN stack : stack[j].fn \in TickFns =>
                Phase = IF stack[j].fn = "Run" THEN "running"
                        ELSE IF stack[j].at < BodyAt THEN "loading" ELSE "seeding")'
    BY PhaseInTick, PTL
  <2>. QED
    BY <2>1 DEF BodyAt
<1>. QED
  BY <1>2, <1>3

LEMMA PhaseAfterTick ==
    ASSUME IInv', ~inTick'
    PROVE  Phase' = stage'
<1>1. (IInv => (~inTick => Phase = stage))'
  BY PhaseBetweenTicks, PTL
<1>. QED
  BY <1>1

LEMMA PhaseAfterCall ==
    ASSUME IInv, IInv', NEW fn \in TickFns, NEW at \in 1..BodyAt, Push(Tick(fn, at))
    PROVE  Phase' = IF fn = "Run" THEN "running"
                    ELSE IF at < BodyAt THEN "loading" ELSE "seeding"
<1>1. stack \in Seq(Frame) /\ Tick(fn, at) \in Frame
  BY TickType DEF IInv, TypeOK
<1>2. /\ stack' \in Seq(Frame) /\ Len(stack') = Len(stack) + 1 /\ Len(stack) \in Nat
      /\ stack'[Len(stack) + 1] = Tick(fn, at)
  BY <1>1, PushStack
<1>3. Len(stack) + 1 \in DOMAIN stack'
  BY <1>2
<1>4. (IInv => \A j \in DOMAIN stack : stack[j].fn \in TickFns =>
                Phase = IF stack[j].fn = "Run" THEN "running"
                        ELSE IF stack[j].at < BodyAt THEN "loading" ELSE "seeding")'
  BY PhaseInTick, PTL
<1>5. Tick(fn, at).fn = fn /\ Tick(fn, at).at = at
  BY DEF Tick
<1>. QED
  BY <1>2, <1>3, <1>4, <1>5 DEF BodyAt

-----------------------------------------------------------------------------
(* Every step of the engine is one of the lifecycle *)

Keeps == UNCHANGED seen
Simulates == Promise!Next \/ Keeps

\* A tick that ends, with nothing missing if it is an Init that succeeds.
LEMMA TickEndsSimulates ==
    ASSUME IInv, IInv', stack # << >>, Top.fn \in TickFns, NEW code, TickEnds(code),
           Top.fn = "Init" /\ code = "ok" => AllFilled /\ Top.at = BodyAt
    PROVE  Simulates
<1>1. UNCHANGED <<cells, inputs>> /\ ~inTick'
  BY DEF TickEnds, data
<1>2. Phase' = stage'
  BY <1>1, PhaseAfterTick
<1>3. CASE Top.fn = "Run"
  <2>1. Phase = "running" /\ stage' = "initialized"
    BY <1>3, PhaseOfTop DEF TickEnds
  <2>. QED
    BY <1>1, <1>2, <2>1 DEF Simulates, Promise!Next, Promise!EndRun
<1>4. CASE Top.fn = "Init"
  <2>1. Phase \in {"loading", "seeding"} /\ (Top.at = BodyAt => Phase = "seeding")
    BY <1>4, PhaseOfTop, BodyAtType
  <2>2. CASE code = "ok"
    <3>1. Phase = "seeding" /\ stage' = "initialized" /\ \A s \in Slots : cells[s] # Nothing
      BY <1>4, <2>1, <2>2 DEF TickEnds, InitReturns, AllFilled, Filled
    <3>. QED
      BY <1>1, <1>2, <3>1 DEF Simulates, Promise!Next, Promise!InitSucceeds
  <2>3. CASE code # "ok"
    <3>1. stage' = "failed"
      BY <1>4, <2>3 DEF TickEnds, InitReturns
    <3>. QED
      BY <1>1, <1>2, <2>1, <3>1 DEF Simulates, Promise!Next, Promise!InitFails
  <2>. QED
    BY <2>2, <2>3
<1>. QED
  BY <1>3, <1>4 DEF TickFns

\* The innermost activation moves within its tick and stores nothing.
LEMMA QuietTopSimulates ==
    ASSUME IInv, IInv', stack # << >>, Top.fn \in TickFns, NEW f \in Frame, SetTop(f),
           f.fn = Top.fn, f.at = Top.at, UNCHANGED <<cells, inputs>>
    PROVE  Simulates
BY PhaseOfTop, PhaseAfterSetTop DEF Simulates, Keeps, seen

LEMMA AnswerSimulates ==
    ASSUME IInv, NEW code, Answer(code)
    PROVE  Simulates
BY PhaseKept DEF Answer, data, Simulates, Keeps, seen

\* The load phase goes on to the next declaration, or to the body.
LEMMA NextDeclPhase ==
    ASSUME IInv, IInv', Loading, NextDecl
    PROVE  Phase = "loading" /\ Phase' \in {"loading", "seeding"}
<1>1. stack # << >> /\ Top.fn = "Init" /\ Top.at < BodyAt
  BY DEF Loading, ScriptTurn
<1>2. Top \in Frame
  BY <1>1, TopType DEF IInv, TypeOK
<1>. DEFINE f == [Top EXCEPT !.at = @ + 1, !.eval = FALSE]
<1>3. f \in Frame
  BY <1>1, <1>2, NextDeclType
<1>4. f.fn = "Init"
  BY <1>1, <1>2 DEF Frame
<1>5. SetTop(f)
  BY DEF NextDecl
<1>. HIDE DEF f
<1>6. Phase' = IF f.fn = "Run" THEN "running"
               ELSE IF f.at < BodyAt THEN "loading" ELSE "seeding"
  BY <1>1, <1>3, <1>4, <1>5, PhaseAfterSetTop DEF TickFns
<1>. QED
  BY <1>1, <1>4, <1>6, PhaseOfTop DEF TickFns

LEMMA ScriptSimulates ==
    ASSUME IInv, IInv', Initializing, ScriptStep
    PROVE  Simulates
<1>. USE DEF data, engine
<1>1. CASE SkipDecl \/ StoreConst
  <2>1. Phase = "loading" /\ Phase' \in {"loading", "seeding"}
    BY <1>1, NextDeclPhase DEF SkipDecl, StoreConst
  <2>2. UNCHANGED <<cells, inputs>>
    BY <1>1 DEF SkipDecl, StoreConst
  <2>. QED
    BY <2>1, <2>2 DEF Simulates, Keeps, seen, Promise!Next, Promise!EndLoad
<1>2. CASE EnterDecl
  <2>. DEFINE f == [Top EXCEPT !.eval = TRUE]
  <2>1. /\ stack # << >> /\ Top.fn \in TickFns /\ SetTop(f)
        /\ UNCHANGED <<cells, inputs>>
    BY <1>2 DEF EnterDecl, Loading, ScriptTurn, TickFns
  <2>2. f \in Frame /\ f.fn = Top.fn /\ f.at = Top.at
    BY <2>1, TopType DEF IInv, TypeOK, Frame
  <2>. QED
    BY <2>1, <2>2, QuietTopSimulates
<1>3. ASSUME NEW v \in Val, StoreInitializer(v) PROVE Simulates
  <2>1. /\ Phase = "loading" /\ Phase' \in {"loading", "seeding"}
        /\ Top.eval /\ stack # << >> /\ SetCell(Top.at, v) /\ UNCHANGED inputs
    BY <1>3, NextDeclPhase DEF StoreInitializer, Loading, ScriptTurn
  <2>2. Len(stack) \in DOMAIN stack /\ Top \in Frame
    BY <2>1, TopType DEF IInv, TypeOK
  <2>3. Top.at \in Slots
    <3>1. Top.at < BodyAt /\ Decls[Top.at].kind = "slot"
      BY <1>3 DEF StoreInitializer, Loading
    <3>2. Top.at \in 1..BodyAt
      BY <2>2 DEF Frame
    <3>3. Top.at \in DOMAIN Decls
      BY <3>1, <3>2, DeclsAssumption DEF BodyAt
    <3>. QED
      BY <3>1, <3>3 DEF Slots, DeclsOf
  <2>4. cells[Top.at] = Nothing
    BY <2>1, <2>2, <2>3 DEF Initializing, Filled, Top
  <2>5. Promise!Initialize(Top.at, v)
    BY <2>1, <2>4 DEF Promise!Initialize, Promise!Write, SetCell
  <2>. QED
    BY <2>3, <2>5 DEF Simulates, Promise!Next
<1>4. ASSUME NEW callee \in {"rule", "coerce", "emit"}, Top.fuel > 0, ScriptTurn,
             SetTop([Spend(Top) EXCEPT !.calling = callee]), UNCHANGED <<cells, inputs>>
      PROVE  Simulates
  <2>1. stack # << >> /\ Top.fn \in TickFns /\ Top \in Frame
    BY <1>4, ScriptRunsTicks, TopType DEF IInv, TypeOK
  <2>. DEFINE f == [Spend(Top) EXCEPT !.calling = callee]
  <2>2. f \in Frame
    BY <1>4, <2>1, SpendType, CallingType
  <2>3. f.fn = Top.fn /\ f.at = Top.at
    BY <2>1 DEF Spend, Frame
  <2>. QED
    BY <1>4, <2>1, <2>2, <2>3, QuietTopSimulates
<1>5. CASE \E callee \in {"rule", "coerce"} : CallHost(callee)
  BY <1>4, <1>5 DEF CallHost, Evaluating
<1>6. ASSUME NEW s \in Slots, NEW v \in Val, AssignSlot(s, v) PROVE Simulates
  <2>1. /\ ScriptTurn /\ Top.at = BodyAt /\ Top.fuel > 0 /\ SetTop(Spend(Top))
        /\ SetCell(s, v) /\ UNCHANGED inputs
    BY <1>6 DEF AssignSlot, InBody
  <2>2. stack # << >> /\ Top.fn \in TickFns /\ Top \in Frame
    BY <2>1, ScriptRunsTicks, TopType DEF IInv, TypeOK
  <2>3. Spend(Top) \in Frame
    BY <2>1, <2>2, SpendType
  <2>4. Spend(Top).fn = Top.fn /\ Spend(Top).at = Top.at
    BY <2>2 DEF Spend, Frame
  <2>5. UNCHANGED Phase
    BY <2>1, <2>2, <2>3, <2>4, PhaseOfTop, PhaseAfterSetTop
  <2>6. Phase \in {"running", "seeding"}
    BY <2>1, <2>2, PhaseOfTop, BodyAtType
  <2>7. Promise!Assign(s, v)
    BY <2>1, <2>5, <2>6 DEF Promise!Assign, Promise!Write, SetCell
  <2>. QED
    BY <2>7 DEF Simulates, Promise!Next
<1>7. ASSUME NEW s \in Slots, ReadEmptySlot(s) PROVE Simulates
  <2>1. ScriptTurn /\ TickEnds("UNINITIALIZED_SLOT")
    BY <1>7 DEF ReadEmptySlot, Evaluating
  <2>. QED
    BY <2>1, ScriptRunsTicks, TickEndsSimulates
<1>8. ASSUME NEW o \in Outputs, Emit(o) PROVE Simulates
  <2>1. CASE ScriptTurn /\ TickEnds("INTERNAL_FAILURE")
    BY <2>1, ScriptRunsTicks, TickEndsSimulates
  <2>. QED
    BY <1>4, <1>8, <2>1 DEF Emit, InBody
<1>9. CASE BodyEnds
  <2>1. ScriptTurn /\ Top.at = BodyAt
    BY <1>9 DEF BodyEnds, InBody
  <2>2. \/ TickEnds("UNINITIALIZED_SLOT")
        \/ TickEnds("ok") /\ (Top.fn = "Init" => AllFilled)
    BY <1>9 DEF BodyEnds
  <2>. QED
    BY <2>1, <2>2, ScriptRunsTicks, TickEndsSimulates
<1>. QED
  BY <1>1, <1>2, <1>3, <1>5, <1>6, <1>7, <1>8, <1>9 DEF ScriptStep

LEMMA HostCallSimulates ==
    ASSUME IInv, IInv', HostCall
    PROVE  Simulates
<1>. USE DEF data, engine
<1>1. ASSUME NEW s \in Slots, SlotGet(s) PROVE Simulates
  BY <1>1, AnswerSimulates DEF SlotGet
<1>2. ASSUME NEW s \in Slots, NEW v \in Val, Set(s, v) PROVE Simulates
  <2>1. CASE \E code : Answer(code)
    BY <2>1, AnswerSimulates
  <2>2. CASE Push(Coercion("Set", s)) /\ UNCHANGED <<engine, data, ret>>
    <3>1. Coercion("Set", s) \in Frame /\ Coercion("Set", s).fn \notin TickFns
      BY DeclPlace, CoercionType DEF Slots, Coercion, TickFns
    <3>. QED
      BY <2>2, <3>1, PhaseAfterPush DEF Simulates, Keeps, seen
  <2>3. CASE /\ stage # "failed" /\ ~inTick /\ SetCell(s, v)
             /\ UNCHANGED <<engine, inputs, outputs, stack>>
    <3>1. UNCHANGED Phase /\ Phase \in {"created", "initialized"}
      BY <2>3, PhaseKept, PhaseBetweenTicks DEF IInv, TypeOK
    <3>. QED
      BY <2>3, <3>1
      DEF Simulates, Promise!Next, Promise!HostFill, Promise!Write, SetCell
  <2>. QED
    BY <1>2, <2>1, <2>2, <2>3 DEF Set, SlotSet, SetReentered
<1>3. ASSUME NEW i \in Inputs, NEW v \in Val, BindInput(i, v) PROVE Simulates
  <2>1. CASE \E code : Answer(code)
    BY <2>1, AnswerSimulates
  <2>2. CASE Push(Coercion("Bind", i)) /\ UNCHANGED <<engine, data, ret>>
    <3>1. Coercion("Bind", i) \in Frame /\ Coercion("Bind", i).fn \notin TickFns
      BY DeclPlace, CoercionType DEF Inputs, Coercion, TickFns
    <3>. QED
      BY <2>2, <3>1, PhaseAfterPush DEF Simulates, Keeps, seen
  <2>3. CASE /\ stage = "created" /\ SetInput(i, v)
             /\ UNCHANGED <<engine, cells, outputs, stack>>
    <3>1. UNCHANGED Phase /\ Phase # "running"
      BY <2>3, PhaseKept, StagePhase
    <3>. QED
      BY <2>3, <3>1 DEF Simulates, Promise!Next, Promise!HostBind, SetInput
  <2>. QED
    BY <1>3, <2>1, <2>2, <2>3 DEF BindInput, EvalBindInput, BindClosed
<1>4. ASSUME NEW o \in Outputs, NEW t \in Type, BindOutput(o, t) PROVE Simulates
  <2>1. CASE \E code : Answer(code)
    BY <2>1, AnswerSimulates
  <2>2. CASE UNCHANGED <<engine, cells, inputs, stack>>
    BY <2>2, PhaseKept DEF Simulates, Keeps, seen
  <2>. QED
    BY <1>4, <2>1, <2>2 DEF BindOutput, EvalBindOutput
<1>5. ASSUME NEW code, BindUnknown(code) PROVE Simulates
  BY <1>5, AnswerSimulates DEF BindUnknown
<1>6. CASE InitCall
  <2>1. CASE \E code : Answer(code)
    BY <2>1, AnswerSimulates
  <2>2. CASE inTick /\ UNCHANGED <<inTick, currFn, data, stack>>
    BY <2>2, PhaseKept DEF Simulates, Keeps, seen
  <2>3. CASE stage = "created" /\ ~inTick /\ stage' = "failed" /\ UNCHANGED <<inTick, data>>
    BY <2>3, PhaseBetweenTicks, PhaseAfterTick
    DEF Simulates, Promise!Next, Promise!BeginInit
  <2>4. CASE stage = "created" /\ ~inTick /\ Push(Tick("Init", 1)) /\ UNCHANGED data
    <3>1. 1 \in 1..BodyAt
      BY BodyAtType
    <3>2. Phase = "created" /\ Phase' \in {"loading", "seeding"}
      BY <2>4, <3>1, PhaseBetweenTicks, PhaseAfterCall DEF TickFns
    <3>. QED
      BY <2>4, <3>2 DEF Simulates, Promise!Next, Promise!BeginInit
  <2>. QED
    BY <1>6, <2>1, <2>2, <2>3, <2>4
    DEF InitCall, EvalInit, InitReentered, InitReturns
<1>7. CASE RunCall
  <2>1. CASE \E code : Answer(code)
    BY <2>1, AnswerSimulates
  <2>2. CASE UNCHANGED <<stage, inTick, data, stack>>
    BY <2>2, PhaseKept DEF Simulates, Keeps, seen
  <2>3. CASE /\ stage = "initialized" /\ ~inTick /\ AllBound
             /\ Push(Tick("Run", BodyAt)) /\ UNCHANGED data
    <3>1. BodyAt \in 1..BodyAt
      BY BodyAtType
    <3>2. Phase = "initialized" /\ Phase' = "running"
      BY <2>3, <3>1, PhaseBetweenTicks, PhaseAfterCall DEF TickFns
    <3>. QED
      BY <2>3, <3>2 DEF AllBound, Simulates, Promise!Next, Promise!BeginRun
  <2>. QED
    BY <1>7, <2>1, <2>2, <2>3 DEF RunCall, EvalRun, RunReentered
<1>. QED
  BY <1>1, <1>2, <1>3, <1>4, <1>5, <1>6, <1>7 DEF HostCall

\* A pending write is completed in a phase in which the host may write.
LEMMA CoercionSimulates ==
    ASSUME IInv, CoercionEnds
    PROVE  Simulates
<1>. USE DEF data, engine
<1>1. stack # << >> /\ Top.fn \notin TickFns /\ Pop /\ UNCHANGED stage
  BY DEF CoercionEnds, CoercionReturns, CoercionPanics
<1>2. UNCHANGED Phase
  BY <1>1, PhaseAfterPop
<1>3. Len(stack) \in DOMAIN stack /\ Top = stack[Len(stack)]
  BY <1>1, TopType DEF IInv, TypeOK, Top
<1>4. CASE CoercionPanics
  BY <1>2, <1>4 DEF CoercionPanics, Simulates, Keeps, seen
<1>5. ASSUME NEW v \in Val, CoercionReturns(v) PROVE Simulates
  <2>1. inTick => Top.fn = "Bind" /\ stage # "initialized"
    <3>1. ASSUME inTick PROVE Top.fn = "Bind" /\ stage # "initialized"
      <4>1. PICK j \in DOMAIN stack : stack[j].fn \in TickFns
        BY <3>1 DEF IInv, SingleActivation
      <4>. QED
        BY <1>1, <4>1, UnderTick DEF IInv, StackDiscipline
    <3>. QED
      BY <3>1
  <2>2. Phase # "running"
    BY <2>1, StagePhase
  <2>3. CASE Top.fn = "Set" /\ SetCell(Top.at, v) /\ UNCHANGED inputs
    <3>1. Phase \in {"created", "initialized", "failed"}
      BY <2>1, <2>3, PhaseBetweenTicks DEF IInv, TypeOK
    <3>2. Top.at \in Slots
      BY <1>3, <2>3 DEF IInv, StackDiscipline
    <3>3. Promise!HostFill(Top.at, v)
      BY <1>2, <2>3, <3>1 DEF Promise!HostFill, Promise!Write, SetCell
    <3>. QED
      BY <3>2, <3>3 DEF Simulates, Promise!Next
  <2>4. CASE Top.fn = "Bind" /\ SetInput(Top.at, v) /\ UNCHANGED cells
    <3>1. Top.at \in Inputs
      BY <1>3, <2>4 DEF IInv, StackDiscipline
    <3>2. Promise!HostBind(Top.at, v)
      BY <1>2, <2>2, <2>4 DEF Promise!HostBind, SetInput
    <3>. QED
      BY <3>1, <3>2 DEF Simulates, Promise!Next
  <2>. QED
    BY <1>5, <2>3, <2>4 DEF CoercionReturns
<1>. QED
  BY <1>4, <1>5 DEF CoercionEnds

LEMMA CallbackSimulates ==
    ASSUME IInv, IInv', CallbackEnds
    PROVE  Simulates
<1>1. stack # << >> /\ Top.fn \in TickFns
  BY DEF CallbackEnds, CallbackReturns, CallbackFails, CallbackPanics, InCallback
<1>2. CASE CallbackReturns
  <2>1. Top \in Frame
    BY <1>1, TopType DEF IInv, TypeOK
  <2>. DEFINE f == [Top EXCEPT !.calling = "none"]
  <2>2. f \in Frame /\ f.fn = Top.fn /\ f.at = Top.at
    BY <2>1 DEF Frame
  <2>3. SetTop(f) /\ UNCHANGED <<cells, inputs>>
    BY <1>2 DEF CallbackReturns, data
  <2>. QED
    BY <1>1, <2>2, <2>3, QuietTopSimulates
<1>3. CASE CallbackFails \/ CallbackPanics
  BY <1>1, <1>3, TickEndsSimulates DEF CallbackFails, CallbackPanics
<1>. QED
  BY <1>2, <1>3 DEF CallbackEnds

\* The engine implements the lifecycle it promises, for every script, all values
\* and any depth to which host code calls back.
THEOREM EngineKeepsPromise == Spec => LifecycleSpec
<1>1. Init => Promise!Init
  <2>1. << >> \in Seq({0}) /\ Len(<< >>) = 0
    BY EmptySeq
  <2>2. DOMAIN << >> = 1..Len(<< >>)
    BY <2>1
  <2>3. DOMAIN << >> = {}
    BY <2>1, <2>2
  <2>4. Init => Phase = "created"
    BY <2>3 DEF Init, Phase, Ticking, LoadPhase
  <2>. QED
    BY <2>4 DEF Init, Promise!Init
<1>2. ASSUME IInv, IInv', Initializing, [Next]_vars
      PROVE  [Promise!Next]_(Promise!vars)
  <2>1. CASE UNCHANGED vars
    <3>1. UNCHANGED Phase
      BY <1>2, <2>1, PhaseKept DEF vars
    <3>. QED
      BY <2>1, <3>1 DEF vars, Promise!vars
  <2>2. CASE Next
    <3>1. Simulates
      BY <1>2, <2>2, HostCallSimulates, CoercionSimulates, CallbackSimulates,
         ScriptSimulates
      DEF Next
    <3>. QED
      BY <3>1 DEF Simulates, Keeps, seen, Promise!vars
  <2>. QED
    BY <1>2, <2>1, <2>2
<1>3. IInv /\ IInv' /\ Initializing /\ [Next]_vars => [Promise!Next]_(Promise!vars)
  BY <1>2
<1>. QED
  BY <1>1, <1>3, Inductive, InitializersFindEmptySlots, PTL
  DEF Spec, LifecycleSpec, Promise!Spec
=============================================================================
