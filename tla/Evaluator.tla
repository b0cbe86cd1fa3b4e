----------------------------- MODULE Evaluator ------------------------------
(***************************************************************************)
(* The evaluation of the expressions of a tick with the standard rules     *)
(* (evaluator/evaluator.go:377-531).  A script's expressions are any the   *)
(* resolver accepts: every step evaluates one more node whose rule exists  *)
(* for the static types of its operands.  The operands evaluated so far    *)
(* wait in pending, as they do in the activations of evalExpr.             *)
(***************************************************************************)
EXTENDS Stdlib

CONSTANTS MaxPending    \* bound: operands that wait at once

ASSUME PendingAssumption == MaxPending \in Nat

VARIABLES
    value,      \* what the last evalExpr returned; NoValue when the next begins
    type,       \* the static type the resolver gave that expression
    pending,    \* evaluated operands, and what they wait for
    outcome     \* "running", or why the tick was aborted

vars == <<value, type, pending, outcome>>

Types   == {"Integer", "Float", "Bool", "String", "Time", "Duration"}
NoValue == << >>

Init ==
    /\ value = NoValue
    /\ type = ""
    /\ pending = << >>
    /\ outcome = "running"

Running  == outcome = "running"
HasValue == Running /\ value # NoValue
Starts   == Running /\ value = NoValue
Waiting  == pending[Len(pending)]

\* for is "operands", or the operator a left operand did not decide.
Operand(v, t, for) == [value |-> v, type |-> t, for |-> for]

Returns(v, t, rest) ==
    /\ value' = v /\ type' = t /\ pending' = rest
    /\ UNCHANGED outcome

\* runtimeFailure, or the panic that internalFailure reports: nothing of the
\* tick is evaluated any more.
Aborts(why) ==
    /\ outcome' = why
    /\ value' = NoValue /\ type' = "" /\ pending' = << >>

Rest == SubSeq(pending, 1, Len(pending) - 1)

\* The operands a rule would take: the value at hand and what waits for it.
Args(n) == IF n = 2 THEN <<Waiting.value, value>> ELSE IF n = 1 THEN <<value>> ELSE << >>
ArgTypes(n) == IF n = 2 THEN <<Waiting.type, type>> ELSE IF n = 1 THEN <<type>> ELSE << >>

Takes(r) ==
    LET n == Len(r.operands) IN
    /\ IF n = 0 THEN Starts /\ pending = << >> ELSE HasValue
    /\ n = 2 => pending # << >> /\ Waiting.for = "operands"
    /\ ArgTypes(n) = r.operands

\* What may follow the operand that waits.
Fits(t) ==
    IF pending = << >> THEN TRUE
    ELSE IF Waiting.for # "operands" THEN t = "Bool"
    ELSE \E r \in Rules : r.operands = <<Waiting.type, t>>

-----------------------------------------------------------------------------

\* A literal, a name or a slot.
EvalLeaf(t, v) ==
    /\ Starts
    /\ Fits(t)
    /\ Returns(v, t, pending)

\* The next operand or argument is evaluated after this one.
EvalNext ==
    /\ HasValue /\ Len(pending) < MaxPending
    /\ value' = NoValue /\ type' = ""
    /\ pending' = Append(pending, Operand(value, type, "operands"))
    /\ UNCHANGED outcome

\* evalInfix, evalPrefix, evalMemberAccess, evalMethodCall and CoerceExpr: the
\* rule's function is called on what the operands have become.
EvalRule(r) ==
    /\ Takes(r)
    /\ \E result \in EvalFn(r, Args(Len(r.operands))) :
          IF result.is = "ok"
          THEN /\ TypeOf(result.value) = "String" => Len(result.value[2]) <= MaxString
               /\ Returns(result.value, r.result,
                          IF Len(r.operands) = 2 THEN Rest ELSE pending)
          ELSE Aborts(result.is)

\* The value of a left operand that decides.
Decides(op) == op = "||"

EvalLogicalLeft(op) ==
    /\ HasValue /\ type = "Bool"
    /\ IF TypeOf(value) # "Bool" THEN Aborts("panic")
       ELSE IF value[2] = Decides(op) THEN Returns(value, "Bool", pending)
       ELSE /\ Len(pending) < MaxPending
            /\ value' = NoValue /\ type' = ""
            /\ pending' = Append(pending, Operand(value, type, op))
            /\ UNCHANGED outcome

EvalLogicalRight ==
    /\ HasValue /\ type = "Bool"
    /\ pending # << >> /\ Waiting.for # "operands"
    /\ IF TypeOf(value) # "Bool" THEN Aborts("panic")
       ELSE Returns(value, "Bool", Rest)

\* The value goes to a cell, a variable or a sink, or is dropped.
EndExpr ==
    /\ HasValue /\ pending = << >>
    /\ Returns(NoValue, "", << >>)

NextTick ==
    /\ ~Running
    /\ outcome' = "running"
    /\ UNCHANGED <<value, type, pending>>

Next ==
    \/ \E t \in Types : \E v \in Value(t) : EvalLeaf(t, v)
    \/ EvalNext
    \/ \E r \in Rules : EvalRule(r)
    \/ \E op \in {"&&", "||"} : EvalLogicalLeft(op)
    \/ EvalLogicalRight
    \/ EndExpr
    \/ NextTick

Spec == Init /\ [][Next]_vars

-----------------------------------------------------------------------------
(* Safety *)

\* A value has the static type of its expression, whichever rules it came
\* through: what the tables promise the resolver (std_math.go:44-52,
\* time_operators.go) is what the functions return, so that a checked script
\* never hands a function, a cell or a sink a value of another type.
ValuesHaveTheirTypes ==
    /\ value # NoValue => value \in Value(type)
    /\ \A k \in DOMAIN pending : pending[k].value \in Value(pending[k].type)

\* No function panics on operands the resolver lets through: none of the
\* accessors "nothing guarded this position" (registry/cast.go:15), no default
\* branch, no integer division by zero that Go would trap.
RulesNeverPanic == outcome # "panic"

IsZeroValue(v) == IF TypeOf(v) = "Float" THEN IsZero(v[2]) ELSE v[2] = 0

\* A quotient or remainder fails exactly when its divisor is zero, of whatever
\* type and sign (SPEC.md:770): it never yields an infinity instead.
ZeroDivisorsFail ==
    \A r \in Rules : r.op \in {"/", "%"} /\ Takes(r) =>
        (DivisionByZero \in EvalFn(r, Args(2)) <=> IsZeroValue(value))

\* An operand of one type and the next one of another are evaluated.
Pair(left, right) ==
    /\ HasValue /\ type = right
    /\ pending # << >> /\ Waiting.for = "operands" /\ Waiting.type = left

\* t.truncate(bucket) is the start of t's bucket: at or before t by less than a
\* bucket, at a multiple of it, and in the same day, before the epoch as after
\* it (time.go:162-164); other buckets are refused.  The start of the first
\* bucket of all may be out of range.
TruncateFloors ==
    Pair("Time", "Duration") =>
        LET t == Waiting.value[2]
            b == value[2]
            result == Truncate(Waiting.value, value)
        IN IF b \notin 1 .. Day \/ Day % b # 0 THEN result = InvalidArgument
           ELSE Start(t, b) >= MinInt =>
                /\ result = Ok("Time", Start(t, b))
                /\ Start(t, b) \div Day = t \div Day
                /\ Start(t, b) \in (t - b + 1) .. t /\ Start(t, b) % b = 0

\* n/d rounded to an integer, halves away from zero.
Nearest(n, d) ==
    LET q == (2 * Abs(n) + Abs(d)) \div (2 * Abs(d))
    IN IF (n < 0) = (d < 0) THEN q ELSE -q

Small(n) == 2 * Abs(n) < Precision

\* A duration and its opposite are scaled to these; what fits no integer, or is
\* refused, is left out.
AreOpposite(one, other) ==
    \/ Milliseconds(NaN) \in {one, other}
    \/ \A x \in one, y \in other : x.is # "ok" \/ x.value[2] + y.value[2] = 0

SmallRatio(n, d) == 2 * (Abs(n) + Abs(d)) < Precision * Abs(d)

\* A small n/d becomes one of the two integers around it, or itself.
IsNextTo(results, n, d) ==
    SmallRatio(n, d) =>
        \A x \in results : x.is = "ok" /\ Abs(x.value[2] * d - n) < Abs(d)

\* How far the scaling of durations by floats can be relied on (SPEC.md:296): as
\* long as operands and result are less than half of what a float counts exactly,
\* the product with an integer is exact, the quotient is the nearest millisecond,
\* halves away from zero, and a float gives one of the two milliseconds around
\* the exact result, although not always the nearer one (ScalesToNearest).  Of
\* any size, a duration is scaled like its opposite.
ScalingRounds ==
    LET l == Waiting.value
        d == l[2]
        x == value[2]
        opposite == <<"Duration", Wrap(-d)>>
    IN /\ Pair("Duration", "Integer") =>
             /\ Small(d * x) => Scaled(l, value) = {Ok("Duration", d * x)}
             /\ Small(d) /\ Small(x) /\ x # 0 =>
                   Divided("Integer", l, value) = {Ok("Duration", Nearest(d, x))}
       /\ Pair("Duration", "Float") =>
             /\ Small(d) /\ IsFinite(x) =>
                   /\ IsNextTo(Scaled(l, value), d * Signed(x), Scale)
                   /\ ~IsZero(x) =>
                         IsNextTo(Divided("Float", l, value), d * Scale, Signed(x))
             /\ d # MinInt =>
                   /\ AreOpposite(Scaled(l, value), Scaled(opposite, value))
                   /\ AreOpposite(Divided("Float", l, value),
                                  Divided("Float", opposite, value))

\* "Multiplication and division round the resulting milliseconds to the nearest
\* integer, half away from zero" (SPEC.md:296): at least where the milliseconds
\* are few, and the product of the two floats is taken as it is.
ScalesToNearest ==
    Pair("Duration", "Float") =>
        LET product == Times(ToFloat(Waiting.value[2]), value[2])
        IN IsFinite(product) /\ SmallRatio(product.mag, Scale) =>
              Scaled(Waiting.value, value) =
                  {Ok("Duration", Nearest(Signed(product), Scale))}
=============================================================================
