------------------------------- MODULE Stdlib -------------------------------
(***************************************************************************)
(* The standard rules: those every registry starts with                    *)
(* (registry.RegisterStdMath and DefaultRegistry), and those of the modules*)
(* math and time (stdlib.Register).  A rule has the key it is registered   *)
(* under, the static type of its result, and the function the evaluator    *)
(* calls, which does not know that type.                                   *)
(***************************************************************************)
EXTENDS Arithmetic

\* operands includes the receiver unless that is a module; owner is the type a
\* member or method is registered for.
Rule(kind, owner, op, operands, result) ==
    [kind |-> kind, owner |-> owner, op |-> op, operands |-> operands,
     result |-> result]
Infix(op, l, r, result) == Rule("binary", "", op, <<l, r>>, result)

Arithmetics == {"+", "-", "*", "/", "%"}
Comparisons == {"==", "!=", "<", ">", "<=", ">="}

\* Fault: the result follows the operands, for a quotient as well.
OperandsResult(op, l, r) == IF "Float" \in {l, r} THEN "Float" ELSE "Integer"

NumericResult(op, l, r) ==
    IF op = "/" \/ "Float" \in {l, r} THEN "Float" ELSE "Integer"

NumericRules ==
    {Infix(op, l, r, NumericResult(op, l, r)) : op \in Arithmetics,
                                                l, r \in Numeric}
    \cup {Infix(op, l, r, "Bool") : op \in Comparisons, l, r \in Numeric}

ScalarRules ==
    {Infix(op, t, t, "Bool") : op \in {"==", "!="}, t \in {"String", "Bool"}}
    \cup {Infix("+", "String", "String", "String")}

StdMath ==
    NumericRules \cup ScalarRules
    \cup {Rule("unary", "", "-", <<t>>, t) : t \in Numeric}
    \cup {Rule("unary", "", "!", <<"Bool">>, "Bool")}

Coercion == Rule("coerce", "", "", <<"Integer">>, "Float")

-----------------------------------------------------------------------------

MathRules ==
    {Rule("member", "math", op, << >>, "Float") : op \in {"PI", "E"}}
    \cup {Rule("call", "math", op, <<"Float">>, "Float") :
             op \in {"abs", "sqrt", "floor", "ceil", "round", "trunc", "sign", "log"}}
    \cup {Rule("call", "math", op, <<"Float", "Float">>, "Float") :
             op \in {"max", "min", "pow"}}

TimeComparisons ==
    {Infix(op, t, t, "Bool") : op \in Comparisons, t \in {"Time", "Duration"}}

TimeScalings ==
    {Infix("*", n, "Duration", "Duration") : n \in Numeric}
    \cup {Infix(op, "Duration", n, "Duration") : op \in {"*", "/"}, n \in Numeric}

TimeOperators ==
    { Infix("-", "Time", "Time", "Duration"),
      Infix("+", "Time", "Duration", "Time"),
      Infix("+", "Duration", "Time", "Time"),
      Infix("-", "Time", "Duration", "Time"),
      Infix("+", "Duration", "Duration", "Duration"),
      Infix("-", "Duration", "Duration", "Duration"),
      Infix("/", "Duration", "Duration", "Float"),
      Rule("unary", "", "-", <<"Duration">>, "Duration") }
    \cup TimeScalings \cup TimeComparisons

\* The constants of the module time.
Unit == [MILLISECOND |-> 1, SECOND |-> Second, MINUTE |-> Minute, HOUR |-> Hour,
         DAY |-> Day, WEEK |-> Week]
Weekday == [SUNDAY |-> 0, MONDAY |-> 1, TUESDAY |-> 2, WEDNESDAY |-> 3,
            THURSDAY |-> 4, FRIDAY |-> 5, SATURDAY |-> 6]

\* What a duration is in other units.
Total == [seconds |-> Second, minutes |-> Minute, hours |-> Hour, days |-> Day,
          weeks |-> Week]

TimeMembers ==
    {Rule("member", "time", u, << >>, "Duration") : u \in DOMAIN Unit}
    \cup {Rule("member", "time", d, << >>, "Integer") : d \in DOMAIN Weekday}
    \cup {Rule("call", "time", "from_unix_ms", <<"Integer">>, "Time")}
    \cup {Rule("member", "Time", c, <<"Time">>, "Integer") :
             c \in {"unix_ms", "year", "month", "day", "weekday", "hour",
                    "minute", "second", "millisecond"}}
    \cup {Rule("member", "Duration", "milliseconds", <<"Duration">>, "Integer"),
          Rule("member", "Duration", "abs", <<"Duration">>, "Duration")}
    \cup {Rule("member", "Duration", u, <<"Duration">>, "Float") : u \in DOMAIN Total}
    \cup {Rule("call", "Time", "truncate", <<"Time", "Duration">>, "Time")}

Rules == StdMath \cup {Coercion} \cup MathRules \cup TimeOperators \cup TimeMembers

(***************************************************************************)
(* Keys as in Registry.  Register drops the errors of its RegisterBinary,  *)
(* RegisterMemberAccess and RegisterCall, so no two rules may have one key.*)
(***************************************************************************)
KeyOf(r) ==
    IF r.kind \in {"member", "call"} THEN <<r.kind, r.owner, r.op>>
    ELSE IF r.kind = "coerce" THEN <<r.kind, r.operands[1], r.result>>
    ELSE <<r.kind, r.op>> \o r.operands

ASSUME KeysAreDistinct == \A r, s \in Rules : KeyOf(r) = KeyOf(s) => r = s

-----------------------------------------------------------------------------
(* EvalFn: the outcomes of a rule's function on operands of any type *)

BinaryFn(r, left, right) ==
    LET types == {r.operands[1], r.operands[2]} IN
    IF types \subseteq Numeric
    THEN {IF r.op \in Comparisons THEN NumericCompare(r.op, left, right)
          ELSE NumericBinary(r.op, left, right)}
    ELSE IF types \subseteq {"String", "Bool"}
    THEN {IF r.op = "+" THEN StringConcat(left, right)
          ELSE ScalarEq(r.op, left, right)}
    ELSE IF r.op \in Comparisons THEN {TimeCompare(r.op, r.operands[1], left, right)}
    ELSE IF r.op = "*" THEN Scaled(left, right)
    ELSE IF r.op = "/"
    THEN IF types = {"Duration"} THEN {Ratio(left, right)}
         ELSE Divided(r.operands[2], left, right)
    ELSE {TimeSum(r.op, r.operands, left, right)}

UnaryFn(r, v) ==
    {IF r.op = "!" THEN BoolNot(v)
     ELSE IF r.operands[1] = "Duration" THEN DurationNegate(v) ELSE NumericNegate(v)}

\* An Integer is what both a Duration and a Time are underneath.
AsType(t, from, v) == IF TypeOf(v) = from THEN Ok(t, v[2]) ELSE Panic

MemberFn(r, args) ==
    CASE r.owner = "math"      -> {Ok("Float", x) : x \in Sample}
      [] r.op \in DOMAIN Unit  -> {Ok("Duration", Unit[r.op])}
      [] r.op \in DOMAIN Weekday -> {Ok("Integer", Weekday[r.op])}
      [] r.owner = "Time"      -> TimeComponent(r.op, args[1])
      [] r.op \in DOMAIN Total -> {DurationTotal(Total[r.op], args[1])}
      [] r.op = "abs"          -> {DurationAbs(args[1])}
      [] r.op = "milliseconds" -> {AsType("Integer", "Duration", args[1])}

\* math.abs and the like are told from a duration's by the owner.
CallFn(r, args) ==
    CASE r.op = "from_unix_ms" -> {AsType("Time", "Integer", args[1])}
      [] r.op = "truncate"     -> {Truncate(args[1], args[2])}
      [] r.owner = "math"      -> IF Len(r.operands) = 1 THEN MathUnary(r.op, args[1])
                                  ELSE MathBinary(r.op, args[1], args[2])

CoerceFn(v) == IF TypeOf(v) = "Integer" THEN Ok("Float", ToFloat(v[2])) ELSE Panic

EvalFn(r, args) ==
    CASE r.kind = "binary" -> BinaryFn(r, args[1], args[2])
      [] r.kind = "unary"  -> UnaryFn(r, args[1])
      [] r.kind = "member" -> MemberFn(r, args)
      [] r.kind = "call"   -> CallFn(r, args)
      [] r.kind = "coerce" -> {CoerceFn(args[1])}
=============================================================================
