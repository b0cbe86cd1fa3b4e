--------------------------- MODULE Evaluator_proofs ---------------------------
(***************************************************************************)
(* Why a checked script cannot make a standard function panic, for integers*)
(* of any width, floats of any precision and any nesting of expressions.   *)
(*                                                                         *)
(* A rule is Sound when its function, on operands of the rule's types,     *)
(* gives a value of the type the rule promises or a failure: RulesSound    *)
(* goes through the tables.  The invariant Static then says that a value   *)
(* and every operand that waits has the type the resolver computed, and    *)
(* holds what a value of that type holds.  What divisions and scalings     *)
(* compute on such operands follows from Arithmetic_proofs.                *)
(***************************************************************************)
EXTENDS Evaluator, Arithmetic_proofs, SequenceTheorems

IntTypes == {"Integer", "Time", "Duration"}

\* d is what a value of type t holds; a string may have any length.
Datum(d, t) ==
    \/ t \in IntTypes /\ d \in Int64
    \/ t = "Float" /\ d \in Float64
    \/ t = "Bool" /\ d \in BOOLEAN
    \/ t = "String" /\ d \in Seq({"a"})

\* v is a value of type t.
Typed(v, t) == v = <<t, v[2]>> /\ Datum(v[2], t)

\* What a rule's function may return to the evaluator: a value of the type the
\* rule promises, or a failure, but no panic.
Good(t, outcomes) ==
    \A x \in outcomes : x.is # "panic" /\ (x.is = "ok" => Typed(x.value, t))

\* A value of the promised type is good,
LEMMA GoodOk ==
    ASSUME NEW t, NEW d, Datum(d, t)
    PROVE  LET x == Ok(t, d) IN x.is # "panic" /\ (x.is = "ok" => Typed(x.value, t))
<1>1. <<t, d>>[2] = d
  OBVIOUS
<1>2. Typed(<<t, d>>, t)
  BY <1>1 DEF Typed
<1>. QED
  BY <1>2 DEF Ok

\* alone,
LEMMA GoodValue ==
    ASSUME NEW t, NEW d, Datum(d, t)
    PROVE  Good(t, {Ok(t, d)})
BY GoodOk DEF Good

\* What values hold, type by type.
LEMMA DatumIs ==
    /\ \A t \in IntTypes, d \in Int64 : Datum(d, t)
    /\ "Integer" \in IntTypes /\ "Time" \in IntTypes /\ "Duration" \in IntTypes
    /\ \A d \in Float64 : Datum(d, "Float")
    /\ \A d \in BOOLEAN : Datum(d, "Bool")
    /\ \A d \in Seq({"a"}) : Datum(d, "String")
<1>1. \A t \in IntTypes, d \in Int64 : Datum(d, t)
  BY DEF Datum
<1>2. "Integer" \in IntTypes /\ "Time" \in IntTypes /\ "Duration" \in IntTypes
  BY DEF IntTypes
<1>3. \A d \in Float64 : Datum(d, "Float")
  BY DEF Datum
<1>4. \A d \in BOOLEAN : Datum(d, "Bool")
  BY DEF Datum
<1>5. \A d \in Seq({"a"}) : Datum(d, "String")
  BY DEF Datum
<1>. QED
  BY <1>1, <1>2, <1>3, <1>4, <1>5

\* and so is a failure.
LEMMA GoodFailure ==
    \A t : Good(t, {DivisionByZero}) /\ Good(t, {InvalidArgument})
BY DEF Good, DivisionByZero, InvalidArgument, Fails

\* The integers the rules compute with.
LEMMA IntsAre == MaxInt \in Nat /\ MaxInt >= 59 /\ Int64 \subseteq Int /\ {0, 1, 59} \cup (0 .. 6) \subseteq Int64
BY IntAssumption DEF Int64, MinInt

\* A float is converted to an integer in range.
LEMMA ToIntRange == \A x : ToInt(x) \subseteq Int64
<1>. SUFFICES ASSUME NEW x PROVE ToInt(x) \subseteq Int64
  OBVIOUS
<1>1. OutOfRange \subseteq Int64
  BY IntsAre DEF OutOfRange, Int64, MinInt
<1>. DEFINE n == Signed(Truncated(x)) \div Scale
<1>2. ToInt(x) = IF IsFinite(x) /\ n \in Int64 THEN {n} ELSE OutOfRange
  BY DEF ToInt
<1>. HIDE DEF n
<1>. QED
  BY <1>1, <1>2

\* So rounded durations are good.
LEMMA GoodMilliseconds == \A x : Good("Duration", Milliseconds(x))
<1>. SUFFICES ASSUME NEW x, NEW y \in Milliseconds(x)
     PROVE  y.is # "panic" /\ (y.is = "ok" => Typed(y.value, "Duration"))
  BY DEF Good
<1>1. PICK n \in ToInt(RoundHalfAway(x)) : y = Ok("Duration", n)
  BY DEF Milliseconds
<1>. QED
  BY <1>1, GoodOk, ToIntRange, DatumIs

\* Operations on two integers.
LEMMA GoodInt ==
    ASSUME NEW op \in Arithmetics, NEW a \in Int64, NEW b \in Int64
    PROVE  Good(IF op = "/" THEN "Float" ELSE "Integer", {IntBinary(op, a, b)})
<1>0. a \in Int /\ b \in Int
  BY IntsAre
<1>1. Wrap(a + b) \in Int64 /\ Wrap(a - b) \in Int64 /\ Wrap(a * b) \in Int64
  BY <1>0, WrapRange
<1>2. CASE op \in {"+", "-", "*"}
  BY <1>1, <1>2, GoodValue, DatumIs DEF IntBinary
<1>3. CASE op \in {"/", "%"} /\ b = 0
  BY <1>3, GoodFailure DEF IntBinary
<1>4. CASE op = "/" /\ b # 0
  <2>1. Over(ToFloat(a), ToFloat(b)) \in Float64
    BY <1>0, <1>4, ToFloatIs, OverFloat
  <2>2. IntBinary(op, a, b) = Ok("Float", Over(ToFloat(a), ToFloat(b)))
    BY <1>4 DEF IntBinary
  <2>. QED
    BY <1>4, <2>1, <2>2, GoodValue, DatumIs
<1>5. CASE op = "%" /\ b # 0
  BY <1>5, GoodValue, RemRange, DatumIs DEF IntBinary
<1>. QED
  BY <1>2, <1>3, <1>4, <1>5 DEF Arithmetics

\* Operations on two floats.
LEMMA GoodFloat ==
    ASSUME NEW op \in Arithmetics, NEW x \in Float64, NEW y \in Float64
    PROVE  Good("Float", {FloatBinary(op, x, y)})
<1>1. CASE op \in {"+", "-", "*"}
  <2>1. Plus(x, y) \in Float64 /\ Plus(x, Negate(y)) \in Float64 /\ Times(x, y) \in Float64
    BY NegateFloat, PlusFloat, TimesFloat
  <2>2. FloatBinary(op, x, y) \in
          {Ok("Float", Plus(x, y)), Ok("Float", Plus(x, Negate(y))), Ok("Float", Times(x, y))}
    BY <1>1 DEF FloatBinary
  <2>. QED
    BY <2>1, <2>2, GoodValue, DatumIs
<1>2. CASE op \in {"/", "%"} /\ IsZero(y)
  BY <1>2, GoodFailure DEF FloatBinary
<1>3. CASE op \in {"/", "%"} /\ ~IsZero(y)
  <2>1. Over(x, y) \in Float64 /\ Mod(x, y) \in Float64
    BY <1>3, OverFloat, ModFloat
  <2>2. FloatBinary(op, x, y) \in {Ok("Float", Over(x, y)), Ok("Float", Mod(x, y))}
    BY <1>3 DEF FloatBinary
  <2>. QED
    BY <2>1, <2>2, GoodValue, DatumIs
<1>. QED
  BY <1>1, <1>2, <1>3 DEF Arithmetics

\* What is known of a value of a type.
LEMMA TypedIs ==
    ASSUME NEW v, NEW t, Typed(v, t)
    PROVE  /\ TypeOf(v) = t /\ v[1] = t
           /\ t \in IntTypes => v[2] \in Int64
           /\ t = "Float" => v[2] \in Float64
           /\ t = "Bool" => v[2] \in BOOLEAN
           /\ t = "String" => v[2] \in Seq({"a"})
           /\ Datum(v[2], t)
<1>. DEFINE d == v[2]
<1>1. v = <<t, d>> /\ Datum(d, t)
  BY DEF Typed
<1>. HIDE DEF d
<1>2. v[1] = t
  BY <1>1
<1>3. /\ t \in IntTypes => d \in Int64
      /\ t = "Float" => d \in Float64
      /\ t = "Bool" => d \in BOOLEAN
      /\ t = "String" => d \in Seq({"a"})
  BY <1>1 DEF Datum, IntTypes
<1>. QED
  BY <1>1, <1>2, <1>3 DEF d, TypeOf

\* A number is taken for a float, and only zero for zero.
LEMMA AsFloatIs ==
    ASSUME NEW v, NEW t \in Numeric, Typed(v, t)
    PROVE  AsFloat(v) \in Float64 /\ (IsZero(AsFloat(v)) <=> IsZeroValue(v))
<1>1. CASE t = "Integer"
  <2>1. TypeOf(v) = "Integer" /\ v[2] \in Int
    BY <1>1, TypedIs, DatumIs, IntsAre
  <2>2. AsFloat(v) = ToFloat(v[2]) /\ (IsZeroValue(v) <=> v[2] = 0)
    BY <2>1 DEF AsFloat, IsZeroValue
  <2>. QED
    BY <2>1, <2>2, ToFloatIs
<1>2. CASE t = "Float"
  <2>1. TypeOf(v) = "Float" /\ v[2] \in Float64
    BY <1>2, TypedIs
  <2>. QED
    BY <2>1 DEF AsFloat, IsZeroValue
<1>. QED
  BY <1>1, <1>2 DEF Numeric

\* A comparison is true or false.
LEMMA CompareBool ==
    ASSUME NEW op \in Comparisons, NEW less \in BOOLEAN, NEW equal \in BOOLEAN,
           NEW ordered \in BOOLEAN
    PROVE  Compare(op, less, equal, ordered) \in BOOLEAN
BY DEF Compare, Comparisons

\* Every comparison gives a Boolean.
LEMMA CompareBools ==
    ASSUME NEW op \in Comparisons, NEW x, NEW y
    PROVE  CompareInt(op, x, y) \in BOOLEAN /\ CompareFloat(op, x, y) \in BOOLEAN
<1>1. CompareInt(op, x, y) \in BOOLEAN
  <2>. DEFINE less == x < y
              equal == x = y
  <2>1. less \in BOOLEAN /\ equal \in BOOLEAN /\ TRUE \in BOOLEAN
    OBVIOUS
  <2>2. CompareInt(op, x, y) = Compare(op, less, equal, TRUE)
    BY DEF CompareInt
  <2>. HIDE DEF less, equal
  <2>. QED
    BY <2>1, <2>2, CompareBool
<1>2. CompareFloat(op, x, y) \in BOOLEAN
  <2>. DEFINE less == Less(x, y)
              equal == Equal(x, y)
              ordered == ~IsNaN(x) /\ ~IsNaN(y)
  <2>1. less \in BOOLEAN /\ equal \in BOOLEAN /\ ordered \in BOOLEAN
    BY DEF Less, Equal
  <2>2. CompareFloat(op, x, y) = Compare(op, less, equal, ordered)
    BY DEF CompareFloat
  <2>. HIDE DEF less, equal, ordered
  <2>. QED
    BY <2>1, <2>2, CompareBool
<1>. QED
  BY <1>1, <1>2

\* The accessors accept two operands of the types they ask for.
LEMMA AcceptsTwo ==
    ASSUME NEW l, NEW r, NEW S, NEW T, TypeOf(l) \in S, TypeOf(r) \in T
    PROVE  Accepts(<<S, T>>, <<l, r>>)
BY DEF Accepts

\* Operations on two numbers of any types.
LEMMA GoodNumeric ==
    ASSUME NEW op \in Arithmetics, NEW lt \in Numeric, NEW rt \in Numeric,
           NEW l, NEW r, Typed(l, lt), Typed(r, rt)
    PROVE  Good(NumericResult(op, lt, rt), {NumericBinary(op, l, r)})
<1>1. Accepts(<<Numeric, Numeric>>, <<l, r>>)
  BY TypedIs, AcceptsTwo
<1>2. CASE lt = "Integer" /\ rt = "Integer"
  <2>1. l[2] \in Int64 /\ r[2] \in Int64 /\ BothInt(l, r)
    BY <1>2, TypedIs, DatumIs DEF BothInt
  <2>2. NumericBinary(op, l, r) = IntBinary(op, l[2], r[2])
    BY <1>1, <2>1 DEF NumericBinary
  <2>3. NumericResult(op, lt, rt) = IF op = "/" THEN "Float" ELSE "Integer"
    BY <1>2 DEF NumericResult
  <2>. QED
    BY <2>1, <2>2, <2>3, GoodInt
<1>3. CASE ~(lt = "Integer" /\ rt = "Integer")
  <2>1. NumericBinary(op, l, r) = FloatBinary(op, AsFloat(l), AsFloat(r))
    BY <1>1, <1>3, TypedIs DEF NumericBinary, BothInt
  <2>2. NumericResult(op, lt, rt) = "Float"
    BY <1>3 DEF NumericResult, Numeric
  <2>3. AsFloat(l) \in Float64 /\ AsFloat(r) \in Float64
    BY AsFloatIs
  <2>. QED
    BY <2>1, <2>2, <2>3, GoodFloat
<1>. QED
  BY <1>2, <1>3

\* The parts of a rule.
LEMMA RuleFields ==
    ASSUME NEW k, NEW o, NEW p, NEW operands, NEW t
    PROVE  /\ Rule(k, o, p, operands, t).kind = k
           /\ Rule(k, o, p, operands, t).owner = o
           /\ Rule(k, o, p, operands, t).op = p
           /\ Rule(k, o, p, operands, t).operands = operands
           /\ Rule(k, o, p, operands, t).result = t
<1>1. Rule(k, o, p, operands, t).kind = k /\ Rule(k, o, p, operands, t).owner = o
  BY DEF Rule
<1>2. Rule(k, o, p, operands, t).op = p /\ Rule(k, o, p, operands, t).operands = operands
  BY DEF Rule
<1>3. Rule(k, o, p, operands, t).result = t
  BY DEF Rule
<1>. QED
  BY <1>1, <1>2, <1>3, Zenon

\* The parts of a rule with two operands.
LEMMA InfixFields ==
    ASSUME NEW p, NEW lt, NEW rt, NEW t
    PROVE  /\ Infix(p, lt, rt, t).kind = "binary"
           /\ Infix(p, lt, rt, t).op = p
           /\ Infix(p, lt, rt, t).result = t
           /\ Infix(p, lt, rt, t).operands[1] = lt
           /\ Infix(p, lt, rt, t).operands[2] = rt
           /\ DOMAIN Infix(p, lt, rt, t).operands = {1, 2}
<1>1. Infix(p, lt, rt, t).kind = "binary" /\ Infix(p, lt, rt, t).op = p
  BY DEF Infix, Rule
<1>3. Infix(p, lt, rt, t).result = t /\ Infix(p, lt, rt, t).operands = <<lt, rt>>
  BY DEF Infix, Rule
<1>2. <<lt, rt>>[1] = lt /\ <<lt, rt>>[2] = rt /\ DOMAIN <<lt, rt>> = {1, 2}
  OBVIOUS
<1>. QED
  BY <1>1, <1>2, <1>3, Zenon

\* The operands have the types of the rule.
TypedArgs(r, args) == \A k \in DOMAIN r.operands : Typed(args[k], r.operands[k])

Sound(r) == \A args : TypedArgs(r, args) => Good(r.result, EvalFn(r, args))

\* A rule with two operands is sound when its function is.
LEMMA BinarySound ==
    ASSUME NEW op, NEW lt, NEW rt, NEW t,
           \A l, v : Typed(l, lt) /\ Typed(v, rt) => Good(t, BinaryFn(Infix(op, lt, rt, t), l, v))
    PROVE  Sound(Infix(op, lt, rt, t))
<1>. DEFINE r == Infix(op, lt, rt, t)
<1>. SUFFICES ASSUME NEW args, TypedArgs(r, args) PROVE Good(r.result, EvalFn(r, args))
  BY DEF Sound
<1>1. r.kind = "binary" /\ r.result = t /\ r.operands[1] = lt /\ r.operands[2] = rt
      /\ DOMAIN r.operands = {1, 2}
  BY InfixFields
<1>. HIDE DEF r
<1>2. EvalFn(r, args) = BinaryFn(r, args[1], args[2])
  BY <1>1, Zenon DEF EvalFn
<1>3. Typed(args[1], lt) /\ Typed(args[2], rt)
  BY <1>1, Zenon DEF TypedArgs
<1>. QED
  BY <1>1, <1>2, <1>3, Zenon DEF r

\* BinaryFn by the operands of the rule.
LEMMA BinaryFnIs ==
    ASSUME NEW op, NEW lt, NEW rt, NEW t, NEW l, NEW v
    PROVE  BinaryFn(Infix(op, lt, rt, t), l, v) =
             IF {lt, rt} \subseteq Numeric
             THEN {IF op \in Comparisons THEN NumericCompare(op, l, v)
                   ELSE NumericBinary(op, l, v)}
             ELSE IF {lt, rt} \subseteq {"String", "Bool"}
             THEN {IF op = "+" THEN StringConcat(l, v) ELSE ScalarEq(op, l, v)}
             ELSE IF op \in Comparisons THEN {TimeCompare(op, lt, l, v)}
             ELSE IF op = "*" THEN Scaled(l, v)
             ELSE IF op = "/"
             THEN IF {lt, rt} = {"Duration"} THEN {Ratio(l, v)} ELSE Divided(rt, l, v)
             ELSE {TimeSum(op, Infix(op, lt, rt, t).operands, l, v)}
<1>. DEFINE r == Infix(op, lt, rt, t)
<1>1. r.op = op /\ r.operands[1] = lt /\ r.operands[2] = rt
  BY InfixFields
<1>. HIDE DEF r
<1>2. BinaryFn(r, l, v) =
             IF {lt, rt} \subseteq Numeric
             THEN {IF op \in Comparisons THEN NumericCompare(op, l, v)
                   ELSE NumericBinary(op, l, v)}
             ELSE IF {lt, rt} \subseteq {"String", "Bool"}
             THEN {IF op = "+" THEN StringConcat(l, v) ELSE ScalarEq(op, l, v)}
             ELSE IF op \in Comparisons THEN {TimeCompare(op, lt, l, v)}
             ELSE IF op = "*" THEN Scaled(l, v)
             ELSE IF op = "/"
             THEN IF {lt, rt} = {"Duration"} THEN {Ratio(l, v)} ELSE Divided(rt, l, v)
             ELSE {TimeSum(op, r.operands, l, v)}
  BY <1>1, SMT DEF BinaryFn
<1>. QED
  BY <1>2 DEF r

\* The rules of numbers are sound,
LEMMA NumericSound ==
    ASSUME NEW r \in NumericRules
    PROVE  Sound(r)
<1>1. ASSUME NEW op \in Arithmetics, NEW lt \in Numeric, NEW rt \in Numeric
      PROVE  Sound(Infix(op, lt, rt, NumericResult(op, lt, rt)))
  <2>1. op \notin Comparisons /\ {lt, rt} \subseteq Numeric
    BY <1>1 DEF Comparisons, Arithmetics
  <2>. SUFFICES ASSUME NEW l, NEW v, Typed(l, lt), Typed(v, rt)
                PROVE  Good(NumericResult(op, lt, rt), {NumericBinary(op, l, v)})
    BY <2>1, BinaryFnIs, BinarySound
  <2>. QED
    BY <1>1, GoodNumeric
<1>2. ASSUME NEW op \in Comparisons, NEW lt \in Numeric, NEW rt \in Numeric
      PROVE  Sound(Infix(op, lt, rt, "Bool"))
  <2>1. {lt, rt} \subseteq Numeric
    BY <1>2
  <2>. SUFFICES ASSUME NEW l, NEW v, Typed(l, lt), Typed(v, rt)
                PROVE  Good("Bool", {NumericCompare(op, l, v)})
    BY <1>2, <2>1, BinaryFnIs, BinarySound
  <2>2. Accepts(<<Numeric, Numeric>>, <<l, v>>)
    BY TypedIs, AcceptsTwo
  <2>. DEFINE b == IF BothInt(l, v) THEN CompareInt(op, l[2], v[2])
                   ELSE CompareFloat(op, AsFloat(l), AsFloat(v))
  <2>3. b \in BOOLEAN
    BY <1>2, CompareBools
  <2>4. NumericCompare(op, l, v) = Ok("Bool", b)
    BY <2>2 DEF NumericCompare
  <2>. HIDE DEF b
  <2>. QED
    BY <2>3, <2>4, GoodValue, DatumIs
<1>. QED
  BY <1>1, <1>2 DEF NumericRules

\* those of Booleans and strings,
LEMMA ScalarSound ==
    ASSUME NEW r \in ScalarRules
    PROVE  Sound(r)
<1>1. ASSUME NEW op \in {"==", "!="}, NEW t \in {"String", "Bool"}
      PROVE  Sound(Infix(op, t, t, "Bool"))
  <2>1. op # "+" /\ {t, t} \subseteq {"String", "Bool"} /\ ~({t, t} \subseteq Numeric)
    BY <1>1 DEF Numeric
  <2>. SUFFICES ASSUME NEW l, NEW v PROVE Good("Bool", {ScalarEq(op, l, v)})
    BY <2>1, BinaryFnIs, BinarySound
  <2>. DEFINE b == (l = v) = (op = "==")
  <2>2. b \in BOOLEAN
    OBVIOUS
  <2>3. ScalarEq(op, l, v) = Ok("Bool", b)
    BY DEF ScalarEq
  <2>. HIDE DEF b
  <2>. QED
    BY <2>2, <2>3, GoodValue, DatumIs
<1>2. Sound(Infix("+", "String", "String", "String"))
  <2>1. {"String", "String"} \subseteq {"String", "Bool"} /\ ~({"String", "String"} \subseteq Numeric)
    BY DEF Numeric
  <2>. SUFFICES ASSUME NEW l, NEW v, Typed(l, "String"), Typed(v, "String")
                PROVE  Good("String", {StringConcat(l, v)})
    BY <2>1, BinaryFnIs, BinarySound
  <2>2. Accepts(<<{"String"}, {"String"}>>, <<l, v>>)
    BY TypedIs, AcceptsTwo
  <2>3. l[2] \o v[2] \in Seq({"a"})
    <3>1. l[2] \in Seq({"a"}) /\ v[2] \in Seq({"a"})
      BY TypedIs
    <3>. QED
      BY <3>1
  <2>4. StringConcat(l, v) = Ok("String", l[2] \o v[2])
    BY <2>2 DEF StringConcat
  <2>. QED
    BY <2>3, <2>4, GoodValue, DatumIs
<1>. QED
  BY <1>1, <1>2 DEF ScalarRules

\* the sums and differences of times and durations,
LEMMA TimeSumSound ==
    ASSUME NEW op \in {"+", "-"}, NEW lt \in {"Time", "Duration"}, NEW rt \in {"Time", "Duration"},
           NEW t, t = IF <<lt, rt>> \in {<<"Time", "Duration">>, <<"Duration", "Time">>}
                      THEN "Time" ELSE "Duration"
    PROVE  Sound(Infix(op, lt, rt, t))
<1>. DEFINE types == Infix(op, lt, rt, t).operands
<1>1. types = <<lt, rt>> /\ types[1] = lt /\ types[2] = rt
  BY DEF Infix, Rule
<1>2. op \notin Comparisons /\ op # "*" /\ op # "/"
  BY DEF Comparisons
<1>0. ~({lt, rt} \subseteq Numeric) /\ ~({lt, rt} \subseteq {"String", "Bool"})
  BY DEF Numeric
<1>. HIDE DEF types
<1>6. \A l, v : BinaryFn(Infix(op, lt, rt, t), l, v) = {TimeSum(op, types, l, v)}
  BY <1>0, <1>2, BinaryFnIs DEF types
<1>. SUFFICES ASSUME NEW l, NEW v, Typed(l, lt), Typed(v, rt)
              PROVE  Good(t, {TimeSum(op, types, l, v)})
  BY <1>6, BinarySound
<1>. DEFINE n == IF op = "+" THEN l[2] + v[2] ELSE l[2] - v[2]
<1>3. Wrap(n) \in Int64
  <2>1. l[2] \in Int /\ v[2] \in Int
    BY TypedIs, IntsAre DEF IntTypes
  <2>. QED
    BY <2>1, WrapRange
<1>4. TypeOf(l) = types[1] /\ TypeOf(v) = types[2]
  BY <1>1, TypedIs
<1>5. TimeSum(op, types, l, v) = Ok(t, Wrap(n))
  <2>. HIDE DEF n
  <2>1. TimeSum(op, types, l, v) =
          Ok(IF types \in {<<"Time", "Duration">>, <<"Duration", "Time">>} THEN "Time"
             ELSE "Duration", Wrap(IF op = "+" THEN l[2] + v[2] ELSE l[2] - v[2]))
    BY <1>4, Zenon DEF TimeSum
  <2>. QED
    BY <1>1, <2>1, Zenon DEF n
<1>. HIDE DEF n
<1>7. t \in IntTypes
  BY DEF IntTypes
<1>. QED
  BY <1>3, <1>5, <1>7, GoodValue, DatumIs

\* The rule for a divisor of a type, on operands of their types.
LEMMA DividedIs ==
    ASSUME NEW l, NEW r, NEW t \in Numeric, Typed(l, "Duration"), Typed(r, t)
    PROVE  Divided(t, l, r) = IF IsZero(AsFloat(r)) THEN {DivisionByZero}
                              ELSE Milliseconds(Over(ToFloat(l[2]), AsFloat(r)))
<1>. DEFINE T == IF t = "Integer" THEN {t} ELSE Numeric
<1>1. TypeOf(l) = "Duration" /\ TypeOf(r) = t /\ t \in T
  BY TypedIs
<1>. HIDE DEF T
<1>2. Accepts(<<{"Duration"}, T>>, <<l, r>>)
  BY <1>1, AcceptsTwo
<1>. QED
  BY <1>2, Zenon DEF Divided, T

\* the scalings of durations,
LEMMA ScaledSound ==
    ASSUME NEW n \in Numeric
    PROVE  /\ Sound(Infix("*", n, "Duration", "Duration"))
           /\ Sound(Infix("*", "Duration", n, "Duration"))
           /\ Sound(Infix("/", "Duration", n, "Duration"))
<1>1. n # "Duration" /\ "*" \notin Comparisons /\ "/" \notin Comparisons /\ {"Duration", n} # {"Duration"}
  BY DEF Numeric, Comparisons
<1>2. ASSUME NEW d, NEW x, Typed(d, "Duration"), Typed(x, n)
      PROVE  /\ Good("Duration", Scaled(d, x)) /\ Good("Duration", Scaled(x, d))
             /\ Good("Duration", Divided(n, d, x))
  <2>1. Accepts(<<{"Duration"}, Numeric>>, <<d, x>>)
    BY <1>2, TypedIs, AcceptsTwo
  <2>2. TypeOf(d) = "Duration" /\ TypeOf(x) # "Duration"
    BY <1>1, <1>2, TypedIs
  <2>3. Scaled(d, x) = Milliseconds(Times(ToFloat(d[2]), AsFloat(x)))
    BY <2>1, <2>2 DEF Scaled
  <2>4. Scaled(x, d) = Milliseconds(Times(ToFloat(d[2]), AsFloat(x)))
    BY <2>1, <2>2 DEF Scaled
  <2>5. Divided(n, d, x) \in {{DivisionByZero}, Milliseconds(Over(ToFloat(d[2]), AsFloat(x)))}
    BY <1>2, DividedIs
  <2>. QED
    BY <2>3, <2>4, <2>5, GoodMilliseconds, GoodFailure
<1>3. /\ ~({n, "Duration"} \subseteq Numeric) /\ ~({n, "Duration"} \subseteq {"String", "Bool"})
      /\ ~({"Duration", n} \subseteq Numeric) /\ ~({"Duration", n} \subseteq {"String", "Bool"})
  BY DEF Numeric
<1>4. \A l, v : BinaryFn(Infix("*", n, "Duration", "Duration"), l, v) = Scaled(l, v)
  BY <1>1, <1>3, BinaryFnIs
<1>5. \A l, v : BinaryFn(Infix("*", "Duration", n, "Duration"), l, v) = Scaled(l, v)
  BY <1>1, <1>3, BinaryFnIs
<1>6. \A l, v : BinaryFn(Infix("/", "Duration", n, "Duration"), l, v) = Divided(n, l, v)
  BY <1>1, <1>3, BinaryFnIs
<1>7. Sound(Infix("*", n, "Duration", "Duration"))
  BY <1>2, <1>4, BinarySound
<1>8. Sound(Infix("*", "Duration", n, "Duration"))
  BY <1>2, <1>5, BinarySound
<1>9. Sound(Infix("/", "Duration", n, "Duration"))
  BY <1>2, <1>6, BinarySound
<1>. QED
  BY <1>7, <1>8, <1>9

\* and the other rules of times.
LEMMA TimeBinarySound ==
    ASSUME NEW op \in Comparisons, NEW t \in {"Time", "Duration"}
    PROVE  /\ Sound(Infix(op, t, t, "Bool"))
           /\ Sound(Infix("/", "Duration", "Duration", "Float"))
<1>1. Sound(Infix(op, t, t, "Bool"))
  <2>1. ~({t, t} \subseteq Numeric) /\ ~({t, t} \subseteq {"String", "Bool"})
    BY DEF Numeric
  <2>2. \A l, v : BinaryFn(Infix(op, t, t, "Bool"), l, v) = {TimeCompare(op, t, l, v)}
    BY <2>1, BinaryFnIs
  <2>. SUFFICES ASSUME NEW l, NEW v, Typed(l, t), Typed(v, t)
                PROVE  Good("Bool", {TimeCompare(op, t, l, v)})
    BY <2>2, BinarySound
  <2>3. CompareInt(op, l[2], v[2]) \in BOOLEAN
    BY CompareBools
  <2>4. TimeCompare(op, t, l, v) = Ok("Bool", CompareInt(op, l[2], v[2]))
    BY TypedIs DEF TimeCompare
  <2>. QED
    BY <2>3, <2>4, GoodValue, DatumIs
<1>2. Sound(Infix("/", "Duration", "Duration", "Float"))
  <2>1. "/" \notin Comparisons /\ "/" # "*" /\ {"Duration", "Duration"} = {"Duration"}
    BY DEF Comparisons
  <2>3. ~({"Duration", "Duration"} \subseteq Numeric) /\ ~({"Duration", "Duration"} \subseteq {"String", "Bool"})
    BY DEF Numeric
  <2>4. \A l, v : BinaryFn(Infix("/", "Duration", "Duration", "Float"), l, v) = {Ratio(l, v)}
    BY <2>1, <2>3, BinaryFnIs
  <2>. SUFFICES ASSUME NEW l, NEW v, Typed(l, "Duration"), Typed(v, "Duration")
                PROVE  Good("Float", {Ratio(l, v)})
    BY <2>4, BinarySound
  <2>2. Accepts(<<{"Duration"}, {"Duration"}>>, <<l, v>>)
    BY TypedIs, AcceptsTwo
  <2>5. l[2] \in Int /\ v[2] \in Int
    BY TypedIs, DatumIs, IntsAre
  <2>6. v[2] # 0 => Over(ToFloat(l[2]), ToFloat(v[2])) \in Float64
    BY <2>5, ToFloatIs, OverFloat
  <2>. QED
    BY <2>2, <2>6, GoodValue, GoodFailure, DatumIs DEF Ratio
<1>. QED
  BY <1>1, <1>2

\* The parts of a rule with a name for it.
LEMMA FieldsOf ==
    ASSUME NEW k, NEW o, NEW p, NEW operands, NEW res, NEW r, r = Rule(k, o, p, operands, res)
    PROVE  r.kind = k /\ r.owner = o /\ r.op = p /\ r.operands = operands /\ r.result = res
<1>1. r.kind = k /\ r.owner = o
  BY DEF Rule
<1>2. r.op = p /\ r.operands = operands
  BY DEF Rule
<1>3. r.result = res
  BY DEF Rule
<1>. QED
  BY <1>1, <1>2, <1>3, Zenon

\* What a rule is called on: one operand,
LEMMA OneOperand ==
    ASSUME NEW r, NEW t, r.operands = <<t>>, NEW args, TypedArgs(r, args)
    PROVE  r.operands[1] = t /\ Typed(args[1], t)
<1>1. r.operands[1] = t /\ 1 \in DOMAIN r.operands
  OBVIOUS
<1>. QED
  BY <1>1, Zenon DEF TypedArgs

\* or two.
LEMMA TwoOperands ==
    ASSUME NEW r, NEW t, NEW u, r.operands = <<t, u>>, NEW args, TypedArgs(r, args)
    PROVE  Typed(args[1], t) /\ Typed(args[2], u)
<1>1. r.operands[1] = t /\ r.operands[2] = u /\ 1 \in DOMAIN r.operands /\ 2 \in DOMAIN r.operands
  OBVIOUS
<1>. QED
  BY <1>1, Zenon DEF TypedArgs

\* A unary rule is sound when its function is.
LEMMA UnaryIs ==
    ASSUME NEW op, NEW t, NEW r, r = Rule("unary", "", op, <<t>>, t),
           \A v : Typed(v, t) =>
              Good(t, {IF op = "!" THEN BoolNot(v)
                       ELSE IF t = "Duration" THEN DurationNegate(v) ELSE NumericNegate(v)})
    PROVE  Sound(r)
<1>1. r.kind = "unary" /\ r.op = op /\ r.operands = <<t>> /\ r.result = t
  <2>1. r.kind = "unary" /\ r.op = op
    BY DEF Rule
  <2>2. r.operands = <<t>> /\ r.result = t
    BY DEF Rule
  <2>. QED
    BY <2>1, <2>2, Zenon
<1>. SUFFICES ASSUME NEW args, TypedArgs(r, args) PROVE Good(t, EvalFn(r, args))
  BY <1>1, Zenon DEF Sound
<1>2. r.operands[1] = t /\ Typed(args[1], t)
  BY <1>1, OneOperand
<1>3. EvalFn(r, args) = UnaryFn(r, args[1])
  BY <1>1, Zenon DEF EvalFn
<1>4. UnaryFn(r, args[1]) =
        {IF op = "!" THEN BoolNot(args[1])
         ELSE IF t = "Duration" THEN DurationNegate(args[1]) ELSE NumericNegate(args[1])}
  <2>1. UnaryFn(r, args[1]) =
          {IF r.op = "!" THEN BoolNot(args[1])
           ELSE IF r.operands[1] = "Duration" THEN DurationNegate(args[1])
           ELSE NumericNegate(args[1])}
    BY Zenon DEF UnaryFn
  <2>. QED
    BY <1>1, <1>2, <2>1, Zenon
<1>. QED
  BY <1>2, <1>3, <1>4, Zenon

\* Integers of every kind are negated.
LEMMA NegatedInt ==
    ASSUME NEW t \in IntTypes, NEW v, Typed(v, t)
    PROVE  Wrap(-v[2]) \in Int64
<1>1. v[2] \in Int
  BY TypedIs, IntsAre
<1>. QED
  BY <1>1, WrapRange

\* The rules with one operand are sound,
LEMMA UnarySound ==
    /\ \A t \in Numeric : Sound(Rule("unary", "", "-", <<t>>, t))
    /\ Sound(Rule("unary", "", "!", <<"Bool">>, "Bool"))
    /\ Sound(Rule("unary", "", "-", <<"Duration">>, "Duration"))
<1>1. ASSUME NEW t \in Numeric PROVE Sound(Rule("unary", "", "-", <<t>>, t))
  <2>1. ASSUME NEW v, Typed(v, t) PROVE Good(t, {NumericNegate(v)})
    <3>1. CASE t = "Integer"
      <4>1. Wrap(-v[2]) \in Int64 /\ TypeOf(v) = "Integer"
        BY <2>1, <3>1, TypedIs, NegatedInt DEF IntTypes
      <4>2. NumericNegate(v) = Ok("Integer", Wrap(-v[2]))
        BY <4>1, Zenon DEF NumericNegate
      <4>. QED
        BY <3>1, <4>1, <4>2, GoodValue, DatumIs
    <3>2. CASE t = "Float"
      <4>1. TypeOf(v) = "Float" /\ Negate(v[2]) \in Float64
        BY <2>1, <3>2, TypedIs, NegateFloat
      <4>2. NumericNegate(v) = Ok("Float", Negate(v[2]))
        BY <4>1, Zenon DEF NumericNegate
      <4>. QED
        BY <3>2, <4>1, <4>2, GoodValue, DatumIs
    <3>. QED
      BY <3>1, <3>2 DEF Numeric
  <2>2. t # "Duration" /\ "-" # "!"
    BY DEF Numeric
  <2>. QED
    BY <2>1, <2>2, UnaryIs, Zenon
<1>2. Sound(Rule("unary", "", "!", <<"Bool">>, "Bool"))
  <2>1. ASSUME NEW v, Typed(v, "Bool") PROVE Good("Bool", {BoolNot(v)})
    <3>. DEFINE d == v[2]
                b == ~d
    <3>1. TypeOf(v) = "Bool" /\ d \in BOOLEAN
      BY <2>1, TypedIs
    <3>2. BoolNot(v) = Ok("Bool", b)
      BY <3>1 DEF BoolNot
    <3>. HIDE DEF d
    <3>3. b \in BOOLEAN
      OBVIOUS
    <3>. HIDE DEF b
    <3>. QED
      BY <3>2, <3>3, GoodValue, DatumIs
  <2>. QED
    BY <2>1, UnaryIs, Zenon
<1>3. Sound(Rule("unary", "", "-", <<"Duration">>, "Duration"))
  <2>1. ASSUME NEW v, Typed(v, "Duration") PROVE Good("Duration", {DurationNegate(v)})
    <3>1. Wrap(-v[2]) \in Int64 /\ TypeOf(v) = "Duration"
      BY <2>1, TypedIs, NegatedInt DEF IntTypes
    <3>. QED
      BY <3>1, GoodValue, DatumIs DEF DurationNegate
  <2>2. "-" # "!"
    OBVIOUS
  <2>. QED
    BY <2>1, <2>2, UnaryIs, Zenon
<1>. QED
  BY <1>1, <1>2, <1>3

\* so is the coercion,
LEMMA CoercionSound == Sound(Coercion)
<1>. SUFFICES ASSUME NEW r, r = Coercion PROVE Sound(r)
  OBVIOUS
<1>1. r.kind = "coerce" /\ r.operands = <<"Integer">> /\ r.result = "Float"
  <2>1. r.kind = "coerce" /\ r.operands = <<"Integer">>
    BY DEF Rule, Coercion
  <2>2. r.result = "Float"
    BY DEF Rule, Coercion
  <2>. QED
    BY <2>1, <2>2, Zenon
<1>. SUFFICES ASSUME NEW args, TypedArgs(r, args) PROVE Good("Float", EvalFn(r, args))
  BY <1>1, Zenon DEF Sound
<1>2. Typed(args[1], "Integer")
  BY <1>1, OneOperand
<1>3. EvalFn(r, args) = {CoerceFn(args[1])}
  BY <1>1, Zenon DEF EvalFn
<1>4. CoerceFn(args[1]) = Ok("Float", ToFloat(args[1][2]))
  BY <1>2, TypedIs DEF CoerceFn
<1>5. ToFloat(args[1][2]) \in Float64
  <2>1. args[1][2] \in Int
    BY <1>2, TypedIs, DatumIs, IntsAre
  <2>. QED
    BY <2>1, ToFloatIs
<1>. QED
  BY <1>3, <1>4, <1>5, GoodValue, DatumIs

-----------------------------------------------------------------------------
(* Members *)

UnitNames == {"MILLISECOND", "SECOND", "MINUTE", "HOUR", "DAY", "WEEK"}
DayNames  == {"SUNDAY", "MONDAY", "TUESDAY", "WEDNESDAY", "THURSDAY", "FRIDAY", "SATURDAY"}
TotalNames == {"seconds", "minutes", "hours", "days", "weeks"}

\* The names of the members of the time library.
LEMMA MemberNames ==
    DOMAIN Unit = UnitNames /\ DOMAIN Weekday = DayNames /\ DOMAIN Total = TotalNames
BY DEF Unit, Weekday, Total, UnitNames, DayNames, TotalNames

\* Their values are in range.
LEMMA MemberValues ==
    /\ \A u \in UnitNames : Unit[u] \in Int64
    /\ \A d \in DayNames : Weekday[d] \in Int64
<1>1. \A u \in UnitNames : Unit[u] \in {1, Second, Minute, Hour, Day, Week}
  BY DEF Unit, UnitNames
<1>2. \A d \in DayNames : Weekday[d] \in 0 .. 6
  BY DEF Weekday, DayNames
<1>3. {1, Second, Minute, Hour, Day, Week} \subseteq Int64
  BY UnitAssumption, IntsAre DEF Int64, MinInt
<1>. QED
  BY <1>1, <1>2, <1>3, IntsAre

\* A unit is not zero.
LEMMA TotalValues ==
    ASSUME NEW u \in DOMAIN Total
    PROVE  Total[u] \in Int /\ Total[u] # 0
<1>1. Total[u] \in {Second, Minute, Hour, Day, Week}
  BY DEF Total
<1>. QED
  BY <1>1, UnitAssumption, IntsAre

\* The results of a member's function decide.
LEMMA MemberIs ==
    ASSUME NEW owner, NEW op, NEW operands, NEW t,
           NEW r, r = Rule("member", owner, op, operands, t),
           \A args : TypedArgs(r, args) => Good(t, MemberFn(r, args))
    PROVE  Sound(r)
<1>1. r.kind = "member" /\ r.result = t
  BY DEF Rule
<1>2. \A args : EvalFn(r, args) = MemberFn(r, args)
  BY <1>1, Zenon DEF EvalFn
<1>. QED
  BY <1>1, <1>2, Zenon DEF Sound

\* Constants of math,
LEMMA MathMemberSound ==
    ASSUME NEW op \in {"PI", "E"}
    PROVE  Sound(Rule("member", "math", op, << >>, "Float"))
<1>. SUFFICES ASSUME NEW r, r = Rule("member", "math", op, << >>, "Float") PROVE Sound(r)
  OBVIOUS
<1>1. r.owner = "math" /\ r.op = op
  BY DEF Rule
<1>2. op \notin UnitNames \cup DayNames \cup TotalNames \cup {"abs", "milliseconds"}
  BY DEF UnitNames, DayNames, TotalNames
<1>3. ASSUME NEW args PROVE MemberFn(r, args) = {Ok("Float", x) : x \in Sample}
  BY <1>1, <1>2, MemberNames, Zenon DEF MemberFn
<1>4. Good("Float", {Ok("Float", x) : x \in Sample})
  BY GoodOk, SampleFloat, DatumIs DEF Good
<1>. QED
  BY <1>3, <1>4, MemberIs, Zenon

\* units,
LEMMA UnitMemberSound ==
    ASSUME NEW u \in DOMAIN Unit
    PROVE  Sound(Rule("member", "time", u, << >>, "Duration"))
<1>. SUFFICES ASSUME NEW r, r = Rule("member", "time", u, << >>, "Duration") PROVE Sound(r)
  OBVIOUS
<1>1. r.owner = "time" /\ r.op = u
  BY DEF Rule
<1>2. u \notin DayNames \cup TotalNames \cup {"abs", "milliseconds"}
  BY MemberNames DEF UnitNames, DayNames, TotalNames
<1>3. ASSUME NEW args PROVE MemberFn(r, args) = {Ok("Duration", Unit[u])}
  BY <1>1, <1>2, MemberNames, Zenon DEF MemberFn
<1>4. Good("Duration", {Ok("Duration", Unit[u])})
  BY GoodValue, MemberNames, MemberValues, DatumIs
<1>. QED
  BY <1>3, <1>4, MemberIs, Zenon

\* days,
LEMMA DayMemberSound ==
    ASSUME NEW d \in DOMAIN Weekday
    PROVE  Sound(Rule("member", "time", d, << >>, "Integer"))
<1>. SUFFICES ASSUME NEW r, r = Rule("member", "time", d, << >>, "Integer") PROVE Sound(r)
  OBVIOUS
<1>1. r.owner = "time" /\ r.op = d
  BY DEF Rule
<1>2. d \notin UnitNames \cup TotalNames \cup {"abs", "milliseconds"}
  BY MemberNames DEF UnitNames, DayNames, TotalNames
<1>3. ASSUME NEW args PROVE MemberFn(r, args) = {Ok("Integer", Weekday[d])}
  BY <1>1, <1>2, MemberNames, Zenon DEF MemberFn
<1>4. Good("Integer", {Ok("Integer", Weekday[d])})
  BY GoodValue, MemberNames, MemberValues, DatumIs
<1>. QED
  BY <1>3, <1>4, MemberIs, Zenon

ComponentNames == {"unix_ms", "year", "month", "day", "weekday", "hour", "minute",
                   "second", "millisecond"}

\* and parts of a time.
LEMMA ComponentSound ==
    ASSUME NEW c \in ComponentNames
    PROVE  Sound(Rule("member", "Time", c, <<"Time">>, "Integer"))
<1>. SUFFICES ASSUME NEW r, r = Rule("member", "Time", c, <<"Time">>, "Integer") PROVE Sound(r)
  OBVIOUS
<1>1. r.owner = "Time" /\ r.op = c
  BY DEF Rule
<1>2. r.operands = <<"Time">>
  BY DEF Rule
<1>3. c \notin UnitNames \cup DayNames \cup TotalNames \cup {"abs", "milliseconds"}
  BY DEF UnitNames, DayNames, TotalNames, ComponentNames
<1>4. ASSUME NEW args, TypedArgs(r, args) PROVE Good("Integer", MemberFn(r, args))
  <2>1. MemberFn(r, args) = TimeComponent(c, args[1])
    BY <1>1, <1>3, MemberNames, Zenon DEF MemberFn
  <2>2. Typed(args[1], "Time")
    BY <1>2, <1>4, OneOperand
  <2>3. TypeOf(args[1]) = "Time" /\ args[1][2] \in Int64
    BY <2>2, TypedIs DEF IntTypes
  <2>4. TimeComponent(c, args[1]) = {Ok("Integer", n) : n \in Component(c, args[1][2])}
    BY <2>3, Zenon DEF TimeComponent
  <2>5. Component(c, args[1][2]) \subseteq Int64
    BY <2>3, IntsAre DEF Component
  <2>. QED
    BY <2>1, <2>4, <2>5, GoodOk, DatumIs DEF Good
<1>. QED
  BY <1>4, MemberIs, Zenon

\* A member of a duration.
LEMMA DurationMemberSound ==
    /\ Sound(Rule("member", "Duration", "milliseconds", <<"Duration">>, "Integer"))
    /\ Sound(Rule("member", "Duration", "abs", <<"Duration">>, "Duration"))
    /\ \A u \in DOMAIN Total : Sound(Rule("member", "Duration", u, <<"Duration">>, "Float"))
<1>1. ASSUME NEW r, r = Rule("member", "Duration", "milliseconds", <<"Duration">>, "Integer")
      PROVE  Sound(r)
  <2>1. r.owner = "Duration" /\ r.op = "milliseconds"
    BY <1>1 DEF Rule
  <2>2. r.operands = <<"Duration">>
    BY <1>1 DEF Rule
  <2>3. "milliseconds" \notin UnitNames \cup DayNames \cup TotalNames
    BY DEF UnitNames, DayNames, TotalNames
  <2>4. ASSUME NEW args, TypedArgs(r, args) PROVE Good("Integer", MemberFn(r, args))
    <3>1. MemberFn(r, args) = {AsType("Integer", "Duration", args[1])}
      BY <2>1, <2>3, MemberNames, Zenon DEF MemberFn
    <3>2. Typed(args[1], "Duration")
      BY <2>2, <2>4, OneOperand
    <3>3. TypeOf(args[1]) = "Duration" /\ args[1][2] \in Int64
      BY <3>2, TypedIs DEF IntTypes
    <3>. QED
      BY <3>1, <3>3, GoodValue, DatumIs DEF AsType
  <2>. QED
    BY <1>1, <2>4, MemberIs, Zenon
<1>2. ASSUME NEW r, r = Rule("member", "Duration", "abs", <<"Duration">>, "Duration")
      PROVE  Sound(r)
  <2>1. r.owner = "Duration" /\ r.op = "abs"
    BY <1>2 DEF Rule
  <2>2. r.operands = <<"Duration">>
    BY <1>2 DEF Rule
  <2>3. "abs" \notin UnitNames \cup DayNames \cup TotalNames
    BY DEF UnitNames, DayNames, TotalNames
  <2>4. ASSUME NEW args, TypedArgs(r, args) PROVE Good("Duration", MemberFn(r, args))
    <3>1. MemberFn(r, args) = {DurationAbs(args[1])}
      BY <2>1, <2>3, MemberNames, Zenon DEF MemberFn
    <3>2. Typed(args[1], "Duration")
      BY <2>2, <2>4, OneOperand
    <3>3. TypeOf(args[1]) = "Duration" /\ args[1][2] \in Int64 /\ Wrap(-args[1][2]) \in Int64
      BY <3>2, TypedIs, NegatedInt DEF IntTypes
    <3>. QED
      BY <3>1, <3>3, GoodValue, DatumIs DEF DurationAbs
  <2>. QED
    BY <1>2, <2>4, MemberIs, Zenon
<1>3. ASSUME NEW u \in DOMAIN Total,
             NEW r, r = Rule("member", "Duration", u, <<"Duration">>, "Float")
      PROVE  Sound(r)
  <2>1. r.owner = "Duration" /\ r.op = u
    BY <1>3 DEF Rule
  <2>2. r.operands = <<"Duration">>
    BY <1>3 DEF Rule
  <2>3. u \notin UnitNames \cup DayNames \cup {"abs", "milliseconds"}
    BY MemberNames DEF UnitNames, DayNames, TotalNames
  <2>4. ASSUME NEW args, TypedArgs(r, args) PROVE Good("Float", MemberFn(r, args))
    <3>1. MemberFn(r, args) = {DurationTotal(Total[u], args[1])}
      BY <2>1, <2>3, MemberNames, Zenon DEF MemberFn
    <3>2. Typed(args[1], "Duration")
      BY <2>2, <2>4, OneOperand
    <3>. DEFINE n == args[1][2]
                d == Total[u]
    <3>3. TypeOf(args[1]) = "Duration" /\ n \in Int
      BY <3>2, TypedIs, DatumIs, IntsAre
    <3>4. d \in Int /\ d # 0
      BY <1>3, TotalValues
    <3>5. DurationTotal(d, args[1]) = Ok("Float", Over(ToFloat(n), ToFloat(d)))
      BY <3>3 DEF DurationTotal
    <3>. HIDE DEF n, d
    <3>6. Over(ToFloat(n), ToFloat(d)) \in Float64
      BY <3>3, <3>4, ToFloatIs, OverFloat
    <3>7. MemberFn(r, args) = {DurationTotal(d, args[1])}
      BY <3>1 DEF d
    <3>. QED
      BY <3>5, <3>6, <3>7, GoodValue, DatumIs
  <2>. QED
    BY <1>3, <2>4, MemberIs, Zenon
<1>. QED
  BY <1>1, <1>2, <1>3

-----------------------------------------------------------------------------
(* Calls *)

\* Calls of functions.
LEMMA CallIs ==
    ASSUME NEW owner, NEW op, NEW operands, NEW t,
           NEW r, r = Rule("call", owner, op, operands, t),
           \A args : TypedArgs(r, args) => Good(t, CallFn(r, args))
    PROVE  Sound(r)
<1>1. r.kind = "call" /\ r.result = t
  BY DEF Rule
<1>2. \A args : EvalFn(r, args) = CallFn(r, args)
  BY <1>1, Zenon DEF EvalFn
<1>. QED
  BY <1>1, <1>2, Zenon DEF Sound

\* Functions of one number,
LEMMA MathUnarySound ==
    ASSUME NEW op \in {"abs", "sqrt", "floor", "ceil", "round", "trunc", "sign", "log"}
    PROVE  Sound(Rule("call", "math", op, <<"Float">>, "Float"))
<1>. SUFFICES ASSUME NEW r, r = Rule("call", "math", op, <<"Float">>, "Float") PROVE Sound(r)
  OBVIOUS
<1>1. r.owner = "math" /\ r.op = op
  BY DEF Rule
<1>2. r.operands = <<"Float">> /\ Len(r.operands) = 1
  BY DEF Rule
<1>3. op # "from_unix_ms" /\ op # "truncate"
  OBVIOUS
<1>4. ASSUME NEW args, TypedArgs(r, args) PROVE Good("Float", CallFn(r, args))
  <2>1. CallFn(r, args) = MathUnary(op, args[1])
    BY <1>1, <1>2, <1>3, Zenon DEF CallFn
  <2>2. TypeOf(args[1]) \in Numeric
    BY <1>2, <1>4, OneOperand, TypedIs DEF Numeric
  <2>3. Good("Float", {Ok("Float", x) : x \in Sample})
    BY GoodOk, SampleFloat, DatumIs DEF Good
  <2>4. CASE op \in {"sqrt", "log"}
    <3>1. MathUnary(op, args[1]) \in {{Ok("Float", x) : x \in Sample}, {InvalidArgument}}
      BY <2>2, <2>4 DEF MathUnary
    <3>. QED
      BY <2>1, <2>3, <3>1, GoodFailure
  <2>5. CASE op \notin {"sqrt", "log"}
    <3>. DEFINE y == AsFloat(args[1])
    <3>1. y \in Float64
      BY <1>2, <1>4, OneOperand, AsFloatIs DEF Numeric
    <3>2. MathUnary(op, args[1]) = {Ok("Float", MathFunc(op, y))}
      BY <2>2, <2>5 DEF MathUnary
    <3>. HIDE DEF y
    <3>3. MathFunc(op, y) \in Float64
      BY <2>5, <3>1, MathFuncFloat
    <3>. QED
      BY <2>1, <3>2, <3>3, GoodValue, DatumIs
  <2>. QED
    BY <2>4, <2>5
<1>. QED
  BY <1>4, CallIs, Zenon

\* of two numbers,
LEMMA MathBinarySound ==
    ASSUME NEW op \in {"max", "min", "pow"}
    PROVE  Sound(Rule("call", "math", op, <<"Float", "Float">>, "Float"))
<1>. SUFFICES ASSUME NEW r, r = Rule("call", "math", op, <<"Float", "Float">>, "Float")
              PROVE  Sound(r)
  OBVIOUS
<1>1. r.owner = "math" /\ r.op = op
  BY DEF Rule
<1>2. r.operands = <<"Float", "Float">> /\ Len(r.operands) # 1
  BY DEF Rule
<1>3. op # "from_unix_ms" /\ op # "truncate"
  OBVIOUS
<1>4. ASSUME NEW args, TypedArgs(r, args) PROVE Good("Float", CallFn(r, args))
  <2>1. CallFn(r, args) = MathBinary(op, args[1], args[2])
    BY <1>1, <1>2, <1>3, Zenon DEF CallFn
  <2>. DEFINE x == AsFloat(args[1])  y == AsFloat(args[2])
  <2>0. Typed(args[1], "Float") /\ Typed(args[2], "Float")
    BY <1>2, <1>4, TwoOperands
  <2>9. x \in Float64 /\ y \in Float64
    BY <2>0, AsFloatIs DEF Numeric
  <2>2. Accepts(<<Numeric, Numeric>>, <<args[1], args[2]>>)
    BY <2>0, TypedIs, AcceptsTwo DEF Numeric
  <2>3. MathBinary(op, args[1], args[2]) =
          CASE op = "max" -> {Ok("Float", Largest(x, y))}
            [] op = "min" -> {Ok("Float", Negate(Largest(Negate(x), Negate(y))))}
            [] op = "pow" -> {Ok("Float", z) : z \in Sample \cup {NaN}}
    BY <2>2, Zenon DEF MathBinary
  <2>. HIDE DEF x, y
  <2>4. \A d \in Float64 : Good("Float", {Ok("Float", d)})
    BY GoodValue, DatumIs
  <2>5. Good("Float", {Ok("Float", z) : z \in Sample \cup {NaN}})
    BY GoodOk, SampleFloat, FloatsAre, DatumIs DEF Good
  <2>10. Largest(x, y) \in Float64 /\ Negate(Largest(Negate(x), Negate(y))) \in Float64
    BY <2>9, LargestFloat, NegateFloat
  <2>6. CASE op = "max"
    BY <2>1, <2>3, <2>4, <2>6, <2>10, Zenon
  <2>7. CASE op = "min"
    BY <2>1, <2>3, <2>4, <2>7, <2>10, Zenon
  <2>8. CASE op = "pow"
    BY <2>1, <2>3, <2>5, <2>8, Zenon
  <2>. QED
    BY <2>6, <2>7, <2>8
<1>. QED
  BY <1>4, CallIs, Zenon

\* of an integer,
LEMMA FromUnixSound == Sound(Rule("call", "time", "from_unix_ms", <<"Integer">>, "Time"))
<1>. SUFFICES ASSUME NEW r, r = Rule("call", "time", "from_unix_ms", <<"Integer">>, "Time")
              PROVE  Sound(r)
  OBVIOUS
<1>1. r.owner = "time" /\ r.op = "from_unix_ms"
  BY DEF Rule
<1>2. r.operands = <<"Integer">>
  BY DEF Rule
<1>3. ASSUME NEW args, TypedArgs(r, args) PROVE Good("Time", CallFn(r, args))
  <2>0. "time" # "math" /\ "from_unix_ms" # "truncate"
    OBVIOUS
  <2>1. CallFn(r, args) = {AsType("Time", "Integer", args[1])}
    BY <1>1, <2>0, Zenon DEF CallFn
  <2>2. TypeOf(args[1]) = "Integer" /\ args[1][2] \in Int64
    BY <1>2, <1>3, OneOperand, TypedIs DEF IntTypes
  <2>. QED
    BY <2>1, <2>2, GoodValue, DatumIs DEF AsType
<1>. QED
  BY <1>3, CallIs, Zenon

\* and of a time.
LEMMA TruncateSound == Sound(Rule("call", "Time", "truncate", <<"Time", "Duration">>, "Time"))
<1>. SUFFICES ASSUME NEW r, r = Rule("call", "Time", "truncate", <<"Time", "Duration">>, "Time")
              PROVE  Sound(r)
  OBVIOUS
<1>1. r.owner = "Time" /\ r.op = "truncate"
  BY DEF Rule
<1>2. r.operands = <<"Time", "Duration">>
  BY DEF Rule
<1>3. ASSUME NEW args, TypedArgs(r, args) PROVE Good("Time", CallFn(r, args))
  <2>0. "Time" # "math" /\ "from_unix_ms" # "truncate"
    OBVIOUS
  <2>1. CallFn(r, args) = {Truncate(args[1], args[2])}
    BY <1>1, <2>0, Zenon DEF CallFn
  <2>2. Typed(args[1], "Time") /\ Typed(args[2], "Duration")
    BY <1>2, <1>3, TwoOperands
  <2>. DEFINE a == args[1][2]  b == args[2][2]
  <2>3. a \in Int64 /\ b \in Int64 /\ Accepts(<<{"Time"}, {"Duration"}>>, <<args[1], args[2]>>)
    BY <2>2, TypedIs, AcceptsTwo DEF IntTypes
  <2>4. CASE ~Bucket(b)
    BY <2>1, <2>3, <2>4, GoodFailure DEF Truncate
  <2>5. CASE Bucket(b)
    <3>1. FloorDiv(a, b) * b \in Int
      <4>1. b > 0 /\ a % b \in Int /\ a \in Int
        <5>1. b > 0 /\ a \in Int /\ b \in Int
          BY <2>3, <2>5, IntsAre DEF Bucket
        <5>. HIDE DEF a, b
        <5>2. a % b \in 0 .. b - 1
          BY <5>1, DivMod
        <5>. QED
          BY <5>1, <5>2
      <4>2. FloorDiv(a, b) * b = Start(a, b)
        BY <2>3, <4>1, FloorDivFloors
      <4>. QED
        BY <4>1, <4>2 DEF Start
    <3>2. Wrap(FloorDiv(a, b) * b) \in Int64
      BY <3>1, WrapRange
    <3>3. Truncate(args[1], args[2]) = Ok("Time", Wrap(FloorDiv(a, b) * b))
      BY <2>3, <2>5 DEF Truncate
    <3>. QED
      BY <2>1, <3>2, <3>3, GoodValue, DatumIs
  <2>. QED
    BY <2>4, <2>5
<1>. QED
  BY <1>3, CallIs, Zenon

-----------------------------------------------------------------------------
(* All rules *)

\* Every rule of the tables is sound.
LEMMA RulesSound == \A r \in Rules : Sound(r)
<1>. SUFFICES ASSUME NEW r \in Rules PROVE Sound(r)
  OBVIOUS
<1>1. CASE r \in StdMath
  BY <1>1, NumericSound, ScalarSound, UnarySound DEF StdMath
<1>2. CASE r \in MathRules
  BY <1>2, MathMemberSound, MathUnarySound, MathBinarySound DEF MathRules
<1>3. CASE r \in TimeOperators
  <2>1. /\ Sound(Infix("-", "Time", "Time", "Duration"))
        /\ Sound(Infix("+", "Time", "Duration", "Time"))
        /\ Sound(Infix("+", "Duration", "Time", "Time"))
        /\ Sound(Infix("-", "Time", "Duration", "Time"))
        /\ Sound(Infix("+", "Duration", "Duration", "Duration"))
        /\ Sound(Infix("-", "Duration", "Duration", "Duration"))
    BY TimeSumSound
  <2>2. /\ Sound(Infix("/", "Duration", "Duration", "Float"))
        /\ \A op \in Comparisons, t \in {"Time", "Duration"} : Sound(Infix(op, t, t, "Bool"))
    <3>1. "==" \in Comparisons
      BY DEF Comparisons
    <3>. QED
      BY <3>1, TimeBinarySound
  <2>3. \A n \in Numeric, op \in {"*", "/"} : Sound(Infix(op, "Duration", n, "Duration"))
    BY ScaledSound
  <2>4. \A n \in Numeric : Sound(Infix("*", n, "Duration", "Duration"))
    BY ScaledSound
  <2>5. CASE r \in TimeComparisons
    BY <2>2, <2>5 DEF TimeComparisons
  <2>6. CASE r \in TimeScalings
    BY <2>3, <2>4, <2>6 DEF TimeScalings
  <2>7. CASE r \notin TimeScalings \cup TimeComparisons
    BY <1>3, <2>1, <2>2, <2>7, UnarySound DEF TimeOperators
  <2>. QED
    BY <2>5, <2>6, <2>7
<1>4. CASE r \in TimeMembers
  BY <1>4, UnitMemberSound, DayMemberSound, ComponentSound, DurationMemberSound,
     FromUnixSound, TruncateSound DEF TimeMembers, ComponentNames
<1>. QED
  BY <1>1, <1>2, <1>3, <1>4, CoercionSound DEF Rules

-----------------------------------------------------------------------------
(* The inductive invariant: values have the types of their expressions. *)

\* v is a value of type t whose length is within the bound.
Valid(v, t) == Typed(v, t) /\ (TypeOf(v) = "String" => Len(v[2]) <= MaxString)

ValueTyped == value # NoValue => Valid(value, type)
PendingTyped == \E S : pending \in Seq(S) /\ \A p \in S : Valid(p.value, p.type)
Static == ValueTyped /\ PendingTyped
StaticInv == Static /\ RulesNeverPanic

\* The operand that waits is typed.
LEMMA WaitingTyped ==
    ASSUME PendingTyped, pending # << >>
    PROVE  Valid(Waiting.value, Waiting.type)
<1>1. PICK S : pending \in Seq(S) /\ \A p \in S : Valid(p.value, p.type)
  BY DEF PendingTyped
<1>2. Waiting \in S
  BY <1>1 DEF Waiting
<1>. QED
  BY <1>1, <1>2

\* So are those below it.
LEMMA RestTyped ==
    ASSUME NEW s, NEW S, s \in Seq(S), s # << >>
    PROVE  SubSeq(s, 1, Len(s) - 1) \in Seq(S)
OBVIOUS

\* One operand less,
LEMMA PopTyped ==
    ASSUME PendingTyped, pending # << >>, pending' = Rest
    PROVE  PendingTyped'
<1>1. PICK S : pending \in Seq(S) /\ \A p \in S : Valid(p.value, p.type)
  BY DEF PendingTyped
<1>2. pending' \in Seq(S)
  BY <1>1, RestTyped DEF Rest
<1>. QED
  BY <1>1, <1>2 DEF PendingTyped

\* one more,
LEMMA PushTyped ==
    ASSUME PendingTyped, NEW v, NEW t, NEW for, Valid(v, t),
           pending' = Append(pending, Operand(v, t, for))
    PROVE  PendingTyped'
<1>1. PICK S : pending \in Seq(S) /\ \A p \in S : Valid(p.value, p.type)
  BY DEF PendingTyped
<1>. DEFINE p == Operand(v, t, for)
<1>2. p.value = v /\ p.type = t
  BY DEF Operand
<1>. HIDE DEF p
<1>3. pending \in Seq(S \cup {p})
  BY <1>1, SeqMonotonic
<1>4. pending' \in Seq(S \cup {p})
  BY <1>3 DEF p
<1>5. \A q \in S \cup {p} : Valid(q.value, q.type)
  BY <1>1, <1>2
<1>. QED
  BY <1>4, <1>5 DEF PendingTyped

\* or none.
LEMMA EmptyTyped ==
    ASSUME pending' = << >>
    PROVE  PendingTyped'
<1>1. pending' \in Seq({}) /\ \A p \in {} : Valid(p.value, p.type)
  OBVIOUS
<1>. QED
  BY <1>1 DEF PendingTyped

\* An abort leaves nothing to be typed.
LEMMA AbortKeeps ==
    ASSUME NEW why, why # "panic", Aborts(why)
    PROVE  StaticInv'
BY EmptyTyped DEF Aborts, StaticInv, Static, ValueTyped, RulesNeverPanic

\* A typed value is returned.
LEMMA ReturnKeeps ==
    ASSUME StaticInv, NEW v, NEW t, NEW rest, Returns(v, t, rest),
           v # NoValue => Valid(v, t), PendingTyped'
    PROVE  StaticInv'
BY DEF Returns, StaticInv, Static, ValueTyped, RulesNeverPanic

\* The operands that wait stay typed.
LEMMA UnchangedPending ==
    ASSUME PendingTyped, pending' = pending
    PROVE  PendingTyped'
BY DEF PendingTyped

\* The values of a type are the valid ones.
LEMMA ValidIs ==
    ASSUME NEW t \in Types, NEW v
    PROVE  Valid(v, t) <=> v \in Value(t)
<1>. DEFINE d == v[2]
<1>1. ASSUME NEW D, Value(t) = {t} \X D,
             Valid(v, t) <=> v = <<t, d>> /\ d \in D
      PROVE  Valid(v, t) <=> v \in Value(t)
  <2>1. v \in {t} \X D <=> v = <<t, d>> /\ d \in D
    OBVIOUS
  <2>. QED
    BY <1>1, <2>1
<1>2. v = <<t, d>> => TypeOf(v) = t
  BY DEF TypeOf
<1>. HIDE DEF d
<1>3. Valid(v, t) <=> v = <<t, d>> /\ Datum(d, t) /\ (t = "String" => Len(d) <= MaxString)
  BY <1>2 DEF Valid, Typed, d
<1>4. CASE t \in IntTypes
  <2>1. Value(t) = {t} \X Int64
    BY <1>4, Zenon DEF Value, IntTypes
  <2>2. t # "String" /\ (Datum(d, t) <=> d \in Int64)
    BY <1>4 DEF Datum, IntTypes
  <2>. QED
    BY <1>1, <1>3, <2>1, <2>2
<1>5. CASE t = "Float"
  <2>1. Value(t) = {t} \X Float64
    BY <1>5, Zenon DEF Value
  <2>2. t # "String" /\ (Datum(d, t) <=> d \in Float64)
    BY <1>5 DEF Datum, IntTypes
  <2>. QED
    BY <1>1, <1>3, <2>1, <2>2
<1>6. CASE t = "Bool"
  <2>1. Value(t) = {t} \X BOOLEAN
    BY <1>6, Zenon DEF Value
  <2>2. t # "String" /\ (Datum(d, t) <=> d \in BOOLEAN)
    BY <1>6 DEF Datum, IntTypes
  <2>. QED
    BY <1>1, <1>3, <2>1, <2>2
<1>7. CASE t = "String"
  <2>. DEFINE D == UNION {[1..n -> {"a"}] : n \in 0..MaxString}
  <2>1. Value(t) = {t} \X D
    BY <1>7, Zenon DEF Value
  <2>2. Datum(d, t) <=> d \in Seq({"a"})
    BY <1>7 DEF Datum, IntTypes
  <2>3. MaxString \in Nat
    BY FloatAssumption
  <2>4. d \in Seq({"a"}) /\ Len(d) <= MaxString => d \in D
    <3>. SUFFICES ASSUME d \in Seq({"a"}), Len(d) <= MaxString
                  PROVE  d \in D
      OBVIOUS
    <3>1. Len(d) \in 0 .. MaxString /\ d \in [1 .. Len(d) -> {"a"}]
      BY <2>3
    <3>. QED
      BY <3>1
  <2>5. d \in D => d \in Seq({"a"}) /\ Len(d) <= MaxString
    <3>. SUFFICES ASSUME NEW n \in 0 .. MaxString, d \in [1 .. n -> {"a"}]
                  PROVE  d \in Seq({"a"}) /\ Len(d) <= MaxString
      OBVIOUS
    <3>1. n \in Nat
      BY <2>3
    <3>2. d \in Seq({"a"}) /\ Len(d) = n
      BY <3>1
    <3>. QED
      BY <2>3, <3>2
  <2>. HIDE DEF D
  <2>6. Valid(v, t) <=> v = <<t, d>> /\ d \in D
    BY <1>3, <1>7, <2>2, <2>4, <2>5
  <2>. QED
    BY <1>1, <2>1, <2>6
<1>. QED
  BY <1>4, <1>5, <1>6, <1>7 DEF Types, IntTypes

\* The type of a value is one of the types.
LEMMA ValidType ==
    ASSUME NEW v, NEW t, Valid(v, t)
    PROVE  t \in Types /\ v \in Value(t)
<1>1. t \in Types
  BY DEF Valid, Typed, Datum, Types, IntTypes
<1>. QED
  BY <1>1, ValidIs

\* A leaf has its type.
LEMMA LeafStep ==
    ASSUME StaticInv, NEW t \in Types, NEW v \in Value(t), EvalLeaf(t, v)
    PROVE  StaticInv'
<1>1. PendingTyped'
  BY UnchangedPending DEF EvalLeaf, Returns, StaticInv, Static
<1>. QED
  BY <1>1, ValidIs, ReturnKeeps DEF EvalLeaf

\* The value at hand waits for the next operand.
LEMMA NextStep ==
    ASSUME StaticInv, EvalNext
    PROVE  StaticInv'
<1>1. Valid(value, type)
  BY DEF EvalNext, HasValue, StaticInv, Static, ValueTyped
<1>2. PendingTyped'
  BY <1>1, PushTyped DEF EvalNext, StaticInv, Static
<1>. QED
  BY <1>2 DEF EvalNext, StaticInv, Static, ValueTyped, RulesNeverPanic

\* What a rule takes has the types the rule is registered for.
LEMMA TakesTyped ==
    ASSUME Static, NEW r \in Rules, Takes(r)
    PROVE  TypedArgs(r, Args(Len(r.operands)))
<1>. DEFINE n == Len(r.operands)
<1>1. ArgTypes(n) = r.operands
  BY DEF Takes
<1>2. CASE n = 2
  <2>1. r.operands = <<Waiting.type, type>> /\ Args(n) = <<Waiting.value, value>>
    BY <1>1, <1>2 DEF ArgTypes, Args
  <2>2. Typed(value, type) /\ Typed(Waiting.value, Waiting.type)
    BY <1>2, WaitingTyped DEF Takes, HasValue, Static, ValueTyped, Valid
  <2>. QED
    BY <2>1, <2>2 DEF TypedArgs
<1>3. CASE n = 1
  <2>1. r.operands = <<type>> /\ Args(n) = <<value>>
    BY <1>1, <1>3 DEF ArgTypes, Args
  <2>2. Typed(value, type)
    BY <1>3 DEF Takes, HasValue, Static, ValueTyped, Valid
  <2>. QED
    BY <2>1, <2>2 DEF TypedArgs
<1>4. CASE n \notin {1, 2}
  <2>1. r.operands = << >>
    BY <1>1, <1>4 DEF ArgTypes
  <2>. QED
    BY <2>1 DEF TypedArgs
<1>. QED
  BY <1>2, <1>3, <1>4

\* A rule returns what it promises.
LEMMA RuleStep ==
    ASSUME StaticInv, NEW r \in Rules, EvalRule(r)
    PROVE  StaticInv'
<1>. DEFINE args == Args(Len(r.operands))
<1>1. TypedArgs(r, args) /\ Takes(r)
  BY TakesTyped DEF EvalRule, StaticInv
<1>2. Good(r.result, EvalFn(r, args))
  BY <1>1, RulesSound DEF Sound
<1>3. PICK x \in EvalFn(r, args) :
        IF x.is = "ok"
        THEN /\ TypeOf(x.value) = "String" => Len(x.value[2]) <= MaxString
             /\ Returns(x.value, r.result, IF Len(r.operands) = 2 THEN Rest ELSE pending)
        ELSE Aborts(x.is)
  BY DEF EvalRule
<1>. HIDE DEF args
<1>4. x.is # "panic" /\ (x.is = "ok" => Typed(x.value, r.result))
  BY <1>2, <1>3 DEF Good
<1>5. CASE x.is # "ok"
  BY <1>3, <1>4, <1>5, AbortKeeps
<1>6. CASE x.is = "ok"
  <2>1. Returns(x.value, r.result, IF Len(r.operands) = 2 THEN Rest ELSE pending)
    BY <1>3, <1>6
  <2>2. PendingTyped'
    <3>1. CASE Len(r.operands) = 2
      <4>1. pending # << >> /\ pending' = Rest
        BY <1>1, <2>1, <3>1 DEF Takes, Returns
      <4>. QED
        BY <4>1, PopTyped DEF StaticInv, Static
    <3>2. CASE Len(r.operands) # 2
      <4>1. pending' = pending
        BY <2>1, <3>2 DEF Returns
      <4>. QED
        BY <4>1, UnchangedPending DEF StaticInv, Static
    <3>. QED
      BY <3>1, <3>2
  <2>3. Valid(x.value, r.result)
    BY <1>3, <1>4, <1>6 DEF Valid
  <2>. QED
    BY <2>1, <2>2, <2>3, ReturnKeeps
<1>. QED
  BY <1>5, <1>6

\* A left operand decides, or waits.
LEMMA LogicalLeftStep ==
    ASSUME StaticInv, NEW op, EvalLogicalLeft(op)
    PROVE  StaticInv'
<1>1. Valid(value, "Bool") /\ type = "Bool" /\ TypeOf(value) = "Bool"
  BY TypedIs DEF EvalLogicalLeft, HasValue, StaticInv, Static, ValueTyped, Valid
<1>2. CASE value[2] = Decides(op)
  <2>1. Returns(value, "Bool", pending)
    BY <1>1, <1>2 DEF EvalLogicalLeft
  <2>2. PendingTyped'
    BY <2>1, UnchangedPending DEF Returns, StaticInv, Static
  <2>. QED
    BY <1>1, <2>1, <2>2, ReturnKeeps
<1>3. CASE value[2] # Decides(op)
  <2>1. /\ value' = NoValue /\ outcome' = outcome
        /\ pending' = Append(pending, Operand(value, type, op))
    BY <1>1, <1>3 DEF EvalLogicalLeft
  <2>2. PendingTyped'
    BY <1>1, <2>1, PushTyped DEF StaticInv, Static
  <2>. QED
    BY <2>1, <2>2 DEF StaticInv, Static, ValueTyped, RulesNeverPanic
<1>. QED
  BY <1>2, <1>3

\* A right operand is the result.
LEMMA LogicalRightStep ==
    ASSUME StaticInv, EvalLogicalRight
    PROVE  StaticInv'
<1>1. Valid(value, "Bool") /\ TypeOf(value) = "Bool" /\ pending # << >>
  BY TypedIs DEF EvalLogicalRight, HasValue, StaticInv, Static, ValueTyped, Valid
<1>2. Returns(value, "Bool", Rest)
  BY <1>1 DEF EvalLogicalRight
<1>3. PendingTyped'
  BY <1>1, <1>2, PopTyped DEF Returns, StaticInv, Static
<1>. QED
  BY <1>1, <1>2, <1>3, ReturnKeeps

\* Nothing is evaluated at first.
LEMMA StaticInit == Init => StaticInv
<1>. SUFFICES ASSUME Init PROVE StaticInv
  OBVIOUS
<1>1. pending \in Seq({}) /\ \A p \in {} : Valid(p.value, p.type)
  <2>1. pending = << >>
    BY DEF Init
  <2>. QED
    BY <2>1
<1>2. PendingTyped
  BY <1>1 DEF PendingTyped
<1>. QED
  BY <1>2 DEF Init, StaticInv, Static, ValueTyped, RulesNeverPanic

\* Every step keeps the invariant.
LEMMA StaticNext == StaticInv /\ [Next]_vars => StaticInv'
<1>. SUFFICES ASSUME StaticInv, [Next]_vars PROVE StaticInv'
  OBVIOUS
<1>1. ASSUME NEW t \in Types, NEW v \in Value(t), EvalLeaf(t, v) PROVE StaticInv'
  BY <1>1, LeafStep
<1>2. CASE EvalNext
  BY <1>2, NextStep
<1>3. ASSUME NEW r \in Rules, EvalRule(r) PROVE StaticInv'
  BY <1>3, RuleStep
<1>4. ASSUME NEW op \in {"&&", "||"}, EvalLogicalLeft(op) PROVE StaticInv'
  BY <1>4, LogicalLeftStep
<1>5. CASE EvalLogicalRight
  BY <1>5, LogicalRightStep
<1>6. CASE EndExpr
  <2>1. PendingTyped'
    BY <1>6, EmptyTyped DEF EndExpr, Returns
  <2>. QED
    BY <1>6, <2>1, ReturnKeeps DEF EndExpr
<1>7. CASE NextTick
  <2>1. PendingTyped'
    BY <1>7, UnchangedPending DEF NextTick, StaticInv, Static
  <2>. QED
    BY <1>7, <2>1 DEF NextTick, StaticInv, Static, ValueTyped, RulesNeverPanic
<1>8. CASE UNCHANGED vars
  <2>1. PendingTyped'
    BY <1>8, UnchangedPending DEF vars, StaticInv, Static
  <2>. QED
    BY <1>8, <2>1 DEF vars, StaticInv, Static, ValueTyped, RulesNeverPanic
<1>. QED
  BY <1>1, <1>2, <1>3, <1>4, <1>5, <1>6, <1>7, <1>8 DEF Next

\* A value and every operand that waits is a value of the static type of its
\* expression: an integer, a time or a duration in range, a float that is one of
\* the floats, a truth value or a string (evaluator.go:377-531 with the tables of
\* std_math.go and time_operators.go).
THEOREM TypesAreStatic == Spec => []ValuesHaveTheirTypes
<1>1. StaticInv => ValuesHaveTheirTypes
  <2>. SUFFICES ASSUME Static PROVE ValuesHaveTheirTypes
    BY DEF StaticInv
  <2>1. value # NoValue => value \in Value(type)
    BY ValidType DEF Static, ValueTyped
  <2>2. ASSUME NEW k \in DOMAIN pending
        PROVE  pending[k].value \in Value(pending[k].type)
    <3>1. PICK S : pending \in Seq(S) /\ \A p \in S : Valid(p.value, p.type)
      BY DEF Static, PendingTyped
    <3>2. pending[k] \in S
      BY <3>1
    <3>. QED
      BY <3>1, <3>2, ValidType
  <2>. QED
    BY <2>1, <2>2 DEF ValuesHaveTheirTypes
<1>. QED
  BY <1>1, StaticInit, StaticNext, PTL DEF Spec

\* No standard function panics in a checked script: none of the accessors of
\* registry/cast.go meets a value of another type, no % divides by zero.
THEOREM NeverPanics == Spec => []RulesNeverPanic
<1>1. StaticInv => RulesNeverPanic
  BY DEF StaticInv
<1>. QED
  BY <1>1, StaticInit, StaticNext, PTL DEF Spec

\* truncate computes the start of the bucket.
LEMMA TruncateStarts ==
    ASSUME NEW t \in Int64, NEW b \in Int64, NEW tv, NEW bv,
           Typed(tv, "Time"), Typed(bv, "Duration"), tv[2] = t, bv[2] = b
    PROVE  IF b \notin 1 .. Day \/ Day % b # 0 THEN Truncate(tv, bv) = InvalidArgument
           ELSE Start(t, b) >= MinInt =>
                /\ Truncate(tv, bv) = Ok("Time", Start(t, b))
                /\ Start(t, b) \div Day = t \div Day
                /\ Start(t, b) \in (t - b + 1) .. t /\ Start(t, b) % b = 0
<1>1. Accepts(<<{"Time"}, {"Duration"}>>, <<tv, bv>>)
  BY TypedIs, AcceptsTwo
<1>2. t \in Int /\ b \in Int /\ Day \in Int /\ Day > 0 /\ t <= MaxInt /\ MaxInt \in Nat
  BY IntsAre, UnitAssumption DEF Int64, MinInt
<1>3. Bucket(b) <=> b \in 1 .. Day /\ Day % b = 0
  <2>1. CASE b <= 0
    BY <1>2, <2>1 DEF Bucket
  <2>2. CASE b > 0
    <3>1. Abs(Day) = Day /\ Abs(b) = b
      BY <1>2, <2>2 DEF Abs
    <3>2. Rem(Day, b) = Day % b
      BY <1>2, <3>1 DEF Rem
    <3>. QED
      BY <1>2, <2>2, <3>2 DEF Bucket
  <2>. QED
    BY <1>2, <2>1, <2>2
<1>4. CASE ~Bucket(b)
  BY <1>1, <1>2, <1>3, <1>4 DEF Truncate
<1>5. CASE Bucket(b)
  <2>0. b > 0 /\ Day % b = 0
    BY <1>2, <1>3, <1>5
  <2>1. Truncate(tv, bv) = Ok("Time", Wrap(Start(t, b)))
    BY <1>1, <1>5, <2>0, FloorDivFloors DEF Truncate
  <2>2. /\ Start(t, b) \div Day = t \div Day
        /\ Start(t, b) \in (t - b + 1) .. t /\ Start(t, b) % b = 0
    BY <1>2, <2>0, StartOfBucket
  <2>3. ASSUME Start(t, b) >= MinInt PROVE Wrap(Start(t, b)) = Start(t, b)
    BY <1>2, <2>2, <2>3, WrapIdentity DEF Int64, MinInt
  <2>. QED
    BY <1>3, <1>5, <2>1, <2>2, <2>3
<1>. QED
  BY <1>4, <1>5

\* t.truncate(bucket) is the start of t's bucket, for integers of any width and
\* a day of any length (time.go:157-173).
THEOREM TruncateIsFloor == Spec => []TruncateFloors
<1>1. Static => TruncateFloors
  <2>. SUFFICES ASSUME Static, Pair("Time", "Duration")
                PROVE  LET t == Waiting.value[2]
                           b == value[2]
                           result == Truncate(Waiting.value, value)
                       IN IF b \notin 1 .. Day \/ Day % b # 0 THEN result = InvalidArgument
                          ELSE Start(t, b) >= MinInt =>
                               /\ result = Ok("Time", Start(t, b))
                               /\ Start(t, b) \div Day = t \div Day
                               /\ Start(t, b) \in (t - b + 1) .. t /\ Start(t, b) % b = 0
    BY DEF TruncateFloors
  <2>1. Typed(Waiting.value, "Time") /\ Typed(value, "Duration")
    BY WaitingTyped DEF Pair, HasValue, Static, ValueTyped, Valid
  <2>2. Waiting.value[2] \in Int64 /\ value[2] \in Int64
    BY <2>1, TypedIs DEF IntTypes
  <2>. QED
    BY <2>1, <2>2, TruncateStarts
<1>2. StaticInv => Static
  BY DEF StaticInv
<1>. QED
  BY <1>1, <1>2, StaticInit, StaticNext, PTL DEF Spec

-----------------------------------------------------------------------------
(* Divisions *)

\* The rules that divide take numbers, or a duration first.
LEMMA DivisionRules ==
    ASSUME NEW r \in Rules, r.op \in {"/", "%"}
    PROVE  \E lt, rt, t :
              /\ r = Infix(r.op, lt, rt, t)
              /\ \/ lt \in Numeric /\ rt \in Numeric
                 \/ lt = "Duration" /\ rt \in Numeric \cup {"Duration"} /\ r.op = "/"
<1>1. ASSUME NEW k, NEW o, NEW p, NEW operands, NEW t, p \notin {"/", "%"}
      PROVE  r # Rule(k, o, p, operands, t)
  BY <1>1, RuleFields
<1>2. ASSUME NEW p, NEW lt, NEW rt, NEW t, r = Infix(p, lt, rt, t)
      PROVE  r.op = p
  BY <1>2, InfixFields
<1>3. ASSUME NEW p, NEW lt, NEW rt, NEW t, p \notin {"/", "%"}
      PROVE  r # Infix(p, lt, rt, t)
  BY <1>2, <1>3
<1>4. CASE r \in NumericRules
  <2>1. PICK op \in Arithmetics \cup Comparisons, lt \in Numeric, rt \in Numeric :
           \E t : r = Infix(op, lt, rt, t)
    BY <1>4 DEF NumericRules
  <2>. QED
    BY <1>2, <2>1
<1>5. CASE r \in TimeScalings
  <2>1. PICK op \in {"*", "/"}, n \in Numeric :
           r = Infix("*", n, "Duration", "Duration") \/ r = Infix(op, "Duration", n, "Duration")
    BY <1>5 DEF TimeScalings
  <2>2. r # Infix("*", n, "Duration", "Duration")
    BY <1>3
  <2>3. r = Infix(op, "Duration", n, "Duration") /\ r.op = op
    BY <1>2, <2>1, <2>2
  <2>. QED
    BY <2>3
<1>6. CASE r = Infix("/", "Duration", "Duration", "Float")
  BY <1>2, <1>6
<1>7. r \notin ScalarRules \cup TimeComparisons
  BY <1>3 DEF ScalarRules, TimeComparisons, Comparisons
<1>8. CASE r \in StdMath
  <2>1. r # Rule("unary", "", "!", <<"Bool">>, "Bool")
    <3>. DEFINE p == "!"
    <3>1. p \notin {"/", "%"}
      OBVIOUS
    <3>. HIDE DEF p
    <3>2. r # Rule("unary", "", p, <<"Bool">>, "Bool")
      BY <1>1, <3>1
    <3>. QED
      BY <3>2 DEF p
  <2>2. \A t \in Numeric : r # Rule("unary", "", "-", <<t>>, t)
    <3>. DEFINE p == "-"
    <3>1. p \notin {"/", "%"}
      OBVIOUS
    <3>. HIDE DEF p
    <3>2. \A t \in Numeric : r # Rule("unary", "", p, <<t>>, t)
      BY <1>1, <3>1
    <3>. QED
      BY <3>2 DEF p
  <2>. QED
    BY <1>4, <1>7, <1>8, <2>1, <2>2 DEF StdMath
<1>9. CASE r \in TimeOperators
  <2>1. r # Rule("unary", "", "-", <<"Duration">>, "Duration")
    <3>. DEFINE p == "-"
    <3>1. p \notin {"/", "%"}
      OBVIOUS
    <3>. HIDE DEF p
    <3>2. r # Rule("unary", "", p, <<"Duration">>, "Duration")
      BY <1>1, <3>1
    <3>. QED
      BY <3>2 DEF p
  <2>2. \A lt, rt, t : r # Infix("-", lt, rt, t) /\ r # Infix("+", lt, rt, t)
    BY <1>3
  <2>. QED
    BY <1>5, <1>6, <1>7, <1>9, <2>1, <2>2 DEF TimeOperators
<1>10. r # Coercion
  <2>1. Coercion.op = ""
    BY DEF Coercion, Rule
  <2>. QED
    BY <2>1
<1>11. \A k, o, p, operands, t : r = Rule(k, o, p, operands, t) => p \in {"/", "%"}
  BY <1>1
<1>12. r \notin MathRules
  <2>. SUFFICES ASSUME r \in MathRules PROVE FALSE
    OBVIOUS
  <2>1. ASSUME NEW op \in {"PI", "E"} PROVE r # Rule("member", "math", op, << >>, "Float")
    BY <1>11
  <2>2. ASSUME NEW op \in {"abs", "sqrt", "floor", "ceil", "round", "trunc", "sign", "log"}
        PROVE  r # Rule("call", "math", op, <<"Float">>, "Float")
    BY <1>11
  <2>3. ASSUME NEW op \in {"max", "min", "pow"}
        PROVE  r # Rule("call", "math", op, <<"Float", "Float">>, "Float")
    BY <1>11
  <2>. QED
    BY <2>1, <2>2, <2>3, Zenon DEF MathRules
<1>13. r \notin TimeMembers
  <2>. SUFFICES ASSUME r \in TimeMembers PROVE FALSE
    OBVIOUS
  <2>1. /\ \A u \in DOMAIN Unit : u \notin {"/", "%"}
        /\ \A d \in DOMAIN Weekday : d \notin {"/", "%"}
        /\ \A u \in DOMAIN Total : u \notin {"/", "%"}
        /\ \A c \in ComponentNames : c \notin {"/", "%"}
    BY MemberNames DEF UnitNames, DayNames, TotalNames, ComponentNames
  <2>2. /\ \A u \in DOMAIN Unit : r # Rule("member", "time", u, << >>, "Duration")
        /\ \A d \in DOMAIN Weekday : r # Rule("member", "time", d, << >>, "Integer")
        /\ \A c \in ComponentNames : r # Rule("member", "Time", c, <<"Time">>, "Integer")
        /\ \A u \in DOMAIN Total : r # Rule("member", "Duration", u, <<"Duration">>, "Float")
    BY <1>11, <2>1, Zenon
  <2>3. "from_unix_ms" \notin {"/", "%"} /\ "milliseconds" \notin {"/", "%"}
        /\ "abs" \notin {"/", "%"} /\ "truncate" \notin {"/", "%"}
    OBVIOUS
  <2>4. /\ r # Rule("call", "time", "from_unix_ms", <<"Integer">>, "Time")
        /\ r # Rule("member", "Duration", "milliseconds", <<"Duration">>, "Integer")
        /\ r # Rule("member", "Duration", "abs", <<"Duration">>, "Duration")
        /\ r # Rule("call", "Time", "truncate", <<"Time", "Duration">>, "Time")
    BY <1>11, <2>3, Zenon
  <2>. QED
    BY <2>2, <2>4, Zenon DEF TimeMembers, ComponentNames
<1>. QED
  BY <1>8, <1>9, <1>10, <1>12, <1>13 DEF Rules

\* A value is not a failure.
LEMMA OkIsNoFailure ==
    ASSUME NEW t, NEW d
    PROVE  Ok(t, d) # DivisionByZero
<1>1. Ok(t, d).is = "ok" /\ DivisionByZero.is = "DIVISION_BY_ZERO"
  BY DEF Ok, DivisionByZero, Fails
<1>. QED
  BY <1>1

\* Numbers are divided unless the divisor is zero.
LEMMA NumericDivides ==
    ASSUME NEW op \in {"/", "%"}, NEW lt \in Numeric, NEW rt \in Numeric,
           NEW l, NEW v, Typed(l, lt), Typed(v, rt)
    PROVE  NumericBinary(op, l, v) = DivisionByZero <=> IsZeroValue(v)
<1>1. Accepts(<<Numeric, Numeric>>, <<l, v>>)
  BY TypedIs, AcceptsTwo
<1>2. CASE lt = "Integer" /\ rt = "Integer"
  <2>. DEFINE a == l[2]
              b == v[2]
  <2>1. BothInt(l, v) /\ (IsZeroValue(v) <=> b = 0)
    BY <1>2, TypedIs DEF BothInt, IsZeroValue
  <2>2. NumericBinary(op, l, v) = IntBinary(op, a, b)
    BY <1>1, <2>1 DEF NumericBinary
  <2>. HIDE DEF a, b
  <2>3. b = 0 => IntBinary(op, a, b) = DivisionByZero
    BY DEF IntBinary
  <2>4. b # 0 => \E t, d : IntBinary(op, a, b) = Ok(t, d)
    BY DEF IntBinary
  <2>. QED
    BY <2>1, <2>2, <2>3, <2>4, OkIsNoFailure
<1>3. CASE ~(lt = "Integer" /\ rt = "Integer")
  <2>. DEFINE x == AsFloat(l)
              y == AsFloat(v)
  <2>1. NumericBinary(op, l, v) = FloatBinary(op, x, y)
    BY <1>1, <1>3, TypedIs DEF NumericBinary, BothInt
  <2>2. IsZero(y) <=> IsZeroValue(v)
    BY AsFloatIs
  <2>. HIDE DEF x, y
  <2>3. IsZero(y) => FloatBinary(op, x, y) = DivisionByZero
    BY DEF FloatBinary
  <2>4. ~IsZero(y) => \E t, d : FloatBinary(op, x, y) = Ok(t, d)
    BY DEF FloatBinary
  <2>. QED
    BY <2>1, <2>2, <2>3, <2>4, OkIsNoFailure
<1>. QED
  BY <1>2, <1>3

\* So are durations.
LEMMA DurationDivides ==
    ASSUME NEW rt \in Numeric \cup {"Duration"},
           NEW l, NEW v, Typed(l, "Duration"), Typed(v, rt)
    PROVE  /\ rt = "Duration" => (Ratio(l, v) = DivisionByZero <=> IsZeroValue(v))
           /\ rt \in Numeric => (DivisionByZero \in Divided(rt, l, v) <=> IsZeroValue(v))
<1>1. CASE rt = "Duration"
  <2>1. Accepts(<<{"Duration"}, {"Duration"}>>, <<l, v>>)
    BY <1>1, TypedIs, AcceptsTwo
  <2>2. IsZeroValue(v) <=> v[2] = 0
    BY <1>1, TypedIs DEF IsZeroValue
  <2>3. rt \notin Numeric
    BY <1>1 DEF Numeric
  <2>. QED
    BY <1>1, <2>1, <2>2, <2>3, OkIsNoFailure DEF Ratio
<1>2. CASE rt \in Numeric
  <2>1. Divided(rt, l, v) = IF IsZero(AsFloat(v)) THEN {DivisionByZero}
                            ELSE Milliseconds(Over(ToFloat(l[2]), AsFloat(v)))
    BY <1>2, DividedIs
  <2>4. rt # "Duration"
    BY <1>2 DEF Numeric
  <2>2. IsZero(AsFloat(v)) <=> IsZeroValue(v)
    BY <1>2, AsFloatIs
  <2>3. \A x : DivisionByZero \notin Milliseconds(x)
    BY OkIsNoFailure DEF Milliseconds
  <2>. QED
    BY <2>1, <2>2, <2>3, <2>4
<1>. QED
  BY <1>1, <1>2

\* A quotient or remainder fails exactly when its divisor is zero: converting an
\* integer to a float of any precision makes no divisor zero that is not
\* (std_math.go:120-161, time_operators.go:70-100).
THEOREM ZeroDivisors == Spec => []ZeroDivisorsFail
<1>1. StaticInv => ZeroDivisorsFail
  <2>. SUFFICES ASSUME Static, NEW r \in Rules, r.op \in {"/", "%"}, Takes(r)
                PROVE  DivisionByZero \in EvalFn(r, Args(2)) <=> IsZeroValue(value)
    BY DEF StaticInv, ZeroDivisorsFail
  <2>1. PICK lt, rt, t :
              /\ r = Infix(r.op, lt, rt, t)
              /\ \/ lt \in Numeric /\ rt \in Numeric
                 \/ lt = "Duration" /\ rt \in Numeric \cup {"Duration"} /\ r.op = "/"
    BY DivisionRules
  <2>. DEFINE op == r.op
              l == Args(2)[1]
  <2>2. r.kind = "binary" /\ Len(r.operands) = 2 /\ r.operands[1] = lt /\ r.operands[2] = rt
        /\ DOMAIN r.operands = {1, 2}
    <3>1. Infix(op, lt, rt, t).operands = <<lt, rt>>
      BY DEF Infix, Rule
    <3>2. Len(r.operands) = 2
      BY <2>1, <3>1
    <3>. QED
      BY <2>1, <3>2, InfixFields
  <2>3. TypedArgs(r, Args(2))
    BY <2>2, TakesTyped
  <2>4. Args(2)[2] = value
    BY DEF Args
  <2>5. Typed(l, lt) /\ Typed(value, rt)
    BY <2>2, <2>3, <2>4, Zenon DEF TypedArgs
  <2>6. EvalFn(r, Args(2)) = BinaryFn(Infix(op, lt, rt, t), l, value)
    <3>1. EvalFn(r, Args(2)) = BinaryFn(r, Args(2)[1], Args(2)[2])
      BY <2>2, Zenon DEF EvalFn
    <3>. QED
      BY <2>1, <2>4, <3>1, Zenon
  <2>7. op \notin Comparisons /\ op # "*"
    BY DEF Comparisons
  <2>. HIDE DEF l, op
  <2>8. CASE lt \in Numeric /\ rt \in Numeric
    <3>1. EvalFn(r, Args(2)) = {NumericBinary(op, l, value)}
      BY <2>6, <2>7, <2>8, BinaryFnIs
    <3>. QED
      BY <2>5, <2>8, <3>1, NumericDivides DEF op
  <2>9. CASE lt = "Duration" /\ rt \in Numeric \cup {"Duration"} /\ op = "/"
    <3>1. ~({lt, rt} \subseteq Numeric) /\ ~({lt, rt} \subseteq {"String", "Bool"})
      BY <2>9 DEF Numeric
    <3>2. CASE rt = "Duration"
      <4>1. EvalFn(r, Args(2)) = {Ratio(l, value)}
        BY <2>6, <2>7, <2>9, <3>1, <3>2, BinaryFnIs
      <4>. QED
        BY <2>5, <2>9, <3>2, <4>1, DurationDivides
    <3>3. CASE rt # "Duration"
      <4>1. EvalFn(r, Args(2)) = Divided(rt, l, value)
        BY <2>6, <2>7, <2>9, <3>1, <3>3, BinaryFnIs
      <4>. QED
        BY <2>5, <2>9, <3>3, <4>1, DurationDivides
    <3>. QED
      BY <3>2, <3>3
  <2>. QED
    BY <2>1, <2>8, <2>9 DEF op
<1>. QED
  BY <1>1, StaticInit, StaticNext, PTL DEF Spec

-----------------------------------------------------------------------------
(* Scaled durations *)

\* What the two functions compute on operands of their types.
LEMMA ScaledIs ==
    ASSUME NEW l, NEW r, NEW t \in Numeric, Typed(l, "Duration"), Typed(r, t)
    PROVE  /\ Scaled(l, r) = Milliseconds(Times(ToFloat(l[2]), AsFloat(r)))
           /\ Divided(t, l, r) = IF IsZero(AsFloat(r)) THEN {DivisionByZero}
                                 ELSE Milliseconds(Over(ToFloat(l[2]), AsFloat(r)))
<1>1. Accepts(<<{"Duration"}, Numeric>>, <<l, r>>) /\ TypeOf(l) = "Duration"
  BY TypedIs, AcceptsTwo
<1>2. Scaled(l, r) = Milliseconds(Times(ToFloat(l[2]), AsFloat(r)))
  BY <1>1, Zenon DEF Scaled
<1>. QED
  BY <1>2, DividedIs

\* A duration is scaled by a small integer without an error.
LEMMA ScalesExactly ==
    ASSUME NEW l, NEW r, Typed(l, "Duration"), Typed(r, "Integer")
    PROVE  LET d == l[2]
               n == r[2]
           IN /\ Small(d * n) => Scaled(l, r) = {Ok("Duration", d * n)}
              /\ Small(d) /\ Small(n) /\ n # 0 =>
                    Divided("Integer", l, r) = {Ok("Duration", Nearest(d, n))}
<1>. DEFINE d == l[2]
            n == r[2]
<1>1. d \in Int64 /\ n \in Int64 /\ "Integer" \in Numeric /\ n \in Int
  BY TypedIs, IntsAre DEF IntTypes, Numeric
<1>2. AsFloat(r) = ToFloat(n)
  BY TypedIs DEF AsFloat
<1>3. /\ Scaled(l, r) = Milliseconds(Times(ToFloat(d), AsFloat(r)))
      /\ Divided("Integer", l, r) = IF IsZero(AsFloat(r)) THEN {DivisionByZero}
                                    ELSE Milliseconds(Over(ToFloat(d), AsFloat(r)))
  BY <1>1, ScaledIs
<1>. HIDE DEF d, n
<1>4. ASSUME Small(d * n) PROVE Scaled(l, r) = {Ok("Duration", d * n)}
  BY <1>1, <1>2, <1>3, <1>4, ProductExact DEF Small
<1>5. ASSUME Small(d), Small(n), n # 0
      PROVE  Divided("Integer", l, r) = {Ok("Duration", Nearest(d, n))}
  <2>1. ~IsZero(AsFloat(r))
    BY <1>1, <1>2, <1>5, ToFloatIs
  <2>. DEFINE K == (2 * Abs(d) + Abs(n)) \div (2 * Abs(n))
  <2>2. Nearest(d, n) = WithSign((d < 0) # (n < 0), K)
    <3>1. Nearest(d, n) = IF (d < 0) = (n < 0) THEN K ELSE -K
      BY DEF Nearest
    <3>. HIDE DEF K
    <3>. QED
      BY <3>1, Zenon DEF WithSign
  <2>3. Milliseconds(Over(ToFloat(d), ToFloat(n))) =
          {Ok("Duration", WithSign((d < 0) # (n < 0), K))}
    BY <1>1, <1>5, QuotientExact DEF Small
  <2>. HIDE DEF K
  <2>. QED
    BY <1>2, <1>3, <2>1, <2>2, <2>3
<1>. QED
  BY <1>4, <1>5 DEF d, n

\* What is next to a ratio of absolute values is next to the ratio.
LEMMA NextToSigned ==
    ASSUME NEW a \in BOOLEAN, NEW b \in BOOLEAN, NEW N \in Nat, NEW e \in Nat, NEW k \in Nat,
           k * e < N + e, N < k * e + e
    PROVE  Abs(WithSign(a # b, k) * WithSign(b, e) - WithSign(a, N)) < e
<1>. DEFINE v == k * e
            p(s, t) == WithSign(s # t, k) * WithSign(t, e)
<1>1. v \in Nat /\ v < N + e /\ N < v + e
  BY NatProduct
<1>2. \A s, t \in BOOLEAN : p(s, t) = WithSign(s, v)
  <2>1. (-k) * (-e) = k * e /\ (-k) * e = -(k * e) /\ k * (-e) = -(k * e)
    BY Z3
  <2>2. /\ p(TRUE, TRUE) = WithSign(TRUE, v) /\ p(TRUE, FALSE) = WithSign(TRUE, v)
        /\ p(FALSE, TRUE) = WithSign(FALSE, v) /\ p(FALSE, FALSE) = WithSign(FALSE, v)
    BY <2>1 DEF WithSign
  <2>. HIDE DEF p, v
  <2>. QED
    BY <2>2, Zenon
<1>. HIDE DEF v
<1>3. \A s \in BOOLEAN : Abs(WithSign(s, v) - WithSign(s, N)) < e
  <2>1. Abs(v - N) < e /\ Abs((-v) - (-N)) < e
    BY <1>1 DEF Abs
  <2>. QED
    BY <2>1, Zenon DEF WithSign
<1>4. p(a, b) = WithSign(a, v)
  BY <1>2, Zenon
<1>. HIDE DEF p
<1>5. Abs(p(a, b) - WithSign(a, N)) < e
  BY <1>3, <1>4, Zenon
<1>. QED
  BY <1>5 DEF p

\* A float scales a small duration to one of the milliseconds around the result.
LEMMA ScalesNextTo ==
    ASSUME NEW l, NEW r, Typed(l, "Duration"), Typed(r, "Float"),
           Small(l[2]), IsFinite(r[2])
    PROVE  /\ IsNextTo(Scaled(l, r), l[2] * Signed(r[2]), Scale)
           /\ ~IsZero(r[2]) => IsNextTo(Divided("Float", l, r), l[2] * Scale, Signed(r[2]))
<1>. DEFINE d == l[2]
            x == r[2]
            D == Abs(d)
            s == d < 0
            t == x.neg
            m == x.mag
<1>1. d \in Int /\ D \in Nat /\ 2 * D < Precision /\ D < Precision /\ s \in BOOLEAN
  <2>1. d \in Int64 /\ Int64 \subseteq Int
    BY TypedIs, IntsAre DEF IntTypes
  <2>2. D \in Nat /\ Precision \in Nat
    BY <2>1, AbsNat, MagnitudeIs
  <2>3. 2 * D < Precision
    BY DEF Small
  <2>4. s \in BOOLEAN
    OBVIOUS
  <2>. HIDE DEF d, D, s
  <2>. QED
    BY <2>1, <2>2, <2>3, <2>4
<1>2. x \in Float64 /\ AsFloat(r) = x
  BY TypedIs DEF AsFloat
<1>3. t \in BOOLEAN /\ m \in Nat /\ x = Finite(t, m)
  BY <1>2, FloatIs
<1>4. Scaled(l, r) = Milliseconds(Times(ToFloat(d), x))
      /\ Divided("Float", l, r) = IF IsZero(x) THEN {DivisionByZero}
                                  ELSE Milliseconds(Over(ToFloat(d), x))
  BY <1>2, ScaledIs DEF Numeric
<1>5. ToFloat(d) = Finite(s, D * Scale)
  BY <1>1, ToFloatExact
<1>6. Signed(x) = WithSign(t, m) /\ d = WithSign(s, D) /\ (IsZero(x) <=> m = 0)
  <2>1. d = WithSign(s, D)
    BY <1>1 DEF WithSign, Abs
  <2>. QED
    BY <2>1 DEF Signed, WithSign, IsZero
<1>7. Scale \in Nat /\ Scale > 0
  BY ScaleIs
<1>. HIDE DEF d, x, D, s, t, m
<1>8. IsNextTo(Scaled(l, r), d * Signed(x), Scale)
  <2>. DEFINE neg == s # t
              N == D * m
  <2>1. neg \in BOOLEAN /\ N \in Nat
    BY <1>1, <1>3, NatProduct
  <2>2. d * Signed(x) = WithSign(neg, N) /\ Abs(d * Signed(x)) = N
    <3>1. \A a, b \in BOOLEAN : WithSign(a, D) * WithSign(b, m) = WithSign(a # b, N)
      <4>1. (-D) * (-m) = N /\ (-D) * m = -N /\ D * (-m) = -N /\ D * m = N
        BY <1>1, <1>3, Z3
      <4>. HIDE DEF N
      <4>2. /\ WithSign(TRUE, D) * WithSign(TRUE, m) = WithSign(TRUE # TRUE, N)
            /\ WithSign(TRUE, D) * WithSign(FALSE, m) = WithSign(TRUE # FALSE, N)
            /\ WithSign(FALSE, D) * WithSign(TRUE, m) = WithSign(FALSE # TRUE, N)
            /\ WithSign(FALSE, D) * WithSign(FALSE, m) = WithSign(FALSE # FALSE, N)
        BY <4>1 DEF WithSign
      <4>. QED
        BY <4>2, Zenon
    <3>2. d * Signed(x) = WithSign(neg, N)
      BY <1>1, <1>3, <1>6, <3>1, Zenon
    <3>3. Abs(WithSign(neg, N)) = N
      <4>. HIDE DEF N, neg
      <4>. QED
        BY <2>1 DEF Abs, WithSign
    <3>. QED
      BY <3>2, <3>3
  <2>3. Times(ToFloat(d), x) = Round(neg, N * Scale, Scale)
    <3>1. Times(ToFloat(d), x) = Round(neg, (D * Scale) * m, Scale)
      BY <1>1, <1>3, <1>5, TimesIs
    <3>2. (D * Scale) * m = N * Scale
      BY <1>1, <1>3, <1>7, Z3
    <3>. QED
      BY <3>1, <3>2
  <2>4. Abs(Scale) = Scale
    BY <1>7 DEF Abs
  <2>. HIDE DEF neg, N
  <2>5. ASSUME SmallRatio(d * Signed(x), Scale)
        PROVE  \A y \in Scaled(l, r) : y.is = "ok" /\ Abs(y.value[2] * Scale - d * Signed(x)) < Scale
    <3>1. 2 * (N + Scale) < Precision * Scale
      BY <2>2, <2>4, <2>5 DEF SmallRatio
    <3>2. PICK k \in Nat : /\ Milliseconds(Round(neg, N * Scale, Scale)) =
                                {Ok("Duration", WithSign(neg, k))}
                           /\ k * Scale < N + Scale /\ N < k * Scale + Scale
      BY <1>7, <2>1, <3>1, RoundsNextTo
    <3>3. Scaled(l, r) = {Ok("Duration", WithSign(neg, k))}
      BY <1>4, <2>3, <3>2
    <3>4. Abs(WithSign(neg, k) * Scale - WithSign(neg, N)) < Scale
      <4>1. \A b \in BOOLEAN :
              Abs(WithSign(neg # b, k) * WithSign(b, Scale) - WithSign(neg, N)) < Scale
        BY <1>7, <2>1, <3>2, NextToSigned
      <4>2. WithSign(FALSE, Scale) = Scale /\ (neg # FALSE) = neg
        BY <2>1 DEF WithSign
      <4>. QED
        BY <4>1, <4>2, Zenon
    <3>. QED
      BY <2>2, <3>3, <3>4, OkIs
  <2>. QED
    BY <2>4, <2>5 DEF IsNextTo
<1>9. ASSUME ~IsZero(x) PROVE IsNextTo(Divided("Float", l, r), d * Scale, Signed(x))
  <2>. DEFINE neg == s # t
              N == D * Scale
  <2>1. neg \in BOOLEAN /\ N \in Nat /\ m > 0
    BY <1>1, <1>3, <1>6, <1>7, <1>9, NatProduct
  <2>2. d * Scale = WithSign(s, N) /\ Abs(d * Scale) = N
    <3>1. \A a \in BOOLEAN : WithSign(a, D) * Scale = WithSign(a, N)
      <4>1. (-D) * Scale = -N
        BY <1>1, <1>7, Z3
      <4>2. WithSign(TRUE, D) * Scale = WithSign(TRUE, N) /\ WithSign(FALSE, D) * Scale = WithSign(FALSE, N)
        BY <4>1 DEF WithSign
      <4>. QED
        BY <4>2, Zenon
    <3>2. d * Scale = WithSign(s, N)
      BY <1>1, <1>6, <3>1, Zenon
    <3>3. Abs(WithSign(s, N)) = N
      <4>. HIDE DEF N
      <4>. QED
        BY <2>1 DEF Abs, WithSign
    <3>. QED
      BY <3>2, <3>3
  <2>3. Over(ToFloat(d), x) = Round(neg, N * Scale, m)
    BY <1>1, <1>3, <1>5, OverIs
  <2>4. Abs(Signed(x)) = m
    BY <1>3, <1>6 DEF Abs, WithSign
  <2>. HIDE DEF N
  <2>5. ASSUME SmallRatio(d * Scale, Signed(x))
        PROVE  \A y \in Divided("Float", l, r) :
                  y.is = "ok" /\ Abs(y.value[2] * Signed(x) - d * Scale) < m
    <3>1. 2 * (N + m) < Precision * m
      BY <2>2, <2>4, <2>5 DEF SmallRatio
    <3>2. PICK k \in Nat : /\ Milliseconds(Round(neg, N * Scale, m)) =
                                {Ok("Duration", WithSign(neg, k))}
                           /\ k * m < N + m /\ N < k * m + m
      <4>. HIDE DEF neg
      <4>. QED
        BY <1>3, <2>1, <3>1, RoundsNextTo
    <3>3. Divided("Float", l, r) = {Ok("Duration", WithSign(neg, k))}
      BY <1>4, <1>9, <2>3, <3>2
    <3>4. Abs(WithSign(neg, k) * WithSign(t, m) - WithSign(s, N)) < m
      BY <1>1, <1>3, <2>1, <3>2, NextToSigned
    <3>. HIDE DEF neg
    <3>. QED
      BY <1>6, <2>2, <3>3, <3>4, OkIs
  <2>. QED
    BY <2>4, <2>5 DEF IsNextTo
<1>. QED
  BY <1>8, <1>9 DEF d, x

\* A duration is scaled like its opposite.
LEMMA ScalesAlike ==
    ASSUME NEW l, NEW r, Typed(l, "Duration"), Typed(r, "Float"),
           NEW o, o = <<"Duration", Wrap(-l[2])>>, l[2] # MinInt
    PROVE  /\ AreOpposite(Scaled(l, r), Scaled(o, r))
           /\ AreOpposite(Divided("Float", l, r), Divided("Float", o, r))
<1>. DEFINE g == AsFloat(r)
            d == l[2]
            e == Wrap(-d)
<1>0. d \in Int64 /\ d # MinInt
  BY TypedIs DEF IntTypes
<1>. HIDE DEF d
<1>1. o[2] = e /\ e \in Int64
  <2>1. e \in Int64
    BY <1>0, OppositeToFloat
  <2>. QED
    BY <2>1 DEF d
<1>2. Typed(l, "Duration") /\ Typed(o, "Duration") /\ "Float" \in Numeric
  <2>. HIDE DEF e
  <2>1. Datum(e, "Duration") /\ o = <<"Duration", e>>
    BY <1>1, DatumIs DEF IntTypes, d
  <2>. QED
    BY <1>1, <2>1 DEF Typed, Numeric
<1>3. g \in Float64
  BY <1>2, AsFloatIs
<1>4. /\ Scaled(l, r) = Milliseconds(Times(ToFloat(d), g))
      /\ Scaled(o, r) = Milliseconds(Times(ToFloat(e), g))
      /\ Divided("Float", l, r) = IF IsZero(g) THEN {DivisionByZero}
                                  ELSE Milliseconds(Over(ToFloat(d), g))
      /\ Divided("Float", o, r) = IF IsZero(g) THEN {DivisionByZero}
                                  ELSE Milliseconds(Over(ToFloat(e), g))
  BY <1>1, <1>2, ScaledIs DEF d
<1>. HIDE DEF g
<1>5. AreOpposite(Scaled(l, r), Scaled(o, r))
  <2>. DEFINE p == Times(ToFloat(d), g)
              q == Times(ToFloat(e), g)
  <2>1. p \in Float64 /\ Alike(p, q)
    BY <1>0, <1>3, TimesAlike
  <2>2. Scaled(l, r) = Milliseconds(p) /\ Scaled(o, r) = Milliseconds(q)
    BY <1>4
  <2>. HIDE DEF p, q
  <2>. QED
    BY <2>1, <2>2, AlikeMilliseconds DEF AreOpposite
<1>6. CASE IsZero(g)
  <2>1. Divided("Float", l, r) = {DivisionByZero} /\ DivisionByZero.is # "ok"
    BY <1>4, <1>6 DEF DivisionByZero, Fails
  <2>. QED
    BY <1>5, <2>1 DEF AreOpposite
<1>7. CASE ~IsZero(g)
  <2>. DEFINE p == Over(ToFloat(d), g)
              q == Over(ToFloat(e), g)
  <2>1. p \in Float64 /\ Alike(p, q)
    BY <1>0, <1>3, <1>7, OverAlike
  <2>2. Divided("Float", l, r) = Milliseconds(p) /\ Divided("Float", o, r) = Milliseconds(q)
    BY <1>4, <1>7
  <2>. HIDE DEF p, q
  <2>3. AreOpposite(Divided("Float", l, r), Divided("Float", o, r))
    BY <2>1, <2>2, AlikeMilliseconds DEF AreOpposite
  <2>. QED
    BY <1>5, <2>3
<1>. QED
  BY <1>6, <1>7

\* While the numbers are less than half of what a float counts exactly, a duration
\* is multiplied by an integer without an error and divided to the nearest
\* millisecond, halves away from zero, although the functions go through floats
\* that are rounded twice, and a float takes it to a millisecond next to the exact
\* result; of any size, it is scaled like its opposite
\* (time_operators.go:70-90, 127-175).
THEOREM Scalings == Spec => []ScalingRounds
<1>1. Static => ScalingRounds
  <2>. SUFFICES ASSUME Static PROVE ScalingRounds
    OBVIOUS
  <2>. DEFINE l == Waiting.value
              d == l[2]
              x == value[2]
              o == <<"Duration", Wrap(-d)>>
  <2>1. ASSUME NEW lt, NEW rt, Pair(lt, rt)
        PROVE  Typed(l, lt) /\ Typed(value, rt)
    BY <2>1, WaitingTyped DEF Pair, HasValue, Static, ValueTyped, Valid
  <2>2. ASSUME Pair("Duration", "Integer")
        PROVE  /\ Small(d * x) => Scaled(l, value) = {Ok("Duration", d * x)}
               /\ Small(d) /\ Small(x) /\ x # 0 =>
                     Divided("Integer", l, value) = {Ok("Duration", Nearest(d, x))}
    BY <2>1, <2>2, ScalesExactly
  <2>3. ASSUME Pair("Duration", "Float"), Small(d), IsFinite(x)
        PROVE  /\ IsNextTo(Scaled(l, value), d * Signed(x), Scale)
               /\ ~IsZero(x) => IsNextTo(Divided("Float", l, value), d * Scale, Signed(x))
    BY <2>1, <2>3, ScalesNextTo
  <2>4. ASSUME Pair("Duration", "Float"), d # MinInt
        PROVE  /\ AreOpposite(Scaled(l, value), Scaled(o, value))
               /\ AreOpposite(Divided("Float", l, value), Divided("Float", o, value))
    BY <2>1, <2>4, ScalesAlike
  <2>. QED
    BY <2>2, <2>3, <2>4, Zenon DEF ScalingRounds
<1>2. StaticInv => Static
  BY DEF StaticInv
<1>. QED
  BY <1>1, <1>2, StaticInit, StaticNext, PTL DEF Spec
==============================================================================
