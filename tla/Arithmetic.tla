----------------------------- MODULE Arithmetic -----------------------------
(***************************************************************************)
(* What the functions behind the standard rules compute                    *)
(* (registry/std_math.go, stdlib/time.go, stdlib/time_operators.go,        *)
(* stdlib/math.go): integers wrap around, floats are rounded to a few      *)
(* significant bits, some arguments are refused.                           *)
(*                                                                         *)
(* A value carries its type.  An evaluation has a set of outcomes, since Go*)
(* leaves open what a float that fits no integer is converted to, and the  *)
(* transcendental functions are not computed here.                         *)
(***************************************************************************)
EXTENDS Integers, Sequences

CONSTANTS
    MaxInt,     \* the largest integer, 2^63 - 1 in Go
    Precision,  \* 2 to the number of significant bits of a float
    Scale,      \* the inverse of the least positive float, a power of two
    MaxExp,     \* the largest exponent of a float
    Second, Minute, Hour, Day, Week,    \* in milliseconds
    MaxString   \* bound: the length of strings

MinInt == -MaxInt - 1
Int64  == MinInt .. MaxInt

\* The parts of a time of day are integers.
ASSUME IntAssumption   == MaxInt \in Nat /\ MaxInt >= 59
ASSUME UnitAssumption  == {Second, Minute, Hour, Day, Week} \subseteq 1 .. MaxInt
ASSUME FloatAssumption ==
    /\ MaxExp \in Nat /\ MaxString \in Nat
    /\ \E p, s \in 1 .. MaxExp : p <= s /\ Precision = 2^p /\ Scale = 2^s
    /\ Precision <= MaxInt /\ 2 * (MaxInt + 1) * Scale <= Precision * 2^MaxExp

-----------------------------------------------------------------------------
(* Integers *)

Abs(n) == IF n < 0 THEN -n ELSE n

\* Two's complement: the integer in range that differs by a multiple of 2^64.
Wrap(n) == ((n - MinInt) % (2 * (MaxInt + 1))) + MinInt

\* Go's / rounds toward zero; % has the sign of the dividend.
Quo(a, b) == IF (a < 0) = (b < 0) THEN Wrap(Abs(a) \div Abs(b))
             ELSE -(Abs(a) \div Abs(b))
Rem(a, b) == IF a < 0 THEN -(Abs(a) % Abs(b)) ELSE Abs(a) % Abs(b)

\* Fault: the quotient is left as it is rounded.
TowardZero(a, b) == Quo(a, b)

FloorDiv(a, b) ==
    IF Rem(a, b) # 0 /\ (a < 0) # (b < 0) THEN Wrap(Quo(a, b) - 1) ELSE Quo(a, b)

\* The largest multiple of the bucket that is not above t.
Start(t, bucket) == t - (t % bucket)

-----------------------------------------------------------------------------
(***************************************************************************)
(* Floats: a sign and a magnitude in units of 1/Scale with no more         *)
(* significant bits than Precision allows, an infinity, or not a number.   *)
(***************************************************************************)
Magnitude == {m * 2^e : m \in 0 .. Precision - 1, e \in 0 .. MaxExp}

Finite(neg, mag) == [class |-> "finite", neg |-> neg, mag |-> mag]
Inf(neg)         == [class |-> "inf", neg |-> neg, mag |-> 0]
NaN              == [class |-> "nan", neg |-> FALSE, mag |-> 0]

Float64 == [class : {"finite"}, neg : BOOLEAN, mag : Magnitude]
           \cup {Inf(TRUE), Inf(FALSE), NaN}

HalfToEven(n, d) ==
    LET q == n \div d IN
    IF 2 * (n % d) > d \/ (2 * (n % d) = d /\ q % 2 = 1) THEN q + 1 ELSE q

\* n/d with a sign, rounded to the nearest float, in ties to the even one.
Round(neg, n, d) ==
    LET fits == {e \in 0 .. MaxExp : n < Precision * 2^e * d}
        e    == CHOOSE e \in fits : \A f \in fits : e <= f
        mag  == HalfToEven(n, d * 2^e) * 2^e
    IN IF fits = {} \/ mag = Precision * 2^MaxExp THEN Inf(neg) ELSE Finite(neg, mag)

ToFloat(n)  == Round(n < 0, Abs(n) * Scale, 1)
Half        == Finite(FALSE, Scale \div 2)
IsFinite(x) == x.class = "finite"
IsNaN(x)    == x.class = "nan"
IsZero(x)   == IsFinite(x) /\ x.mag = 0
Signed(x)   == IF x.neg THEN -x.mag ELSE x.mag
Negate(x)   == IF IsNaN(x) THEN x ELSE [x EXCEPT !.neg = ~@]

Plus(x, y) ==
    IF IsNaN(x) \/ IsNaN(y) THEN NaN
    ELSE IF ~IsFinite(x) THEN IF IsFinite(y) \/ x = y THEN x ELSE NaN
    ELSE IF ~IsFinite(y) THEN y
    ELSE LET sum == Signed(x) + Signed(y)
         IN Round(sum < 0 \/ (x.neg /\ y.neg), Abs(sum), 1)

Times(x, y) ==
    LET neg == x.neg # y.neg IN
    IF IsNaN(x) \/ IsNaN(y) THEN NaN
    ELSE IF ~IsFinite(x) \/ ~IsFinite(y)
         THEN IF IsZero(x) \/ IsZero(y) THEN NaN ELSE Inf(neg)
    ELSE Round(neg, x.mag * y.mag, Scale)

\* The divisor is not zero.
Over(x, y) ==
    LET neg == x.neg # y.neg IN
    IF IsNaN(x) \/ IsNaN(y) \/ (~IsFinite(x) /\ ~IsFinite(y)) THEN NaN
    ELSE IF ~IsFinite(x) THEN Inf(neg)
    ELSE IF ~IsFinite(y) THEN Finite(neg, 0)
    ELSE Round(neg, x.mag * Scale, y.mag)

Mod(x, y) ==
    IF IsNaN(x) \/ IsNaN(y) \/ ~IsFinite(x) THEN NaN
    ELSE IF ~IsFinite(y) THEN x ELSE Finite(x.neg, x.mag % y.mag)

Less(x, y) ==
    /\ ~IsNaN(x) /\ ~IsNaN(y) /\ x # y
    /\ \/ x = Inf(TRUE) \/ y = Inf(FALSE)
       \/ IsFinite(x) /\ IsFinite(y) /\ Signed(x) < Signed(y)
Equal(x, y) == ~IsNaN(x) /\ ~IsNaN(y) /\ (x = y \/ (IsZero(x) /\ IsZero(y)))

\* Toward zero, or away from it.
Truncated(x) == IF IsFinite(x) THEN Finite(x.neg, x.mag - (x.mag % Scale)) ELSE x
Enlarged(x)  == IF IsFinite(x) /\ x.mag % Scale # 0
                THEN Plus(Truncated(x), Finite(x.neg, Scale)) ELSE x
Floor(x)     == IF x.neg THEN Enlarged(x) ELSE Truncated(x)
Ceil(x)      == IF x.neg THEN Truncated(x) ELSE Enlarged(x)

\* Go leaves open what a float out of range is converted to; the processors give
\* the least integer, the nearest one, or zero.
OutOfRange == {MinInt, 0, MaxInt}
ToInt(x) ==
    LET n == Signed(Truncated(x)) \div Scale IN
    IF IsFinite(x) /\ n \in Int64 THEN {n} ELSE OutOfRange

\* Bound: what a function that is not computed here may return.
Sample == {Inf(TRUE), Finite(TRUE, 0), Finite(FALSE, 1), Finite(FALSE, Scale), Inf(FALSE)}

-----------------------------------------------------------------------------
(* Values and outcomes *)

Value(t) == CASE t \in {"Integer", "Time", "Duration"} -> {t} \X Int64
              [] t = "Float"  -> {t} \X Float64
              [] t = "Bool"   -> {t} \X BOOLEAN
              [] t = "String" -> {t} \X UNION {[1..n -> {"a"}] : n \in 0..MaxString}

TypeOf(v) == v[1]

Ok(t, data) == [is |-> "ok", value |-> <<t, data>>]
Fails(kind) == [is |-> kind]
Panic       == [is |-> "panic"]
DivisionByZero  == Fails("DIVISION_BY_ZERO")
InvalidArgument == Fails("INVALID_ARGUMENT")

Numeric == {"Integer", "Float"}

\* asFloat accepts an Integer, too.
AsFloat(v) == IF TypeOf(v) = "Integer" THEN ToFloat(v[2]) ELSE v[2]

\* The accessors (asTime, asInteger, ...) panic on a value of another type.
Accepts(types, args) ==
    Len(types) = Len(args) /\ \A k \in DOMAIN args : TypeOf(args[k]) \in types[k]

-----------------------------------------------------------------------------
(* registry/std_math.go *)

Compare(op, less, equal, ordered) ==
    CASE op = "==" -> equal
      [] op = "!=" -> ~equal
      [] op = "<"  -> less
      [] op = ">"  -> ordered /\ ~less /\ ~equal
      [] op = "<=" -> less \/ equal
      [] op = ">=" -> ordered /\ ~less

CompareInt(op, a, b) == Compare(op, a < b, a = b, TRUE)
CompareFloat(op, x, y) ==
    Compare(op, Less(x, y), Equal(x, y), ~IsNaN(x) /\ ~IsNaN(y))

IntBinary(op, a, b) ==
    CASE op = "+" -> Ok("Integer", Wrap(a + b))
      [] op = "-" -> Ok("Integer", Wrap(a - b))
      [] op = "*" -> Ok("Integer", Wrap(a * b))
      [] op \in {"/", "%"} /\ b = 0 -> DivisionByZero
      [] op = "/" /\ b # 0 -> Ok("Float", Over(ToFloat(a), ToFloat(b)))
      [] op = "%" /\ b # 0 -> Ok("Integer", Rem(a, b))

FloatBinary(op, x, y) ==
    CASE op = "+" -> Ok("Float", Plus(x, y))
      [] op = "-" -> Ok("Float", Plus(x, Negate(y)))
      [] op = "*" -> Ok("Float", Times(x, y))
      [] op \in {"/", "%"} /\ IsZero(y) -> DivisionByZero
      [] op = "/" /\ ~IsZero(y) -> Ok("Float", Over(x, y))
      [] op = "%" /\ ~IsZero(y) -> Ok("Float", Mod(x, y))

\* Both operands Integer, or both taken for floats.
BothInt(l, r) == TypeOf(l) = "Integer" /\ TypeOf(r) = "Integer"

NumericBinary(op, l, r) ==
    IF ~Accepts(<<Numeric, Numeric>>, <<l, r>>) THEN Panic
    ELSE IF BothInt(l, r) THEN IntBinary(op, l[2], r[2])
    ELSE FloatBinary(op, AsFloat(l), AsFloat(r))

NumericCompare(op, l, r) ==
    IF ~Accepts(<<Numeric, Numeric>>, <<l, r>>) THEN Panic
    ELSE Ok("Bool", IF BothInt(l, r) THEN CompareInt(op, l[2], r[2])
                    ELSE CompareFloat(op, AsFloat(l), AsFloat(r)))

ScalarEq(op, l, r) == Ok("Bool", (l = r) = (op = "=="))

StringConcat(l, r) ==
    IF ~Accepts(<<{"String"}, {"String"}>>, <<l, r>>) THEN Panic
    ELSE Ok("String", l[2] \o r[2])

\* Fault: only integers are negated.
IntegerNegate(v) ==
    IF TypeOf(v) = "Integer" THEN Ok("Integer", Wrap(-v[2])) ELSE Panic

NumericNegate(v) ==
    CASE TypeOf(v) = "Integer" -> Ok("Integer", Wrap(-v[2]))
      [] TypeOf(v) = "Float"   -> Ok("Float", Negate(v[2]))
      [] OTHER                 -> Panic

BoolNot(v) == IF TypeOf(v) = "Bool" THEN Ok("Bool", ~v[2]) ELSE Panic

-----------------------------------------------------------------------------
(* stdlib/time_operators.go *)

\* A sum or difference registered for operands of these types.
TimeSum(op, types, l, r) ==
    IF TypeOf(l) # types[1] \/ TypeOf(r) # types[2] THEN Panic
    ELSE Ok(IF types \in {<<"Time", "Duration">>, <<"Duration", "Time">>} THEN "Time"
            ELSE "Duration",
            Wrap(IF op = "+" THEN l[2] + r[2] ELSE l[2] - r[2]))

TimeCompare(op, t, l, r) ==
    IF TypeOf(l) # t \/ TypeOf(r) # t THEN Panic
    ELSE Ok("Bool", CompareInt(op, l[2], r[2]))

\* Fault: halves are rounded up, whatever the sign.
RoundHalfUp(x) == Floor(Plus(x, Half))

RoundHalfAway(x) ==
    IF Less(x, Finite(FALSE, 0)) THEN Ceil(Plus(x, Negate(Half)))
    ELSE Floor(Plus(x, Half))

Milliseconds(x) == {Ok("Duration", n) : n \in ToInt(RoundHalfAway(x))}

\* Duration times number, in either order.
Scaled(l, r) ==
    LET d == IF TypeOf(l) = "Duration" THEN l ELSE r
        n == IF TypeOf(l) = "Duration" THEN r ELSE l
    IN IF ~Accepts(<<{"Duration"}, Numeric>>, <<d, n>>) THEN {Panic}
       ELSE Milliseconds(Times(ToFloat(d[2]), AsFloat(n)))

\* The rule for a divisor of type t: asInteger is stricter than asFloat.
Divided(t, l, r) ==
    IF ~Accepts(<<{"Duration"}, IF t = "Integer" THEN {t} ELSE Numeric>>, <<l, r>>) THEN {Panic}
    ELSE IF IsZero(AsFloat(r)) THEN {DivisionByZero}
    ELSE Milliseconds(Over(ToFloat(l[2]), AsFloat(r)))

\* Fault: a division by zero gives what floats give.
UncheckedRatio(l, r) ==
    Ok("Float", IF r[2] # 0 THEN Over(ToFloat(l[2]), ToFloat(r[2]))
                ELSE IF l[2] = 0 THEN NaN ELSE Inf(l[2] < 0))

Ratio(l, r) ==
    IF ~Accepts(<<{"Duration"}, {"Duration"}>>, <<l, r>>) THEN Panic
    ELSE IF r[2] = 0 THEN DivisionByZero
    ELSE Ok("Float", Over(ToFloat(l[2]), ToFloat(r[2])))

DurationNegate(v) ==
    IF TypeOf(v) = "Duration" THEN Ok("Duration", Wrap(-v[2])) ELSE Panic

-----------------------------------------------------------------------------
(* stdlib/time.go *)

Bucket(bucket) == bucket > 0 /\ bucket <= Day /\ Rem(Day, bucket) = 0

Truncate(t, bucket) ==
    IF ~Accepts(<<{"Time"}, {"Duration"}>>, <<t, bucket>>) THEN Panic
    ELSE IF ~Bucket(bucket[2]) THEN InvalidArgument
    ELSE Ok("Time", Wrap(FloorDiv(t[2], bucket[2]) * bucket[2]))

\* The parts of a date and of a time of day are those of Go's package time and
\* are not computed.
Component(name, t) == IF name = "unix_ms" THEN {t} ELSE {0, 59}

TimeComponent(name, v) ==
    IF TypeOf(v) # "Time" THEN {Panic}
    ELSE {Ok("Integer", n) : n \in Component(name, v[2])}

DurationTotal(unit, v) ==
    IF TypeOf(v) # "Duration" THEN Panic
    ELSE Ok("Float", Over(ToFloat(v[2]), ToFloat(unit)))

DurationAbs(v) ==
    IF TypeOf(v) # "Duration" THEN Panic
    ELSE Ok("Duration", IF v[2] < 0 THEN Wrap(-v[2]) ELSE v[2])

-----------------------------------------------------------------------------
(* stdlib/math.go *)

MathRound(x) ==
    IF ~IsFinite(x) \/ IsZero(x) THEN x
    ELSE IF x.neg /\ x.mag <= Half.mag THEN Finite(TRUE, 0)
    ELSE Floor(Plus(x, Half))

MathSign(x) ==
    IF IsNaN(x) \/ IsZero(x) THEN x ELSE Finite(x.neg, Scale)

\* The functions of one number that are computed.
MathFunc(name, x) ==
    CASE name = "abs"   -> IF IsNaN(x) THEN x ELSE [x EXCEPT !.neg = FALSE]
      [] name = "floor" -> Floor(x)
      [] name = "ceil"  -> Ceil(x)
      [] name = "trunc" -> Truncated(x)
      [] name = "round" -> MathRound(x)
      [] name = "sign"  -> MathSign(x)

\* sqrt and log are given a domain; NaN is outside of both.
InDomain(name, x) == ~IsNaN(x) /\ \/ Less(Finite(FALSE, 0), x)
                                  \/ name = "sqrt" /\ IsZero(x)

Largest(x, y) ==
    IF Inf(FALSE) \in {x, y} THEN Inf(FALSE)
    ELSE IF IsNaN(x) \/ IsNaN(y) THEN NaN
    ELSE IF IsZero(x) /\ IsZero(y) THEN Finite(x.neg /\ y.neg, 0)
    ELSE IF Less(x, y) THEN y ELSE x

MathUnary(name, v) ==
    IF TypeOf(v) \notin Numeric THEN {Panic}
    ELSE IF name \in {"sqrt", "log"}
         THEN IF InDomain(name, AsFloat(v))
              THEN {Ok("Float", x) : x \in Sample} ELSE {InvalidArgument}
    ELSE {Ok("Float", MathFunc(name, AsFloat(v)))}

MathBinary(name, v, w) ==
    LET x == AsFloat(v)
        y == AsFloat(w)
    IN IF ~Accepts(<<Numeric, Numeric>>, <<v, w>>) THEN {Panic}
       ELSE CASE name = "max" -> {Ok("Float", Largest(x, y))}
              [] name = "min" -> {Ok("Float", Negate(Largest(Negate(x), Negate(y))))}
              [] name = "pow" -> {Ok("Float", z) : z \in Sample \cup {NaN}}
=============================================================================
