-------------------------- MODULE Arithmetic_proofs --------------------------
(***************************************************************************)
(* What the functions of Arithmetic return, for integers and floats of any *)
(* width.                                                                  *)
(*                                                                         *)
(* Integers: sums wrap into range, floorDiv rounds down, and a bucket's    *)
(* start is where its comment says.  Floats: every operation gives a float,*)
(* rounding stays on the side of a float that its argument is on, only     *)
(* zero is converted to zero, and opposites are rounded to opposites; so   *)
(* products and quotients of small integers, computed as floats and rounded*)
(* once more to an integer, are exact or as near as they can be.           *)
(***************************************************************************)
EXTENDS Arithmetic, FunctionTheorems, FiniteSetTheorems, WellFoundedInduction, TLAPS

\* Quotient and remainder by a positive number.
LEMMA DivMod ==
    ASSUME NEW n \in Int, NEW d \in Int, d > 0
    PROVE  n % d \in 0 .. d - 1 /\ n \div d \in Int /\ n = d * (n \div d) + (n % d)
BY Z3

\* Wrapping gives an integer in range.
LEMMA WrapRange == \A n \in Int : Wrap(n) \in Int64
<1>. SUFFICES ASSUME NEW n \in Int PROVE Wrap(n) \in Int64
  OBVIOUS
<1>1. MaxInt \in Nat /\ MaxInt + 1 > 0
  BY IntAssumption
<1>2. (n - MinInt) % (2 * (MaxInt + 1)) \in 0 .. 2 * (MaxInt + 1) - 1
  BY <1>1, DivMod DEF MinInt
<1>. QED
  BY <1>1, <1>2 DEF Wrap, Int64, MinInt

\* Nothing happens to an integer in range.
LEMMA WrapIdentity == \A n \in Int64 : Wrap(n) = n
<1>. SUFFICES ASSUME NEW n \in Int64 PROVE Wrap(n) = n
  OBVIOUS
<1>1. MaxInt \in Nat
  BY IntAssumption
<1>. DEFINE m == n - MinInt  d == 2 * (MaxInt + 1)
<1>2. m \in 0 .. d - 1 /\ d \in Int /\ d > 0
  BY <1>1 DEF Int64, MinInt
<1>3. m % d = m
  <2>. HIDE DEF m, d
  <2>. QED
    BY <1>2
<1>. QED
  BY <1>1, <1>3 DEF Wrap, Int64, MinInt

\* Absolute values.
LEMMA AbsNat == \A n \in Int : Abs(n) \in Nat /\ (n # 0 => Abs(n) > 0) /\ (Abs(n) = n \/ Abs(n) = -n)
BY DEF Abs

\* A remainder is in range.
LEMMA RemRange == \A a, b \in Int64 : b # 0 => Rem(a, b) \in Int64
<1>. SUFFICES ASSUME NEW a \in Int64, NEW b \in Int64, b # 0 PROVE Rem(a, b) \in Int64
  OBVIOUS
<1>1. MaxInt \in Nat /\ a \in Int /\ b \in Int
  BY IntAssumption DEF Int64, MinInt
<1>2. Abs(a) % Abs(b) \in 0 .. Abs(b) - 1
  BY <1>1, DivMod, AbsNat
<1>3. Abs(b) <= MaxInt + 1
  BY <1>1 DEF Abs, Int64, MinInt
<1>. QED
  BY <1>1, <1>2, <1>3, AbsNat DEF Rem, Int64, MinInt

\* A remainder in range is the remainder.
LEMMA DivModUnique ==
    ASSUME NEW n \in Int, NEW d \in Int, d > 0,
           NEW q \in Int, NEW r \in 0 .. d - 1, n = d * q + r
    PROVE  n % d = r /\ n \div d = q
<1>. DEFINE p == n \div d  s == n % d
<1>1. p \in Int /\ s \in 0 .. d - 1 /\ n = d * p + s
  BY DivMod
<1>. HIDE DEF p, s
<1>2. d * (q - p) = s - r
  BY <1>1
<1>3. CASE q - p >= 1
  <2>1. d * (q - p) >= d * 1
    BY <1>1, <1>3, Z3
  <2>. QED
    BY <1>1, <1>2, <2>1
<1>4. CASE q - p <= -1
  <2>1. d * (q - p) <= d * (-1)
    BY <1>1, <1>4, Z3
  <2>. QED
    BY <1>1, <1>2, <2>1
<1>5. q = p
  BY <1>1, <1>3, <1>4
<1>6. s = r
  BY <1>1, <1>2, <1>5
<1>. QED
  BY <1>5, <1>6 DEF p, s

\* n \div d does not exceed n.
LEMMA DivBound ==
    ASSUME NEW n \in Nat, NEW d \in Int, d > 0
    PROVE  n \div d \in 0 .. n /\ (d >= 2 /\ n > 0 => n \div d < n)
<1>. DEFINE q == n \div d
<1>1. q \in Int /\ n % d \in 0 .. d - 1 /\ n = d * q + (n % d)
  BY DivMod
<1>. HIDE DEF q
<1>2. q >= 0
  <2>1. ASSUME q <= -1 PROVE d * q <= d * (-1)
    BY <1>1, <2>1, Z3
  <2>. QED
    BY <1>1, <2>1
<1>3. d * q >= q
  BY <1>1, <1>2, Z3
<1>4. ASSUME d >= 2 PROVE d * q >= 2 * q
  BY <1>1, <1>2, <1>4, Z3
<1>. QED
  BY <1>1, <1>2, <1>3, <1>4 DEF q

\* floorDiv is the quotient rounded down, for a positive divisor.
LEMMA FloorDivFloors ==
    ASSUME NEW t \in Int64, NEW b \in Int64, b > 0
    PROVE  FloorDiv(t, b) * b = Start(t, b)
<1>1. /\ MaxInt \in Nat /\ t \in Int /\ b \in Int /\ Abs(b) = b
      /\ t >= -MaxInt - 1 /\ t <= MaxInt
  BY IntAssumption DEF Int64, MinInt, Abs
<1>2. CASE t >= 0
  <2>1. /\ t \div b \in 0 .. t /\ t % b \in 0 .. b - 1
        /\ t = b * (t \div b) + (t % b)
    BY <1>1, <1>2, DivMod, DivBound
  <2>2. Wrap(t \div b) = t \div b
    BY <1>1, <2>1, WrapIdentity DEF Int64, MinInt
  <2>3. FloorDiv(t, b) = t \div b
    BY <1>1, <1>2, <2>2 DEF FloorDiv, Quo, Abs
  <2>4. (t \div b) * b = t - (t % b)
    <3>. DEFINE q == t \div b  r == t % b
    <3>1. q \in Int /\ r \in Int /\ t = b * q + r
      BY <2>1
    <3>. HIDE DEF q, r
    <3>2. q * b = t - r
      BY <1>1, <3>1
    <3>. QED
      BY <3>2 DEF q, r
  <2>. QED
    BY <2>3, <2>4 DEF Start
<1>3. CASE t < 0
  <2>. DEFINE q == (-t) \div b  r == (-t) % b
  <2>1. /\ -t \in Nat /\ Abs(t) = -t
        /\ q \in 0 .. -t /\ (b >= 2 => q < -t)
        /\ r \in 0 .. b - 1 /\ -t = b * q + r
    BY <1>1, <1>3, DivMod, DivBound DEF Abs
  <2>2. Quo(t, b) = -q /\ Rem(t, b) = -r
    BY <1>1, <1>3, <2>1 DEF Quo, Rem
  <2>3. CASE r = 0
    <3>1. FloorDiv(t, b) = -q
      BY <1>1, <2>1, <2>2, <2>3 DEF FloorDiv
    <3>. HIDE DEF q, r
    <3>2. t = b * (-q) + 0
      BY <1>1, <2>1, <2>3
    <3>3. t % b = 0
      BY <1>1, <2>1, <3>2, DivModUnique
    <3>. QED
      BY <1>1, <2>1, <3>1, <3>2, <3>3 DEF Start
  <2>4. CASE r # 0
    <3>1. -q - 1 \in Int64 /\ b >= 2
      BY <1>1, <2>1, <2>4 DEF Int64, MinInt
    <3>2. FloorDiv(t, b) = -q - 1
      BY <1>1, <1>3, <2>1, <2>2, <2>4, <3>1, WrapIdentity DEF FloorDiv
    <3>. HIDE DEF q, r
    <3>3. t = b * (-q - 1) + (b - r)
      BY <1>1, <2>1
    <3>4. -q - 1 \in Int /\ b - r \in 0 .. b - 1
      BY <1>1, <2>1, <2>4
    <3>5. t % b = b - r
      BY <1>1, <3>3, <3>4, DivModUnique
    <3>. QED
      BY <1>1, <2>1, <3>2, <3>3, <3>5 DEF Start
  <2>. QED
    BY <2>1, <2>3, <2>4
<1>. QED
  BY <1>1, <1>2, <1>3

\* The start of a bucket that divides the day.
LEMMA StartOfBucket ==
    ASSUME NEW t \in Int, NEW b \in Int, b > 0, NEW day \in Int, day > 0,
           day % b = 0
    PROVE  /\ Start(t, b) \in (t - b + 1) .. t
           /\ Start(t, b) % b = 0
           /\ Start(t, b) \div day = t \div day
<1>. DEFINE s == Start(t, b)  k == t \div b  m == day \div b
            Q == t \div day  R == t % day  j == R \div b  r == R % b
<1>1. k \in Int /\ t % b \in 0 .. b - 1 /\ t = b * k + (t % b)
  BY DivMod
<1>2. m \in Int /\ day = b * m
  BY DivMod
<1>3. Q \in Int /\ R \in 0 .. day - 1 /\ t = day * Q + R
  BY DivMod
<1>4. j \in Int /\ r \in 0 .. b - 1 /\ R = b * j + r
  BY <1>3, DivMod
<1>5. s = t - (t % b)
  BY DEF Start
<1>. HIDE DEF s, k, m, Q, R, j, r
<1>6. s % b = 0
  <2>1. s = b * k + 0
    BY <1>1, <1>5
  <2>. QED
    BY <1>1, <2>1, DivModUnique
<1>7. t % b = r
  <2>1. t = (b * m) * Q + (b * j + r)
    BY <1>2, <1>3, <1>4
  <2>2. (b * m) * Q + (b * j + r) = b * (m * Q + j) + r
    BY <1>2, <1>3, <1>4, Z3
  <2>3. m * Q + j \in Int
    BY <1>2, <1>3, <1>4
  <2>. HIDE DEF Start
  <2>. QED
    BY <1>4, <2>1, <2>2, <2>3, DivModUnique
<1>8. s \div day = Q
  <2>1. s = day * Q + (R - r)
    BY <1>3, <1>4, <1>5, <1>7
  <2>2. j >= 0
    <3>1. ASSUME j <= -1 PROVE b * j <= b * (-1)
      BY <1>4, <3>1, Z3
    <3>. QED
      BY <1>3, <1>4, <3>1
  <2>3. b * j >= 0
    BY <1>4, <2>2, Z3
  <2>4. R - r \in 0 .. day - 1
    BY <1>3, <1>4, <2>3
  <2>. QED
    BY <1>3, <1>5, <1>1, <2>1, <2>4, DivModUnique
<1>. QED
  BY <1>1, <1>5, <1>6, <1>8 DEF s, Q

-----------------------------------------------------------------------------
(* Powers of two *)

\* 2^e counts the subsets of a set of e elements.
LEMMA PowCounts ==
    ASSUME NEW e \in Nat
    PROVE  IsFiniteSet(SUBSET (1 .. e)) /\ Cardinality(SUBSET (1 .. e)) = 2^e /\ 2^e \in Nat
<1>1. IsFiniteSet(1 .. e) /\ Cardinality(1 .. e) = e
  BY FS_Interval
<1>2. IsFiniteSet(SUBSET (1 .. e)) /\ Cardinality(SUBSET (1 .. e)) = 2^e
  BY <1>1, FS_SUBSET
<1>. QED
  BY <1>2, FS_CardinalityType

\* A power of two is twice the one before.
LEMMA PowNext ==
    ASSUME NEW e \in Nat
    PROVE  2^(e + 1) = 2 * 2^e /\ 2^e > 0
<1>. DEFINE S == SUBSET (1 .. e)
            T == {s \cup {e + 1} : s \in S}
            f == [s \in S |-> s \cup {e + 1}]
<1>1. IsFiniteSet(S) /\ Cardinality(S) = 2^e /\ 2^e \in Nat
  BY PowCounts
<1>2. \A s \in S : e + 1 \notin s
  OBVIOUS
<1>3. f \in Bijection(S, T)
  <2>1. f \in [S -> T]
    OBVIOUS
  <2>2. \A s, u \in S : f[s] = f[u] => s = u
    BY <1>2
  <2>3. \A t \in T : \E s \in S : f[s] = t
    OBVIOUS
  <2>. HIDE DEF f, S, T
  <2>. QED
    BY <2>1, <2>2, <2>3, Fun_IsBij
<1>4. IsFiniteSet(T) /\ Cardinality(T) = 2^e
  BY <1>1, <1>3, FS_Bijection DEF ExistsBijection
<1>5. SUBSET (1 .. e + 1) = S \cup T
  <2>1. 1 .. e + 1 = (1 .. e) \cup {e + 1}
    OBVIOUS
  <2>2. ASSUME NEW s \in SUBSET (1 .. e + 1)
        PROVE  s \in S \cup T
    <3>1. CASE e + 1 \in s
      <4>1. s \ {e + 1} \in S /\ s = (s \ {e + 1}) \cup {e + 1}
        BY <2>1, <3>1
      <4>. QED
        BY <4>1
    <3>2. CASE e + 1 \notin s
      BY <2>1, <3>2
    <3>. QED
      BY <3>1, <3>2
  <2>3. \A s \in S \cup T : s \in SUBSET (1 .. e + 1)
    BY <2>1
  <2>. QED
    BY <2>2, <2>3
<1>6. S \cap T = {}
  BY <1>2
<1>7. Cardinality(S \cup T) = Cardinality(S) + Cardinality(T) - Cardinality(S \cap T)
  <2>. HIDE DEF S, T
  <2>. QED
    BY <1>1, <1>4, FS_Union
<1>8. Cardinality(S \cap T) = 0
  BY <1>6, FS_EmptySet
<1>9. Cardinality(SUBSET (1 .. e + 1)) = 2^(e + 1)
  <2>. DEFINE n == e + 1
  <2>1. n \in Nat
    OBVIOUS
  <2>. HIDE DEF n
  <2>2. Cardinality(SUBSET (1 .. n)) = 2^n
    BY <2>1, PowCounts
  <2>. QED
    BY <2>2 DEF n
<1>10. 2^e # 0
  <2>1. S # {}
    OBVIOUS
  <2>. HIDE DEF S
  <2>. QED
    BY <1>1, <2>1, FS_EmptySet
<1>. HIDE DEF S, T
<1>. DEFINE p == 2^e
<1>11. 2^(e + 1) = p + p - 0
  BY <1>1, <1>4, <1>5, <1>7, <1>8, <1>9
<1>12. p \in Nat /\ p # 0
  BY <1>1, <1>10
<1>. HIDE DEF p
<1>13. p + p - 0 = 2 * p /\ p > 0
  BY <1>12
<1>14. 2^(e + 1) = 2 * p
  BY <1>11, <1>13
<1>. QED
  BY <1>13, <1>14 DEF p

\* The least of a set of numbers.
LEMMA LeastNumber ==
    ASSUME NEW S \in SUBSET Nat, S # {}
    PROVE  \E n \in S : \A m \in S : n <= m
<1>. DEFINE R == {p \in Nat \X Nat : p[1] < p[2]}
<1>1. OpToRel(<, Nat) = R
  BY Zenon DEF OpToRel
<1>2. IsWellFoundedOn(R, Nat)
  BY <1>1, NatLessThanWellFounded, Zenon
<1>. HIDE DEF R
<1>3. \E x \in S : \A y \in S : ~(<<y, x>> \in R)
  BY <1>2, WFMin
<1>4. \A x, y \in Nat : ~(<<y, x>> \in R) => x <= y
  BY DEF R
<1>. QED
  BY <1>3, <1>4

\* A power of two is made of two.
LEMMA PowSplits ==
    ASSUME NEW e \in Nat, NEW k \in Nat
    PROVE  2^(e + k) = 2^k * 2^e
<1>. DEFINE T == {i \in Nat : 2^(e + i) # 2^i * 2^e}
<1>. SUFFICES ASSUME T # {}
              PROVE  FALSE
  OBVIOUS
<1>1. PICK i \in T : \A j \in T : i <= j
  BY LeastNumber
<1>2. 2^e \in Nat
  BY PowCounts
<1>3. CASE i = 0
  <2>1. 2^0 = 1
    OBVIOUS
  <2>2. e + 0 = e /\ 1 * 2^e = 2^e
    BY <1>2
  <2>. QED
    BY <1>1, <1>3, <2>1, <2>2
<1>4. CASE i # 0
  <2>. DEFINE j == i - 1
              n == e + j
  <2>1. j \in Nat /\ i = j + 1 /\ ~(i <= j) /\ n \in Nat /\ e + i = n + 1
    BY <1>1, <1>4
  <2>2. 2^n = 2^j * 2^e
    BY <1>1, <2>1
  <2>. HIDE DEF j, n
  <2>3. 2^(n + 1) = 2 * 2^n /\ 2^(j + 1) = 2 * 2^j /\ 2^j \in Nat
    BY <2>1, PowNext, PowCounts
  <2>. DEFINE p == 2^j
              q == 2^e
  <2>4. 2 * (p * q) = (2 * p) * q
    <3>1. p \in Nat /\ q \in Nat
      BY <1>2, <2>3
    <3>. HIDE DEF p, q
    <3>. QED
      BY <3>1, Z3
  <2>5. 2^(e + i) = 2^i * 2^e
    BY <2>1, <2>2, <2>3, <2>4
  <2>. QED
    BY <1>1, <2>5
<1>. QED
  BY <1>3, <1>4

\* A greater exponent.
LEMMA PowGrows ==
    ASSUME NEW e \in Nat, NEW f \in Nat, e <= f
    PROVE  \E m \in Nat : m > 0 /\ 2^f = m * 2^e
<1>. DEFINE k == f - e
<1>1. k \in Nat /\ e + k = f
  OBVIOUS
<1>. HIDE DEF k
<1>2. 2^(e + k) = 2^k * 2^e /\ 2^k \in Nat /\ 2^k > 0
  BY <1>1, PowSplits, PowCounts, PowNext
<1>. QED
  BY <1>1, <1>2

-----------------------------------------------------------------------------
(* Floats *)

\* A magnitude, written with the least significant bits it has.
LEMMA MagnitudeIs ==
    /\ Magnitude \subseteq Nat /\ 0 \in Magnitude
    /\ \A m \in 0 .. Precision - 1, e \in 0 .. MaxExp : m * 2^e \in Magnitude
    /\ \A e \in 0 .. MaxExp : 2^e \in Nat /\ 2^e > 0
    /\ Precision \in Nat /\ Precision >= 2 /\ MaxExp \in Nat
    /\ Precision = 2 * (Precision \div 2) /\ Precision \div 2 \in 1 .. Precision - 1
<1>0. MaxExp \in Nat
  BY FloatAssumption
<1>2. \A e \in 0 .. MaxExp : 2^e \in Nat /\ 2^e > 0
  BY <1>0, PowCounts, PowNext
<1>1. /\ Precision \in Nat /\ Precision >= 2 /\ MaxExp \in Nat
      /\ Precision = 2 * (Precision \div 2) /\ Precision \div 2 \in 1 .. Precision - 1
  <2>1. PICK p \in 1 .. MaxExp : Precision = 2^p
    BY FloatAssumption
  <2>. DEFINE k == p - 1
              h == 2^k
  <2>2. k \in Nat /\ k \in 0 .. MaxExp /\ k + 1 = p
    BY <1>0, <2>1
  <2>. HIDE DEF k
  <2>3. 2^(k + 1) = 2 * h /\ h \in Nat /\ h > 0
    BY <2>2, PowNext, PowCounts
  <2>4. Precision = 2 * h
    BY <2>1, <2>2, <2>3
  <2>. HIDE DEF h
  <2>. QED
    BY <1>0, <2>3, <2>4
<1>3. \A m \in 0 .. Precision - 1, e \in 0 .. MaxExp : m * 2^e \in Magnitude
  BY DEF Magnitude
<1>4. Magnitude \subseteq Nat
  <2>1. ASSUME NEW m \in 0 .. Precision - 1, NEW e \in 0 .. MaxExp
        PROVE  m * 2^e \in Nat
    <3>. DEFINE p == 2^e
    <3>1. p \in Nat /\ m \in Nat
      BY <1>1, <1>2
    <3>. HIDE DEF p
    <3>2. m * p \in Nat
      BY <3>1, Z3
    <3>. QED
      BY <3>2 DEF p
  <2>. QED
    BY <2>1 DEF Magnitude
<1>5. 0 \in Magnitude
  <2>1. 0 \in 0 .. Precision - 1 /\ 0 \in 0 .. MaxExp
    BY <1>1
  <2>2. 0 * 2^0 = 0
    OBVIOUS
  <2>. QED
    BY <1>3, <2>1, <2>2
<1>. QED
  BY <1>1, <1>2, <1>3, <1>4, <1>5

\* What a float is.
LEMMA FloatIs ==
    /\ \A neg \in BOOLEAN : Inf(neg) \in Float64
    /\ NaN \in Float64
    /\ \A neg \in BOOLEAN, m \in Magnitude : Finite(neg, m) \in Float64
    /\ \A x \in Float64 :
          /\ x.neg \in BOOLEAN /\ x.mag \in Magnitude /\ x.mag \in Nat
          /\ x.class \in {"finite", "inf", "nan"}
          /\ IsFinite(x) => x = Finite(x.neg, x.mag)
          /\ ~IsFinite(x) => x \in {Inf(TRUE), Inf(FALSE), NaN}
<1>1. 0 \in Magnitude /\ Magnitude \subseteq Nat
  BY MagnitudeIs
<1>2. \A neg \in BOOLEAN : Inf(neg) \in Float64
  BY DEF Float64
<1>3. NaN \in Float64
  BY DEF Float64
<1>4. \A neg \in BOOLEAN, m \in Magnitude : Finite(neg, m) \in Float64
  BY DEF Float64, Finite
<1>5. ASSUME NEW x \in Float64
      PROVE  /\ x.neg \in BOOLEAN /\ x.mag \in Magnitude /\ x.mag \in Nat
             /\ x.class \in {"finite", "inf", "nan"}
             /\ IsFinite(x) => x = Finite(x.neg, x.mag)
             /\ ~IsFinite(x) => x \in {Inf(TRUE), Inf(FALSE), NaN}
  <2>1. CASE x \in [class : {"finite"}, neg : BOOLEAN, mag : Magnitude]
    <3>1. x.class = "finite" /\ x.neg \in BOOLEAN /\ x.mag \in Magnitude
          /\ x = [class |-> "finite", neg |-> x.neg, mag |-> x.mag]
      BY <2>1
    <3>. QED
      BY <1>1, <3>1 DEF Finite, IsFinite
  <2>2. CASE x \in {Inf(TRUE), Inf(FALSE), NaN}
    <3>1. x.mag = 0 /\ x.neg \in BOOLEAN /\ x.class \in {"inf", "nan"}
      <4>1. ASSUME NEW neg \in BOOLEAN
            PROVE  Inf(neg).mag = 0 /\ Inf(neg).neg = neg /\ Inf(neg).class = "inf"
        BY DEF Inf
      <4>2. NaN.mag = 0 /\ NaN.neg = FALSE /\ NaN.class = "nan"
        BY DEF NaN
      <4>3. CASE x = Inf(TRUE)
        BY <4>1, <4>3
      <4>4. CASE x = Inf(FALSE)
        BY <4>1, <4>4
      <4>5. CASE x = NaN
        BY <4>2, <4>5
      <4>. QED
        BY <2>2, <4>3, <4>4, <4>5
    <3>2. ~IsFinite(x)
      BY <3>1 DEF IsFinite
    <3>. QED
      BY <1>1, <2>2, <3>1, <3>2
  <2>. QED
    BY <2>1, <2>2 DEF Float64
<1>. QED
  BY <1>2, <1>3, <1>4, <1>5

\* The quotient, or one more.
LEMMA HalfToEvenIs ==
    ASSUME NEW n \in Nat, NEW d \in Nat, d > 0
    PROVE  /\ n \div d \in Nat /\ n = d * (n \div d) + (n % d) /\ n % d \in 0 .. d - 1
           /\ HalfToEven(n, d) \in {n \div d, n \div d + 1}
<1>1. n \div d \in Nat /\ n = d * (n \div d) + (n % d) /\ n % d \in 0 .. d - 1
  BY DivMod, DivBound
<1>2. HalfToEven(n, d) \in {n \div d, n \div d + 1}
  BY DEF HalfToEven
<1>. QED
  BY <1>1, <1>2

\* A quotient below p.
LEMMA QuotientBelow ==
    ASSUME NEW n \in Nat, NEW d \in Nat, d > 0, NEW p \in Nat, NEW q \in Nat,
           n < p * d, d * q <= n
    PROVE  q < p
<1>. SUFFICES ASSUME q >= p
              PROVE  FALSE
  OBVIOUS
<1>1. d * q >= d * p
  BY Z3
<1>2. d * p = p * d /\ p * d \in Nat /\ d * q \in Nat
  BY Z3
<1>. QED
  BY <1>1, <1>2

\* The exponents at which n/d fits, and the least of them.
Fitting(n, d) == {e \in 0 .. MaxExp : n < Precision * 2^e * d}
\* The least of them.
Exponent(n, d) == CHOOSE e \in Fitting(n, d) : \A f \in Fitting(n, d) : e <= f

\* The least exponent that fits.
LEMMA ExponentIs ==
    ASSUME NEW n, NEW d, Fitting(n, d) # {}
    PROVE  /\ Exponent(n, d) \in Fitting(n, d)
           /\ \A f \in Fitting(n, d) : Exponent(n, d) <= f
<1>1. Fitting(n, d) \in SUBSET Nat
  BY DEF Fitting
<1>2. \E e \in Fitting(n, d) : \A f \in Fitting(n, d) : e <= f
  BY <1>1, LeastNumber
<1>. QED
  BY <1>2 DEF Exponent

\* What Round returns.
LEMMA RoundIs ==
    ASSUME NEW neg, NEW n, NEW d
    PROVE  LET e == Exponent(n, d)
               mag == HalfToEven(n, d * 2^e) * 2^e
           IN Round(neg, n, d) = IF Fitting(n, d) = {} \/ mag = Precision * 2^MaxExp
                                 THEN Inf(neg) ELSE Finite(neg, mag)
BY DEF Round, Fitting, Exponent

\* A rounded number is a float: when its significant bits run over, half of them
\* are a float of the next exponent.
LEMMA RoundFloat ==
    ASSUME NEW neg \in BOOLEAN, NEW n \in Nat, NEW d \in Nat, d > 0
    PROVE  Round(neg, n, d) \in Float64
<1>. DEFINE e == Exponent(n, d)
            D == d * 2^e
            q == n \div D
            h == HalfToEven(n, D)
            mag == h * 2^e
<1>1. CASE Fitting(n, d) = {} \/ mag = Precision * 2^MaxExp
  BY <1>1, RoundIs, FloatIs
<1>2. CASE ~(Fitting(n, d) = {} \/ mag = Precision * 2^MaxExp)
  <2>1. Round(neg, n, d) = Finite(neg, mag)
    BY <1>2, RoundIs
  <2>2. e \in 0 .. MaxExp /\ n < Precision * 2^e * d
    BY <1>2, ExponentIs DEF Fitting
  <2>3. /\ 2^e \in Nat /\ 2^e > 0 /\ Precision \in Nat /\ Precision >= 2 /\ MaxExp \in Nat
        /\ Precision = 2 * (Precision \div 2) /\ Precision \div 2 \in 0 .. Precision - 1
    <3>1. 2^e \in Nat /\ 2^e > 0
      BY <2>2, MagnitudeIs
    <3>. QED
      BY <3>1, MagnitudeIs
  <2>. HIDE DEF e
  <2>4. D \in Nat /\ D > 0 /\ Precision * 2^e * d = Precision * D
    <3>. DEFINE p == 2^e
    <3>1. p \in Nat /\ p > 0
      BY <2>3
    <3>. HIDE DEF p
    <3>2. d * p \in Nat /\ d * p > 0
      BY <3>1, Z3
    <3>3. Precision * p * d = Precision * (d * p)
      BY <2>3, <3>1, Z3
    <3>. QED
      BY <3>2, <3>3 DEF p
  <2>. HIDE DEF D
  <2>5. q \in Nat /\ n = D * q + (n % D) /\ n % D \in 0 .. D - 1 /\ h \in {q, q + 1}
    BY <2>4, HalfToEvenIs
  <2>. HIDE DEF q, h
  <2>6. D * q <= n
    <3>1. D * q \in Int
      BY <2>4, <2>5
    <3>. QED
      BY <2>5, <3>1
  <2>7. q < Precision
    BY <2>2, <2>3, <2>4, <2>5, <2>6, QuotientBelow
  <2>8. CASE h # Precision
    <3>1. h \in 0 .. Precision - 1
      BY <2>3, <2>5, <2>7, <2>8
    <3>2. mag \in Magnitude
      BY <2>2, <3>1, MagnitudeIs
    <3>. QED
      BY <2>1, <3>2, FloatIs
  <2>9. CASE h = Precision
    <3>1. e # MaxExp
      BY <1>2, <2>9
    <3>2. e \in Nat /\ e + 1 \in 0 .. MaxExp
      BY <2>2, <2>3, <3>1
    <3>3. 2^(e + 1) = 2 * 2^e
      BY <3>2, PowNext
    <3>4. (Precision \div 2) * 2^(e + 1) = Precision * 2^e
      <4>. DEFINE p == 2^e
                  k == Precision \div 2
      <4>1. p \in Nat /\ k \in Nat /\ Precision = 2 * k
        BY <2>3
      <4>. HIDE DEF p, k
      <4>2. k * (2 * p) = (2 * k) * p
        BY <4>1, Z3
      <4>. QED
        BY <3>3, <4>1, <4>2 DEF p, k
    <3>5. (Precision \div 2) * 2^(e + 1) \in Magnitude
      BY <2>3, <3>2, MagnitudeIs
    <3>6. mag \in Magnitude
      BY <2>9, <3>4, <3>5
    <3>. QED
      BY <2>1, <3>6, FloatIs
  <2>. QED
    BY <2>8, <2>9
<1>. QED
  BY <1>1, <1>2

\* Only zero is rounded to zero, if it is an integer.
LEMMA RoundZero ==
    ASSUME NEW neg, NEW n \in Nat
    PROVE  IsZero(Round(neg, n, 1)) <=> n = 0
<1>. DEFINE e == Exponent(n, 1)
            D == 1 * 2^e
            h == HalfToEven(n, D)
            mag == h * 2^e
<1>1. IsZero(Round(neg, n, 1)) <=>
        ~(Fitting(n, 1) = {} \/ mag = Precision * 2^MaxExp) /\ mag = 0
  BY RoundIs DEF IsZero, IsFinite, Finite, Inf
<1>2. Precision \in Nat /\ Precision >= 2 /\ MaxExp \in Nat /\ 0 \in 0 .. MaxExp /\ 2^0 = 1
  BY MagnitudeIs
<1>3. CASE Fitting(n, 1) = {}
  <2>1. 0 \notin Fitting(n, 1)
    BY <1>3
  <2>2. n # 0
    BY <1>2, <2>1 DEF Fitting
  <2>. QED
    BY <1>1, <1>3, <2>2
<1>4. CASE Fitting(n, 1) # {}
  <2>1. e \in Fitting(n, 1) /\ \A f \in Fitting(n, 1) : e <= f
    BY <1>4, ExponentIs
  <2>2. e \in 0 .. MaxExp /\ 2^e \in Nat /\ 2^e > 0
    BY <2>1, MagnitudeIs DEF Fitting
  <2>3. 2^MaxExp \in Nat /\ 2^MaxExp > 0
    BY <1>2, PowCounts, PowNext
  <2>. HIDE DEF e
  <2>4. D = 2^e
    BY <2>2
  <2>. DEFINE p == 2^e
              q == n \div p
  <2>5. q \in Nat /\ n = p * q + (n % p) /\ n % p \in 0 .. p - 1 /\ HalfToEven(n, p) \in {q, q + 1}
    BY <2>2, HalfToEvenIs
  <2>6. n = 0 => HalfToEven(n, p) = 0
    <3>. SUFFICES ASSUME n = 0
                  PROVE  HalfToEven(0, p) = 0
      BY Zenon
    <3>1. p \in Nat /\ p > 0
      BY <2>2
    <3>. HIDE DEF p
    <3>2. 0 % p = 0 /\ 0 \div p = 0
      <4>1. 0 = p * 0 + 0 /\ 0 \in 0 .. p - 1
        BY <3>1
      <4>. QED
        BY <3>1, <4>1, DivModUnique
    <3>. QED
      BY <3>1, <3>2 DEF HalfToEven
  <2>7. n # 0 => q >= 1
    <3>. SUFFICES ASSUME n # 0
                  PROVE  n >= p
      <4>1. n >= p => q # 0
        <5>1. p * 0 = 0
          BY <2>2
        <5>2. q = 0 => n = n % p
          BY <2>5, <5>1
        <5>. DEFINE r == n % p
        <5>3. r \in 0 .. p - 1 /\ p \in Nat
          BY <2>2, <2>5
        <5>4. q = 0 => n = r
          BY <5>2
        <5>. HIDE DEF q, p, r
        <5>. QED
          BY <5>3, <5>4
      <4>. HIDE DEF q, p
      <4>. QED
        BY <2>5, <4>1
    <3>1. CASE e = 0
      BY <1>2, <3>1
    <3>2. CASE e # 0
      <4>. DEFINE k == e - 1
      <4>1. k \in Nat /\ k \in 0 .. MaxExp /\ k + 1 = e /\ ~(e <= k)
        BY <1>2, <2>2, <3>2
      <4>. HIDE DEF k
      <4>2. k \notin Fitting(n, 1)
        BY <2>1, <4>1
      <4>3. ~(n < Precision * 2^k * 1)
        BY <4>1, <4>2 DEF Fitting
      <4>4. 2^(k + 1) = 2 * 2^k /\ 2^k \in Nat
        BY <4>1, PowNext, PowCounts
      <4>. DEFINE b == 2^k
      <4>5. Precision * b * 1 >= 2 * b
        <5>1. b \in Nat
          BY <4>4
        <5>. HIDE DEF b
        <5>. QED
          BY <1>2, <5>1, Z3
      <4>6. p = 2 * b /\ b \in Nat
        BY <4>1, <4>4
      <4>7. ~(n < Precision * b * 1)
        BY <4>3
      <4>. HIDE DEF p, b
      <4>8. Precision * b * 1 \in Nat
        BY <1>2, <4>6, Z3
      <4>. QED
        BY <4>5, <4>6, <4>7, <4>8
    <3>. QED
      BY <3>1, <3>2
  <2>8. mag = HalfToEven(n, p) * p
    BY <2>4
  <2>. DEFINE g == HalfToEven(n, p)
  <2>9. p \in Nat /\ p > 0 /\ g \in Nat /\ (g = 0 <=> n = 0)
    <3>1. g \in {q, q + 1} /\ q \in Nat /\ (n = 0 => g = 0) /\ (n # 0 => q >= 1)
      BY <2>5, <2>6, <2>7
    <3>2. p \in Nat /\ p > 0
      BY <2>2
    <3>. HIDE DEF g, q, p
    <3>. QED
      BY <3>1, <3>2
  <2>. DEFINE M == Precision * 2^MaxExp
  <2>10. M > 0
    <3>. DEFINE b == 2^MaxExp
    <3>1. b \in Nat /\ b > 0
      BY <2>3
    <3>. HIDE DEF b
    <3>2. Precision * b > 0
      BY <1>2, <3>1, Z3
    <3>. QED
      BY <3>2 DEF b
  <2>. HIDE DEF g, p, M
  <2>11. g * p = 0 <=> g = 0
    BY <2>9, Z3
  <2>12. (g * p = M => g * p # 0)
    BY <2>10
  <2>13. IsZero(Round(neg, n, 1)) <=> ~(g * p = M) /\ g * p = 0
    BY <1>1, <1>4, <2>8 DEF M, g, p
  <2>. QED
    BY <2>9, <2>11, <2>12, <2>13
<1>. QED
  BY <1>3, <1>4

\* The unit of floats, its half and the least float are floats.
LEMMA ScaleIs ==
    /\ Scale \in Nat /\ Scale > 0
    /\ \E s \in 1 .. MaxExp : Scale = 2^s
    /\ {0, 1, Scale, Scale \div 2} \subseteq Magnitude
<1>1. PICK s \in 1 .. MaxExp : Scale = 2^s
  BY FloatAssumption
<1>2. MaxExp \in Nat /\ Precision \in Nat /\ Precision >= 2
  BY MagnitudeIs
<1>3. Scale \in Nat /\ Scale > 0
  BY <1>1, <1>2, MagnitudeIs
<1>4. 1 \in 0 .. Precision - 1 /\ 0 \in 0 .. MaxExp /\ s \in 0 .. MaxExp
      /\ s - 1 \in 0 .. MaxExp /\ s - 1 \in Nat
  BY <1>1, <1>2
<1>5. 1 \in Magnitude
  <2>1. 2^0 = 1
    OBVIOUS
  <2>2. 1 * 2^0 = 1
    BY <2>1
  <2>. QED
    BY <1>4, <2>2, MagnitudeIs
<1>6. Scale \in Magnitude
  <2>1. 1 * 2^s = Scale
    BY <1>1, <1>3
  <2>. QED
    BY <1>4, <2>1, MagnitudeIs
<1>7. Scale \div 2 \in Magnitude
  <2>. DEFINE k == s - 1
              p == 2^k
  <2>0. k \in Nat /\ k \in 0 .. MaxExp /\ k + 1 = s
    BY <1>1, <1>2, <1>4
  <2>. HIDE DEF k
  <2>1. 2^(k + 1) = 2 * p /\ p \in Nat
    BY <2>0, PowNext, PowCounts
  <2>2. Scale = 2 * p
    BY <1>1, <2>0, <2>1
  <2>3. 1 * p \in Magnitude
    <3>. DEFINE i == 1
    <3>1. i \in 0 .. Precision - 1
      BY <1>4
    <3>. HIDE DEF i
    <3>2. i * 2^k \in Magnitude
      BY <2>0, <3>1, MagnitudeIs
    <3>. QED
      BY <3>2 DEF i
  <2>. HIDE DEF p
  <2>5. 1 * p = p
    BY <2>1
  <2>4. Scale \div 2 = p
    BY <2>1, <2>2
  <2>. QED
    BY <2>3, <2>4, <2>5
<1>. QED
  BY <1>1, <1>3, <1>5, <1>6, <1>7, MagnitudeIs

\* A remainder of multiples of p.
LEMMA ModScales ==
    ASSUME NEW p \in Nat, p > 0, NEW a \in Nat, NEW b \in Nat, b > 0
    PROVE  /\ (a * p) % (b * p) = (a % b) * p
           /\ a % b \in 0 .. a /\ a % b \in 0 .. b - 1
<1>. DEFINE q == a \div b
            r == a % b
<1>1. q \in 0 .. a /\ r \in 0 .. b - 1 /\ a = b * q + r
  BY DivMod, DivBound
<1>. HIDE DEF q, r
<1>2. b * p \in Nat /\ b * p > 0 /\ a * p \in Nat
  BY Z3
<1>3. a * p = (b * p) * q + r * p
  BY <1>1, Z3
<1>4. r * p \in Nat /\ r * p < b * p
  <2>1. r \in Nat /\ r + 1 <= b
    BY <1>1
  <2>2. (r + 1) * p <= b * p
    BY <2>1, Z3
  <2>3. (r + 1) * p = r * p + p /\ r * p \in Nat
    BY <2>1, Z3
  <2>. QED
    BY <1>2, <2>2, <2>3
<1>5. (a * p) % (b * p) = r * p
  <2>. DEFINE n == a * p
              d == b * p
              t == r * p
  <2>1. n \in Nat /\ d \in Nat /\ d > 0 /\ t \in Nat /\ t < d /\ n = d * q + t /\ q \in Int
    BY <1>1, <1>2, <1>3, <1>4
  <2>. HIDE DEF n, d, t
  <2>2. t \in 0 .. d - 1
    BY <2>1
  <2>3. n % d = t
    BY <2>1, <2>2, DivModUnique
  <2>. QED
    BY <2>3 DEF n, d, t
<1>6. r <= a
  <2>1. b * q >= 0
    BY <1>1, Z3
  <2>. QED
    BY <1>1, <2>1
<1>. QED
  BY <1>1, <1>5, <1>6 DEF r

\* Bits are only lost by a remainder.
LEMMA MagnitudeMod ==
    ASSUME NEW x \in Magnitude, NEW y \in Magnitude, y > 0
    PROVE  x % y \in Magnitude
<1>1. PICK m \in 0 .. Precision - 1, e \in 0 .. MaxExp : x = m * 2^e
  BY DEF Magnitude
<1>2. PICK k \in 0 .. Precision - 1, f \in 0 .. MaxExp : y = k * 2^f
  BY DEF Magnitude
<1>3. /\ 2^e \in Nat /\ 2^e > 0 /\ 2^f \in Nat /\ 2^f > 0
      /\ m \in Nat /\ k \in Nat /\ e \in Nat /\ f \in Nat /\ Precision \in Nat
  BY <1>1, <1>2, MagnitudeIs
<1>4. k > 0
  <2>. DEFINE p == 2^f
  <2>1. y = k * p /\ p \in Nat
    BY <1>2, <1>3
  <2>. HIDE DEF p
  <2>. QED
    BY <1>3, <2>1, Z3
<1>5. CASE f <= e
  <2>1. PICK c \in Nat : c > 0 /\ 2^e = c * 2^f
    BY <1>3, <1>5, PowGrows
  <2>. DEFINE p == 2^f
  <2>2. p \in Nat /\ p > 0 /\ x = m * (c * p) /\ y = k * p
    BY <1>1, <1>2, <1>3, <2>1
  <2>. HIDE DEF p
  <2>3. m * c \in Nat /\ m * (c * p) = (m * c) * p
    BY <1>3, <2>1, <2>2, Z3
  <2>. DEFINE n == m * c
  <2>4. n \in Nat /\ x = n * p
    BY <2>2, <2>3
  <2>. HIDE DEF n
  <2>5. x % y = (n % k) * p /\ n % k \in 0 .. k - 1
    <3>1. n \in Nat /\ k \in Nat /\ k > 0 /\ p \in Nat /\ p > 0
      BY <1>3, <1>4, <2>2, <2>4
    <3>2. (n * p) % (k * p) = (n % k) * p /\ n % k \in 0 .. k - 1
      BY <3>1, ModScales
    <3>. QED
      BY <2>2, <2>4, <3>2
  <2>6. n % k \in 0 .. Precision - 1
    BY <1>2, <1>3, <2>5
  <2>. QED
    BY <1>2, <2>5, <2>6, MagnitudeIs DEF p
<1>6. CASE ~(f <= e)
  <2>1. PICK c \in Nat : c > 0 /\ 2^f = c * 2^e
    BY <1>3, <1>6, PowGrows
  <2>. DEFINE p == 2^e
  <2>2. p \in Nat /\ p > 0 /\ x = m * p /\ y = k * (c * p)
    BY <1>1, <1>2, <1>3, <2>1
  <2>. HIDE DEF p
  <2>3. k * c \in Nat /\ k * c > 0 /\ k * (c * p) = (k * c) * p
    BY <1>3, <1>4, <2>1, <2>2, Z3
  <2>. DEFINE d == k * c
  <2>4. d \in Nat /\ d > 0 /\ y = d * p
    BY <2>2, <2>3
  <2>. HIDE DEF d
  <2>5. x % y = (m % d) * p /\ m % d \in 0 .. m
    <3>1. m \in Nat /\ d \in Nat /\ d > 0 /\ p \in Nat /\ p > 0
      BY <1>3, <2>2, <2>4
    <3>2. (m * p) % (d * p) = (m % d) * p /\ m % d \in 0 .. m
      BY <3>1, ModScales
    <3>. QED
      BY <2>2, <2>4, <3>2
  <2>6. m % d \in 0 .. Precision - 1
    BY <1>1, <1>3, <2>5
  <2>. QED
    BY <1>1, <2>5, <2>6, MagnitudeIs DEF p
<1>. QED
  BY <1>5, <1>6

\* Nor by what a remainder leaves, for a power of two.
LEMMA MagnitudeTruncated ==
    ASSUME NEW x \in Magnitude
    PROVE  x - (x % Scale) \in Magnitude /\ x % Scale \in Nat /\ x % Scale <= x
<1>1. PICK m \in 0 .. Precision - 1, e \in 0 .. MaxExp : x = m * 2^e
  BY DEF Magnitude
<1>2. PICK s \in 1 .. MaxExp : Scale = 2^s
  BY ScaleIs
<1>3. /\ 2^e \in Nat /\ 2^e > 0 /\ Scale \in Nat /\ Scale > 0 /\ MaxExp \in Nat
      /\ m \in Nat /\ e \in Nat /\ s \in Nat /\ Precision \in Nat /\ x \in Nat
  BY <1>1, <1>2, MagnitudeIs, ScaleIs
<1>4. CASE s <= e
  <2>1. PICK c \in Nat : c > 0 /\ 2^e = c * 2^s
    BY <1>3, <1>4, PowGrows
  <2>2. x = m * (c * Scale)
    BY <1>1, <1>2, <2>1
  <2>3. x = Scale * (m * c) + 0 /\ m * c \in Nat
    BY <1>3, <2>1, <2>2, Z3
  <2>4. 0 \in 0 .. Scale - 1
    BY <1>3
  <2>5. x % Scale = 0
    BY <1>3, <2>3, <2>4, DivModUnique
  <2>. QED
    BY <1>3, <2>5
<1>5. CASE ~(s <= e)
  <2>1. PICK c \in Nat : c > 0 /\ 2^s = c * 2^e
    BY <1>3, <1>5, PowGrows
  <2>. DEFINE p == 2^e
              r == m % c
  <2>2. p \in Nat /\ p > 0 /\ x = m * p /\ Scale = c * p
    BY <1>1, <1>2, <1>3, <2>1
  <2>. HIDE DEF p
  <2>3. x % Scale = r * p /\ r \in 0 .. m
    BY <1>3, <2>1, <2>2, ModScales
  <2>. HIDE DEF r
  <2>4. r * p \in Nat /\ r * p <= m * p /\ m * p - r * p = (m - r) * p
    BY <1>3, <2>2, <2>3, Z3
  <2>5. m - r \in 0 .. Precision - 1
    BY <1>1, <1>3, <2>3
  <2>6. (m - r) * p \in Magnitude
    BY <1>1, <2>5, MagnitudeIs DEF p
  <2>. QED
    BY <2>2, <2>3, <2>4, <2>6
<1>. QED
  BY <1>4, <1>5

\* The floats that are met by name.
LEMMA FloatsAre ==
    \A neg \in BOOLEAN :
        /\ Finite(neg, 0) \in Float64 /\ Finite(neg, 1) \in Float64
        /\ Finite(neg, Scale) \in Float64 /\ Finite(neg, Scale \div 2) \in Float64
        /\ Inf(neg) \in Float64 /\ NaN \in Float64
BY ScaleIs, FloatIs

\* A product of numbers is one.
LEMMA NatProduct ==
    ASSUME NEW a \in Nat, NEW b \in Nat
    PROVE  a * b \in Nat /\ (a > 0 /\ b > 0 => a * b > 0)
BY Z3

\* An integer is converted to a float, and only zero to zero.
LEMMA ToFloatIs ==
    ASSUME NEW n \in Int
    PROVE  ToFloat(n) \in Float64 /\ (IsZero(ToFloat(n)) <=> n = 0)
<1>. DEFINE m == Abs(n) * Scale
            neg == n < 0
<1>1. m \in Nat /\ (n # 0 => m > 0)
  BY AbsNat, ScaleIs, NatProduct
<1>2. n = 0 => m = 0
  BY ScaleIs DEF Abs
<1>3. ToFloat(n) = Round(neg, m, 1) /\ neg \in BOOLEAN
  BY DEF ToFloat
<1>. HIDE DEF m, neg
<1>4. Round(neg, m, 1) \in Float64 /\ (IsZero(Round(neg, m, 1)) <=> m = 0)
  BY <1>1, <1>3, RoundFloat, RoundZero
<1>. QED
  BY <1>1, <1>2, <1>3, <1>4

\* A sign is changed.
LEMMA SignChanged ==
    ASSUME NEW x \in Float64, x # NaN, NEW neg \in BOOLEAN
    PROVE  [x EXCEPT !.neg = neg] \in Float64
<1>1. CASE IsFinite(x)
  <2>1. x = Finite(x.neg, x.mag) /\ x.mag \in Magnitude
    BY <1>1, FloatIs
  <2>2. [x EXCEPT !.neg = neg] = Finite(neg, x.mag)
    BY <2>1 DEF Finite
  <2>. QED
    BY <2>1, <2>2, FloatIs
<1>2. CASE ~IsFinite(x)
  <2>1. x \in {Inf(TRUE), Inf(FALSE)}
    BY <1>2, FloatIs
  <2>2. [x EXCEPT !.neg = neg] = Inf(neg)
    BY <2>1 DEF Inf
  <2>. QED
    BY <2>2, FloatIs
<1>. QED
  BY <1>1, <1>2

\* Any other float is a number.
LEMMA NaNIs ==
    ASSUME NEW x \in Float64, ~IsNaN(x)
    PROVE  x # NaN
BY DEF IsNaN, NaN

\* Every operation on floats gives a float: negation,
LEMMA NegateFloat ==
    ASSUME NEW x \in Float64
    PROVE  Negate(x) \in Float64
<1>1. CASE IsNaN(x)
  BY <1>1 DEF Negate
<1>2. CASE ~IsNaN(x)
  <2>. DEFINE neg == ~x.neg
  <2>1. neg \in BOOLEAN
    OBVIOUS
  <2>2. Negate(x) = [x EXCEPT !.neg = neg]
    BY <1>2 DEF Negate
  <2>. HIDE DEF neg
  <2>. QED
    BY <1>2, <2>1, <2>2, NaNIs, SignChanged
<1>. QED
  BY <1>1, <1>2

\* the integer a sign and a magnitude stand for,
LEMMA SignedInt ==
    ASSUME NEW x \in Float64
    PROVE  Signed(x) \in Int
<1>1. x.mag \in Nat
  BY FloatIs
<1>. QED
  BY <1>1 DEF Signed

\* sum,
LEMMA PlusFloat ==
    ASSUME NEW x \in Float64, NEW y \in Float64
    PROVE  Plus(x, y) \in Float64
<1>. DEFINE sum == Signed(x) + Signed(y)
            neg == sum < 0 \/ (x.neg /\ y.neg)
            r == Round(neg, Abs(sum), 1)
<1>1. Plus(x, y) \in {NaN, x, y, r}
  BY DEF Plus
<1>2. Abs(sum) \in Nat /\ neg \in BOOLEAN
  BY SignedInt, AbsNat
<1>. HIDE DEF sum, neg
<1>3. r \in Float64
  BY <1>2, RoundFloat
<1>. HIDE DEF r
<1>. QED
  BY <1>1, <1>3, FloatsAre

\* product,
LEMMA TimesFloat ==
    ASSUME NEW x \in Float64, NEW y \in Float64
    PROVE  Times(x, y) \in Float64
<1>. DEFINE neg == x.neg # y.neg
            m == x.mag * y.mag
            r == Round(neg, m, Scale)
<1>1. Times(x, y) \in {NaN, Inf(neg), r}
  BY DEF Times
<1>2. m \in Nat /\ neg \in BOOLEAN
  BY FloatIs, NatProduct
<1>. HIDE DEF neg, m
<1>3. r \in Float64
  BY <1>2, RoundFloat, ScaleIs
<1>. HIDE DEF r
<1>. QED
  BY <1>1, <1>2, <1>3, FloatsAre

\* quotient,
LEMMA OverFloat ==
    ASSUME NEW x \in Float64, NEW y \in Float64, ~IsZero(y)
    PROVE  Over(x, y) \in Float64
<1>. DEFINE neg == x.neg # y.neg
            m == x.mag * Scale
            d == y.mag
            r == Round(neg, m, d)
<1>1. Over(x, y) \in {NaN, Inf(neg), Finite(neg, 0)} \/ (IsFinite(y) /\ Over(x, y) = r)
  BY DEF Over
<1>2. m \in Nat /\ neg \in BOOLEAN /\ d \in Nat
  BY FloatIs, NatProduct, ScaleIs
<1>3. IsFinite(y) => d > 0
  BY <1>2 DEF IsZero
<1>. HIDE DEF neg, m, d
<1>4. IsFinite(y) => r \in Float64
  BY <1>2, <1>3, RoundFloat
<1>. HIDE DEF r
<1>. QED
  BY <1>1, <1>2, <1>4, FloatsAre

\* remainder,
LEMMA ModFloat ==
    ASSUME NEW x \in Float64, NEW y \in Float64, ~IsZero(y)
    PROVE  Mod(x, y) \in Float64
<1>. DEFINE m == x.mag
            d == y.mag
            r == Finite(x.neg, m % d)
<1>1. Mod(x, y) \in {NaN, x} \/ (IsFinite(y) /\ Mod(x, y) = r)
  BY DEF Mod
<1>2. m \in Magnitude /\ x.neg \in BOOLEAN /\ d \in Magnitude /\ d \in Nat
  BY FloatIs
<1>3. IsFinite(y) => d > 0
  BY <1>2 DEF IsZero
<1>. HIDE DEF m, d
<1>4. IsFinite(y) => m % d \in Magnitude
  BY <1>2, <1>3, MagnitudeMod
<1>5. IsFinite(y) => r \in Float64
  BY <1>2, <1>4, FloatIs
<1>. HIDE DEF r
<1>. QED
  BY <1>1, <1>5, FloatsAre

\* A float that is rounded to an integer.
LEMMA IntegralFloat ==
    ASSUME NEW x \in Float64
    PROVE  /\ Truncated(x) \in Float64 /\ Enlarged(x) \in Float64
           /\ Floor(x) \in Float64 /\ Ceil(x) \in Float64
<1>1. x.neg \in BOOLEAN /\ x.mag \in Magnitude
  BY FloatIs
<1>2. Truncated(x) \in Float64
  <2>1. x.mag - (x.mag % Scale) \in Magnitude
    BY <1>1, MagnitudeTruncated
  <2>2. Finite(x.neg, x.mag - (x.mag % Scale)) \in Float64
    BY <1>1, <2>1, FloatIs
  <2>. QED
    BY <2>2 DEF Truncated
<1>3. Enlarged(x) \in Float64
  <2>1. Finite(x.neg, Scale) \in Float64
    BY <1>1, FloatsAre
  <2>2. Plus(Truncated(x), Finite(x.neg, Scale)) \in Float64
    BY <1>2, <2>1, PlusFloat
  <2>. QED
    BY <2>2 DEF Enlarged
<1>. QED
  BY <1>2, <1>3 DEF Floor, Ceil

\* the functions of one number,
LEMMA MathFuncFloat ==
    ASSUME NEW name \in {"abs", "floor", "ceil", "trunc", "round", "sign"},
           NEW x \in Float64
    PROVE  MathFunc(name, x) \in Float64
<1>1. MathRound(x) \in Float64
  <2>1. Floor(Plus(x, Half)) \in Float64
    BY FloatsAre, PlusFloat, IntegralFloat DEF Half
  <2>. QED
    BY <2>1, FloatsAre DEF MathRound
<1>2. MathSign(x) \in Float64
  <2>1. Finite(x.neg, Scale) \in Float64
    BY FloatIs, FloatsAre
  <2>. QED
    BY <2>1 DEF MathSign
<1>3. (IF IsNaN(x) THEN x ELSE [x EXCEPT !.neg = FALSE]) \in Float64
  BY NaNIs, SignChanged
<1>4. MathFunc("abs", x) = IF IsNaN(x) THEN x ELSE [x EXCEPT !.neg = FALSE]
  BY Zenon DEF MathFunc
<1>5. /\ MathFunc("floor", x) = Floor(x) /\ MathFunc("ceil", x) = Ceil(x)
      /\ MathFunc("trunc", x) = Truncated(x) /\ MathFunc("round", x) = MathRound(x)
      /\ MathFunc("sign", x) = MathSign(x)
  BY DEF MathFunc
<1>. QED
  BY <1>1, <1>2, <1>3, <1>4, <1>5, IntegralFloat

\* the larger of two,
LEMMA LargestFloat ==
    ASSUME NEW x \in Float64, NEW y \in Float64
    PROVE  Largest(x, y) \in Float64
<1>. DEFINE neg == x.neg /\ y.neg
<1>1. Largest(x, y) \in {Inf(FALSE), NaN, Finite(neg, 0), x, y}
  BY DEF Largest
<1>2. neg \in BOOLEAN
  OBVIOUS
<1>. HIDE DEF neg
<1>. QED
  BY <1>1, <1>2, FloatsAre

\* and what stands for the functions that are not computed.
LEMMA SampleFloat == Sample \subseteq Float64
BY FloatsAre DEF Sample


-----------------------------------------------------------------------------
(* Rounding keeps the order of numbers, and what is a float already. *)

\* A quotient below k and a half is rounded to k or less.
LEMMA HalfBelow ==
    ASSUME NEW n \in Nat, NEW d \in Nat, d > 0, NEW k \in Nat, 2 * n < (2 * k + 1) * d
    PROVE  HalfToEven(n, d) <= k
<1>. DEFINE q == n \div d
            r == n % d
<1>1. q \in Nat /\ r \in 0 .. d - 1 /\ n = d * q + r
  BY DivMod, DivBound
<1>2. HalfToEven(n, d) \in {q, q + 1} /\ (2 * r < d => HalfToEven(n, d) = q)
  BY <1>1 DEF HalfToEven
<1>. HIDE DEF q, r
<1>3. q <= k
  <2>. SUFFICES ASSUME q >= k + 1 PROVE FALSE
    BY <1>1
  <2>1. d * q >= d * (k + 1)
    BY <1>1, Z3
  <2>2. d * (k + 1) = d * k + d /\ (2 * k + 1) * d = 2 * (d * k) + d /\ d * k \in Nat /\ d * q \in Nat
    BY <1>1, Z3
  <2>. QED
    BY <1>1, <2>1, <2>2
<1>4. CASE q = k
  <2>1. (2 * k + 1) * d = 2 * (d * k) + d /\ d * k \in Nat
    BY Z3
  <2>2. 2 * r < d
    BY <1>1, <1>4, <2>1
  <2>. QED
    BY <1>1, <1>2, <1>4, <2>2
<1>. QED
  BY <1>1, <1>2, <1>3, <1>4

\* A quotient of k or more is rounded to k or more.
LEMMA HalfAbove ==
    ASSUME NEW n \in Nat, NEW d \in Nat, d > 0, NEW k \in Nat, k * d <= n
    PROVE  HalfToEven(n, d) >= k
<1>. DEFINE q == n \div d
            r == n % d
<1>1. q \in Nat /\ r \in 0 .. d - 1 /\ n = d * q + r /\ HalfToEven(n, d) \in {q, q + 1}
  BY HalfToEvenIs
<1>. HIDE DEF q, r
<1>2. q >= k
  <2>. SUFFICES ASSUME q + 1 <= k PROVE FALSE
    BY <1>1
  <2>1. (q + 1) * d <= k * d
    BY <1>1, Z3
  <2>2. (q + 1) * d = d * q + d /\ d * q \in Nat /\ k * d \in Nat
    BY <1>1, Z3
  <2>. QED
    BY <1>1, <2>1, <2>2
<1>. QED
  BY <1>1, <1>2

\* Every magnitude is below the one that is too large.
LEMMA MagnitudeTop ==
    ASSUME NEW m \in 0 .. Precision - 1, NEW f \in 0 .. MaxExp
    PROVE  /\ m * 2^f < Precision * 2^MaxExp
           /\ Precision * 2^MaxExp \in Nat /\ m * 2^f \in Nat
<1>1. f \in Nat /\ MaxExp \in Nat /\ f <= MaxExp /\ 2^f \in Nat /\ 2^f > 0 /\ Precision \in Nat /\ m \in Nat
  BY MagnitudeIs
<1>2. PICK b \in Nat : b > 0 /\ 2^MaxExp = b * 2^f
  BY <1>1, PowGrows
<1>. DEFINE F == 2^f
<1>3. F \in Nat /\ F > 0 /\ 2^MaxExp = b * F
  BY <1>1, <1>2
<1>. HIDE DEF F
<1>4. m * F < Precision * F
  BY <1>1, <1>3, Z3
<1>5. Precision * F <= Precision * (b * F)
  <2>1. Precision * F \in Nat
    BY <1>1, <1>3, NatProduct
  <2>2. Precision * (b * F) = b * (Precision * F)
    BY <1>1, <1>2, <1>3, Z3
  <2>. DEFINE x == Precision * F
  <2>3. x \in Nat
    BY <2>1
  <2>. HIDE DEF x
  <2>4. x <= b * x
    BY <1>2, <2>3, Z3
  <2>. QED
    BY <2>2, <2>4 DEF x
<1>6. m * F \in Nat /\ Precision * F \in Nat /\ b * F \in Nat
  BY <1>1, <1>2, <1>3, NatProduct
<1>7. Precision * (b * F) \in Nat
  BY <1>1, <1>6, NatProduct
<1>. QED
  BY <1>3, <1>4, <1>5, <1>6, <1>7 DEF F

\* A quotient that is at most half a unit above m units is rounded to m units or
\* less, if no smaller unit fits; so is one that is not above m units.
LEMMA RoundDown ==
    ASSUME NEW neg \in BOOLEAN, NEW n \in Nat, NEW d \in Nat, d > 0,
           NEW m \in 0 .. Precision - 1, NEW f \in 0 .. MaxExp,
           \/ n <= m * 2^f * d
           \/ 2 * n < (2 * m + 1) * 2^f * d /\ (Precision \div 2) * 2^f * d <= n
    PROVE  \E y \in Magnitude : Round(neg, n, d) = Finite(neg, y) /\ y <= m * 2^f
<1>. DEFINE e == Exponent(n, d)
            F == 2^f
            G == F * d
            k == Precision \div 2
<1>1. /\ F \in Nat /\ F > 0 /\ Precision \in Nat /\ k \in Nat /\ k > 0 /\ Precision = 2 * k
      /\ m \in Nat /\ m + 1 <= Precision /\ MaxExp \in Nat /\ f \in Nat
  BY MagnitudeIs
<1>2. \/ n <= m * F * d
      \/ 2 * n < (2 * m + 1) * F * d /\ k * F * d <= n
  OBVIOUS
<1>. HIDE DEF F, k
<1>3. G \in Nat /\ G > 0
  BY <1>1, NatProduct
<1>4. /\ m * F * d = m * G /\ (2 * m + 1) * F * d = (2 * m + 1) * G
      /\ k * F * d = k * G /\ Precision * F * d = Precision * G
  <2>1. m * F * d = m * G
    BY <1>1, Z3
  <2>2. (2 * m + 1) * F * d = (2 * m + 1) * G
    BY <1>1, Z3
  <2>3. k * F * d = k * G
    BY <1>1, Z3
  <2>4. Precision * F * d = Precision * G
    BY <1>1, Z3
  <2>. QED
    BY <2>1, <2>2, <2>3, <2>4
<1>. HIDE DEF G
<1>5. (2 * m + 1) * G = 2 * (m * G) + G /\ m * G \in Nat
  BY <1>1, <1>3, Z3
<1>6. 2 * n < (2 * m + 1) * G /\ n < Precision * G
  <2>1. (m + 1) * G <= Precision * G /\ (m + 1) * G = m * G + G
    BY <1>1, <1>3, Z3
  <2>2. Precision * G \in Nat
    BY <1>1, <1>3, NatProduct
  <2>. QED
    BY <1>2, <1>3, <1>4, <1>5, <2>1, <2>2
<1>7. f \in Fitting(n, d)
  BY <1>4, <1>6 DEF Fitting, F
<1>8. e \in Fitting(n, d) /\ e <= f
  BY <1>7, ExponentIs
<1>9. e \in 0 .. MaxExp /\ e \in Nat /\ 2^e \in Nat /\ 2^e > 0 /\ n < Precision * 2^e * d
  BY <1>8, MagnitudeIs DEF Fitting
<1>. DEFINE E == 2^e
            D == d * E
            h == HalfToEven(n, D)
<1>10. PICK c \in Nat : c > 0 /\ F = c * E
  BY <1>1, <1>8, <1>9, PowGrows DEF F
<1>11. E \in Nat /\ E > 0 /\ n < Precision * E * d
  BY <1>9
<1>. HIDE DEF e, E
<1>12. D \in Nat /\ D > 0
  BY <1>11, NatProduct
<1>13. h \in Nat
  <2>1. n \div D \in Nat /\ h \in {n \div D, n \div D + 1}
    BY <1>12, HalfToEvenIs
  <2>. QED
    BY <2>1
<1>14. h <= m * c
  <2>1. CASE n <= m * G
    <3>1. m * G = (m * c) * D /\ m * c \in Nat
      BY <1>1, <1>10, <1>11, Z3 DEF G
    <3>. DEFINE i == m * c
    <3>2. i \in Nat /\ n <= i * D
      BY <2>1, <3>1
    <3>. HIDE DEF i, D
    <3>3. (2 * i + 1) * D = 2 * (i * D) + D /\ i * D \in Nat
      BY <1>12, <3>2, Z3
    <3>4. 2 * n < (2 * i + 1) * D
      BY <1>12, <3>2, <3>3
    <3>. QED
      BY <1>12, <3>2, <3>4, HalfBelow DEF i
  <2>2. CASE k * G <= n
    <3>1. c = 1
      <4>1. (2 * k) * E * d = 2 * (k * (E * d)) /\ k * (c * (E * d)) = c * (k * (E * d))
            /\ k * G = k * (c * (E * d))
        <5>1. (2 * k) * E * d = 2 * (k * (E * d))
          BY <1>1, <1>11, Z3
        <5>2. k * (c * (E * d)) = c * (k * (E * d))
          BY <1>1, <1>10, <1>11, Z3
        <5>3. G = c * (E * d)
          BY <1>10, <1>11, Z3 DEF G
        <5>. QED
          BY <5>1, <5>2, <5>3
      <4>. DEFINE x == k * (E * d)
      <4>2. E * d \in Nat /\ E * d > 0
        BY <1>11, NatProduct
      <4>3. x \in Nat /\ x > 0
        BY <1>1, <4>2, NatProduct
      <4>4. c * x < 2 * x
        <5>1. c * x <= n /\ n < 2 * x
          BY <1>1, <1>11, <2>2, <4>1
        <5>. HIDE DEF x
        <5>2. c * x \in Nat
          BY <1>10, <4>3, NatProduct
        <5>. QED
          BY <4>3, <5>1, <5>2
      <4>. HIDE DEF x
      <4>5. c < 2
        BY <1>10, <4>3, <4>4, Z3
      <4>. QED
        BY <1>10, <4>5
    <3>2. F = E /\ G = D
      <4>1. F = E
        BY <1>10, <1>11, <3>1
      <4>2. E * d = d * E
        BY <1>11, Z3
      <4>. QED
        BY <4>1, <4>2 DEF G
    <3>3. 2 * n < (2 * m + 1) * D
      BY <1>6, <3>2
    <3>. HIDE DEF D
    <3>4. h <= m
      BY <1>1, <1>12, <3>3, HalfBelow
    <3>. QED
      BY <1>1, <3>1, <3>4
  <2>. QED
    BY <1>2, <1>4, <2>1, <2>2
<1>. HIDE DEF D, h
<1>15. h * E \in Nat /\ h * E <= m * F
  <2>1. h * E <= (m * c) * E
    <3>. DEFINE i == m * c
    <3>1. i \in Nat /\ h <= i
      BY <1>1, <1>10, <1>14, NatProduct
    <3>. HIDE DEF i
    <3>2. h * E <= i * E
      BY <1>11, <1>13, <3>1, Z3
    <3>. QED
      BY <3>2 DEF i
  <2>2. (m * c) * E = m * F
    BY <1>1, <1>10, <1>11, Z3
  <2>3. h * E \in Nat
    BY <1>11, <1>13, NatProduct
  <2>. QED
    BY <2>1, <2>2, <2>3
<1>16. m * F < Precision * 2^MaxExp /\ Precision * 2^MaxExp \in Nat /\ m * F \in Nat
  BY MagnitudeTop DEF F
<1>17. h * E # Precision * 2^MaxExp
  BY <1>15, <1>16
<1>18. Round(neg, n, d) = Finite(neg, h * E)
  <2>1. HalfToEven(n, d * 2^Exponent(n, d)) * 2^Exponent(n, d) = h * E
    BY DEF h, D, E, e
  <2>. QED
    BY <1>7, <1>17, <2>1, RoundIs
<1>19. h * E \in Magnitude
  <2>1. Finite(neg, h * E) \in Float64
    BY <1>18, RoundFloat
  <2>2. Finite(neg, h * E).mag = h * E
    BY DEF Finite
  <2>. QED
    BY <2>1, <2>2, FloatIs
<1>. QED
  BY <1>15, <1>18, <1>19 DEF F

\* A number that is not below a float is not rounded below it.
LEMMA RoundUp ==
    ASSUME NEW neg \in BOOLEAN, NEW n \in Nat, NEW d \in Nat, d > 0,
           NEW m \in 0 .. Precision - 1, NEW f \in 0 .. MaxExp, m * 2^f * d <= n,
           NEW y, Round(neg, n, d) = Finite(neg, y)
    PROVE  y >= m * 2^f
<1>. DEFINE e == Exponent(n, d)
            E == 2^e
            D == d * E
            h == HalfToEven(n, D)
            F == 2^f
<1>1. Fitting(n, d) # {} /\ y = h * E
  <2>1. Finite(neg, y).class = "finite" /\ Finite(neg, y).mag = y /\ Inf(neg).class = "inf"
    BY DEF Finite, Inf
  <2>2. Finite(neg, h * E).mag = h * E
    BY DEF Finite
  <2>3. Round(neg, n, d) = IF Fitting(n, d) = {} \/ h * E = Precision * 2^MaxExp
                           THEN Inf(neg) ELSE Finite(neg, h * E)
    BY RoundIs
  <2>. HIDE DEF h, E
  <2>. QED
    BY <2>1, <2>2, <2>3
<1>2. /\ e \in Fitting(n, d) /\ \A i \in Fitting(n, d) : e <= i
      /\ e \in 0 .. MaxExp /\ e \in Nat /\ E \in Nat /\ E > 0
  BY <1>1, ExponentIs, MagnitudeIs DEF Fitting
<1>3. /\ F \in Nat /\ F > 0 /\ Precision \in Nat /\ m \in Nat /\ m < Precision
      /\ MaxExp \in Nat /\ f \in Nat
  BY MagnitudeIs
<1>. HIDE DEF e
<1>4. CASE e <= f
  <2>1. PICK c \in Nat : c > 0 /\ F = c * E
    BY <1>2, <1>3, <1>4, PowGrows
  <2>2. m * F * d <= n
    OBVIOUS
  <2>. HIDE DEF E, F
  <2>. DEFINE i == m * c
  <2>3. i \in Nat /\ D \in Nat /\ D > 0
    BY <1>2, <1>3, <2>1, NatProduct
  <2>4. m * (c * E) * d = (m * c) * (d * E)
    BY <1>2, <1>3, <2>1, Z3
  <2>5. i * D <= n
    BY <2>1, <2>2, <2>4
  <2>6. h \in Nat /\ h >= i
    <3>. HIDE DEF i, D
    <3>1. h >= i
      BY <2>3, <2>5, HalfAbove
    <3>2. n \div D \in Nat /\ h \in {n \div D, n \div D + 1}
      BY <2>3, HalfToEvenIs
    <3>. QED
      BY <3>1, <3>2
  <2>7. m * (c * E) = i * E
    BY <1>2, <1>3, <2>1, Z3
  <2>. HIDE DEF i, h
  <2>8. h * E >= i * E
    BY <1>2, <2>3, <2>6, Z3
  <2>. QED
    BY <1>1, <2>1, <2>7, <2>8 DEF F
<1>5. CASE ~(e <= f)
  <2>. DEFINE g == e - 1
              B == 2^g
              k == Precision \div 2
  <2>1. g \in Nat /\ g \in 0 .. MaxExp /\ g + 1 = e /\ ~(e <= g) /\ f <= g
    BY <1>2, <1>3, <1>5
  <2>. HIDE DEF g
  <2>2. B \in Nat /\ B > 0 /\ 2^(g + 1) = 2 * B
    BY <2>1, PowNext, PowCounts
  <2>3. E = 2 * B
    BY <2>1, <2>2
  <2>4. ~(n < Precision * B * d)
    BY <1>2, <2>1 DEF Fitting
  <2>5. PICK c \in Nat : c > 0 /\ B = c * F
    BY <1>3, <2>1, PowGrows
  <2>6. k \in Nat /\ Precision = 2 * k
    BY MagnitudeIs
  <2>. HIDE DEF k, B, E, F
  <2>7. Precision * B * d \in Nat /\ Precision * B \in Nat /\ D \in Nat /\ D > 0
    <3>1. Precision * B \in Nat /\ D \in Nat /\ D > 0
      BY <1>2, <1>3, <2>2, NatProduct
    <3>. QED
      BY <3>1, NatProduct
  <2>8. (2 * k) * B * d = k * (d * (2 * B)) /\ (2 * k) * B = k * (2 * B)
    <3>1. (2 * k) * B * d = k * (d * (2 * B))
      BY <2>2, <2>6, Z3
    <3>2. (2 * k) * B = k * (2 * B)
      BY <2>2, <2>6, Z3
    <3>. QED
      BY <3>1, <3>2
  <2>9. k * D <= n
    BY <2>3, <2>4, <2>6, <2>7, <2>8
  <2>10. h \in Nat /\ h >= k
    <3>. HIDE DEF D
    <3>1. h >= k
      BY <2>6, <2>7, <2>9, HalfAbove
    <3>2. n \div D \in Nat /\ h \in {n \div D, n \div D + 1}
      BY <2>7, HalfToEvenIs
    <3>. QED
      BY <3>1, <3>2
  <2>. HIDE DEF h
  <2>11. h * E >= k * E
    BY <1>2, <2>6, <2>10, Z3
  <2>12. k * E = Precision * B
    BY <2>3, <2>6, <2>8
  <2>13. Precision * B >= m * F
    <3>1. m * F <= Precision * F
      BY <1>3, Z3
    <3>. DEFINE x == Precision * F
    <3>2. x \in Nat /\ m * F \in Nat
      BY <1>3, NatProduct
    <3>3. Precision * (c * F) = c * x
      BY <1>3, <2>5, Z3
    <3>4. m * F <= x
      BY <3>1
    <3>. HIDE DEF x
    <3>5. x <= c * x /\ c * x \in Nat
      BY <2>5, <3>2, Z3
    <3>. QED
      BY <2>5, <3>2, <3>3, <3>4, <3>5
  <2>14. h * E \in Nat /\ m * F \in Nat
    BY <1>2, <1>3, <2>10, NatProduct
  <2>. QED
    BY <1>1, <2>7, <2>11, <2>12, <2>13, <2>14 DEF F
<1>. QED
  BY <1>4, <1>5

\* A float is rounded to itself.
LEMMA RoundExact ==
    ASSUME NEW neg \in BOOLEAN, NEW x \in Magnitude, NEW d \in Nat, d > 0,
           NEW n, n = x * d
    PROVE  Round(neg, n, d) = Finite(neg, x)
<1>1. PICK m \in 0 .. Precision - 1, f \in 0 .. MaxExp : x = m * 2^f
  BY DEF Magnitude
<1>2. n \in Nat /\ n <= m * 2^f * d /\ m * 2^f * d <= n
  <2>1. x \in Nat
    BY MagnitudeIs
  <2>2. n \in Nat
    BY <2>1, NatProduct
  <2>. QED
    BY <1>1, <2>2
<1>3. PICK y \in Magnitude : Round(neg, n, d) = Finite(neg, y) /\ y <= x
  BY <1>1, <1>2, RoundDown
<1>4. y >= x
  BY <1>1, <1>2, <1>3, RoundUp
<1>5. y = x
  BY <1>3, <1>4, MagnitudeIs
<1>. QED
  BY <1>3, <1>5

\* The sign has no part in rounding.
LEMMA RoundSign ==
    ASSUME NEW neg, NEW n, NEW d
    PROVE  LET r == Round(FALSE, n, d)
           IN Round(neg, n, d) = IF IsFinite(r) THEN Finite(neg, r.mag) ELSE Inf(neg)
<1>. DEFINE mag == HalfToEven(n, d * 2^Exponent(n, d)) * 2^Exponent(n, d)
            large == Fitting(n, d) = {} \/ mag = Precision * 2^MaxExp
<1>1. \A s : Round(s, n, d) = IF large THEN Inf(s) ELSE Finite(s, mag)
  BY RoundIs
<1>. HIDE DEF mag, large
<1>2. Inf(FALSE).class = "inf" /\ Finite(FALSE, mag).class = "finite" /\ Finite(FALSE, mag).mag = mag
  BY DEF Inf, Finite
<1>. DEFINE r == Round(FALSE, n, d)
<1>3. CASE large
  <2>1. r = Inf(FALSE) /\ Round(neg, n, d) = Inf(neg)
    BY <1>1, <1>3
  <2>2. ~IsFinite(r)
    BY <1>2, <2>1 DEF IsFinite
  <2>. QED
    BY <2>1, <2>2
<1>4. CASE ~large
  <2>1. r = Finite(FALSE, mag) /\ Round(neg, n, d) = Finite(neg, mag)
    BY <1>1, <1>4
  <2>2. IsFinite(r) /\ r.mag = mag
    BY <1>2, <2>1 DEF IsFinite
  <2>. QED
    BY <2>1, <2>2
<1>. QED
  BY <1>3, <1>4

-----------------------------------------------------------------------------
(* Milliseconds: a float rounded to an integer, halves away from zero *)

\* The fields of a float.
LEMMA FieldsAre ==
    ASSUME NEW neg \in BOOLEAN, NEW m
    PROVE  /\ Finite(neg, m).class = "finite" /\ Finite(neg, m).neg = neg /\ Finite(neg, m).mag = m
           /\ Inf(neg).class = "inf" /\ Inf(neg).neg = neg /\ Inf(neg).mag = 0
           /\ NaN.class = "nan" /\ NaN.neg = FALSE /\ NaN.mag = 0
<1>1. Finite(neg, m).class = "finite" /\ Finite(neg, m).neg = neg /\ Finite(neg, m).mag = m
  BY DEF Finite
<1>2. Inf(neg).class = "inf" /\ Inf(neg).neg = neg /\ Inf(neg).mag = 0
  BY DEF Inf
<1>3. NaN.class = "nan" /\ NaN.neg = FALSE /\ NaN.mag = 0
  BY DEF NaN
<1>. QED
  BY <1>1, <1>2, <1>3, Zenon

\* Which floats are finite.
LEMMA ClassesAre ==
    ASSUME NEW neg \in BOOLEAN, NEW m
    PROVE  /\ IsFinite(Finite(neg, m)) /\ ~IsNaN(Finite(neg, m))
           /\ ~IsFinite(Inf(neg)) /\ ~IsNaN(Inf(neg))
           /\ ~IsFinite(NaN) /\ IsNaN(NaN)
           /\ Finite(neg, m) # Inf(TRUE) /\ Finite(neg, m) # Inf(FALSE) /\ Finite(neg, m) # NaN
           /\ (IsZero(Finite(neg, m)) <=> m = 0) /\ ~IsZero(Inf(neg)) /\ ~IsZero(NaN)
<1>1. \A s \in BOOLEAN :
        /\ IsFinite(Finite(neg, m)) /\ ~IsNaN(Finite(neg, m))
        /\ ~IsFinite(Inf(s)) /\ ~IsNaN(Inf(s))
        /\ ~IsFinite(NaN) /\ IsNaN(NaN)
  BY FieldsAre DEF IsFinite, IsNaN
<1>2. Finite(neg, m) # Inf(TRUE) /\ Finite(neg, m) # Inf(FALSE) /\ Finite(neg, m) # NaN
  BY <1>1
<1>3. (IsZero(Finite(neg, m)) <=> m = 0) /\ ~IsZero(Inf(neg)) /\ ~IsZero(NaN)
  BY <1>1, FieldsAre DEF IsZero
<1>. QED
  BY <1>1, <1>2, <1>3

\* Half a unit.
LEMMA HalfScale ==
    /\ Scale = 2 * (Scale \div 2) /\ Scale \div 2 \in Nat /\ Scale \div 2 > 0
    /\ Scale \div 2 \in Magnitude /\ Half = Finite(FALSE, Scale \div 2)
    /\ Negate(Half) = Finite(TRUE, Scale \div 2)
    /\ \E s \in 1 .. MaxExp : /\ Scale = 2^s /\ Scale \div 2 = 2^(s - 1)
                              /\ s \in 0 .. MaxExp /\ s - 1 \in 0 .. MaxExp
<1>1. PICK s \in 1 .. MaxExp : Scale = 2^s
  BY FloatAssumption
<1>. DEFINE k == s - 1
            p == 2^k
<1>2. k \in Nat /\ k \in 0 .. MaxExp /\ k + 1 = s /\ s \in 0 .. MaxExp
  BY <1>1, MagnitudeIs
<1>. HIDE DEF k
<1>3. 2^(k + 1) = 2 * p /\ p \in Nat /\ p > 0
  BY <1>2, PowNext, PowCounts
<1>4. Scale = 2 * p
  BY <1>1, <1>2, <1>3
<1>. HIDE DEF p
<1>5. Scale \div 2 = p
  BY <1>3, <1>4
<1>6. Half = Finite(FALSE, Scale \div 2)
  BY DEF Half
<1>7. Negate(Half) = Finite(TRUE, Scale \div 2)
  <2>1. ~IsNaN(Half)
    BY <1>6, ClassesAre
  <2>2. Negate(Half) = [Half EXCEPT !.neg = ~@]
    BY <2>1 DEF Negate
  <2>. QED
    BY <1>6, <2>2 DEF Finite
<1>8. Scale \div 2 = 2^(s - 1) /\ s - 1 \in 0 .. MaxExp
  BY <1>2, <1>5 DEF p, k
<1>9. Scale = 2 * (Scale \div 2) /\ Scale \div 2 \in Nat /\ Scale \div 2 > 0
  BY <1>3, <1>4, <1>5
<1>10. Scale \div 2 \in Magnitude
  BY ScaleIs
<1>11. \E i \in 1 .. MaxExp : /\ Scale = 2^i /\ Scale \div 2 = 2^(i - 1)
                              /\ i \in 0 .. MaxExp /\ i - 1 \in 0 .. MaxExp
  BY <1>1, <1>2, <1>8
<1>. QED
  BY <1>6, <1>7, <1>9, <1>10, <1>11, Zenon

\* An integer with a sign.
WithSign(neg, n) == IF neg THEN -n ELSE n
Whole(neg, m) == WithSign(neg, m \div Scale)

\* A truncated float is converted to its integer, if that is in range.
LEMMA ToIntTruncated ==
    ASSUME NEW neg \in BOOLEAN, NEW m \in Nat
    PROVE  ToInt(Truncated(Finite(neg, m))) =
             IF Whole(neg, m) \in Int64 THEN {Whole(neg, m)} ELSE OutOfRange
<1>. DEFINE k == m \div Scale
            r == m % Scale
            T == Scale * k
<1>1. Scale \in Nat /\ Scale > 0 /\ k \in Nat /\ r \in 0 .. Scale - 1 /\ m = Scale * k + r
  BY ScaleIs, DivMod, DivBound
<1>2. m - r = T /\ T \in Nat
  <2>. HIDE DEF k, r
  <2>1. Scale * k \in Nat
    BY <1>1, NatProduct
  <2>. QED
    BY <1>1, <2>1
<1>0. ASSUME NEW n PROVE Truncated(Finite(neg, n)) = Finite(neg, n - (n % Scale))
  <2>. DEFINE f == Finite(neg, n)
  <2>1. IsFinite(f) /\ f.neg = neg /\ f.mag = n
    BY ClassesAre, FieldsAre
  <2>. HIDE DEF f
  <2>. QED
    BY <2>1 DEF Truncated, f
<1>3. Truncated(Finite(neg, m)) = Finite(neg, T)
  BY <1>0, <1>2
<1>4. T % Scale = 0 /\ T \div Scale = k
  <2>. HIDE DEF k
  <2>1. T = Scale * k + 0 /\ 0 \in 0 .. Scale - 1
    BY <1>1, <1>2
  <2>. QED
    BY <1>1, <1>2, <2>1, DivModUnique
<1>5. Truncated(Finite(neg, T)) = Finite(neg, T)
  <2>. HIDE DEF T
  <2>1. T - (T % Scale) = T
    BY <1>2, <1>4
  <2>. QED
    BY <1>0, <2>1
<1>6. Signed(Finite(neg, T)) = WithSign(neg, T)
  BY FieldsAre DEF Signed, WithSign
<1>7. WithSign(neg, T) \div Scale = Whole(neg, m)
  <2>1. (-T) \div Scale = -k
    <3>. HIDE DEF k
    <3>1. -T = Scale * (-k) + 0 /\ 0 \in 0 .. Scale - 1 /\ -k \in Int /\ -T \in Int
      BY <1>1, <1>2
    <3>. HIDE DEF T
    <3>. QED
      BY <1>1, <3>1, DivModUnique
  <2>. QED
    BY <1>4, <2>1 DEF WithSign, Whole
<1>. HIDE DEF T
<1>8. IsFinite(Finite(neg, T))
  BY ClassesAre
<1>. QED
  BY <1>3, <1>5, <1>6, <1>7, <1>8 DEF ToInt

\* A float is rounded to an integer alike whatever its sign.
LEMMA RoundHalfAwayIs ==
    ASSUME NEW neg \in BOOLEAN, NEW x \in Magnitude
    PROVE  LET r == Round(FALSE, x + Scale \div 2, 1)
           IN ToInt(RoundHalfAway(Finite(neg, x))) =
                IF IsFinite(r) /\ Whole(neg, r.mag) \in Int64
                THEN {Whole(neg, r.mag)} ELSE OutOfRange
<1>. DEFINE H == Scale \div 2
            r == Round(FALSE, x + H, 1)
            f == Finite(neg, x)
            zero == Finite(FALSE, 0)
<1>1. /\ H \in Nat /\ H > 0 /\ x \in Nat /\ Half = Finite(FALSE, H)
      /\ Negate(Half) = Finite(TRUE, H) /\ Scale = 2 * H /\ H \in Magnitude
  BY HalfScale, MagnitudeIs
<1>. HIDE DEF H
<1>2. r \in Float64
  <2>. DEFINE n == x + H
  <2>1. n \in Nat
    BY <1>1
  <2>. HIDE DEF n
  <2>3. \A s \in BOOLEAN : Round(s, n, 1) \in Float64
    BY <2>1, RoundFloat
  <2>2. Round(FALSE, n, 1) \in Float64
    BY <2>3, Zenon
  <2>. QED
    BY <2>2 DEF n
<1>3. Less(f, zero) <=> neg /\ x > 0
  <2>1. Signed(f) = WithSign(neg, x) /\ Signed(zero) = 0
    BY FieldsAre DEF Signed, WithSign
  <2>2. ~IsNaN(f) /\ ~IsNaN(zero) /\ IsFinite(f) /\ IsFinite(zero) /\ f # Inf(TRUE) /\ zero # Inf(FALSE)
    BY ClassesAre
  <2>3. Less(f, zero) <=> f # zero /\ Signed(f) < Signed(zero)
    BY <2>2 DEF Less
  <2>. HIDE DEF f, zero
  <2>4. WithSign(neg, x) < 0 <=> neg /\ x > 0
    BY <1>1 DEF WithSign
  <2>5. WithSign(neg, x) \in Int
    BY <1>1 DEF WithSign
  <2>6. f = zero => WithSign(neg, x) = 0
    BY <2>1
  <2>. QED
    BY <2>1, <2>3, <2>4, <2>5, <2>6
<1>. DEFINE R(s) == Round(s, x + H, 1)
<1>4. \A s \in BOOLEAN : R(s) = IF IsFinite(r) THEN Finite(s, r.mag) ELSE Inf(s)
  BY RoundSign
<1>5. \A s \in BOOLEAN : R(s).neg = s
  <2>. SUFFICES ASSUME NEW s \in BOOLEAN PROVE R(s).neg = s
    OBVIOUS
  <2>1. R(s) = Finite(s, r.mag) \/ R(s) = Inf(s)
    BY <1>4
  <2>2. Finite(s, r.mag).neg = s /\ Inf(s).neg = s
    BY FieldsAre
  <2>. HIDE DEF R, r
  <2>. QED
    BY <2>1, <2>2, Zenon
<1>6. \A s \in BOOLEAN : Truncated(R(s)) = IF IsFinite(r) THEN Truncated(Finite(s, r.mag)) ELSE Inf(s)
  BY <1>4, ClassesAre DEF Truncated
<1>7. r.mag \in Nat
  BY <1>2, FloatIs
<1>. HIDE DEF R, r
<1>8. \A s \in BOOLEAN : ToInt(Truncated(R(s))) = IF IsFinite(r) /\ Whole(s, r.mag) \in Int64
                                                   THEN {Whole(s, r.mag)} ELSE OutOfRange
  <2>. SUFFICES ASSUME NEW s \in BOOLEAN
                PROVE  ToInt(Truncated(R(s))) = IF IsFinite(r) /\ Whole(s, r.mag) \in Int64
                                                THEN {Whole(s, r.mag)} ELSE OutOfRange
    OBVIOUS
  <2>1. CASE IsFinite(r)
    BY <1>6, <1>7, <2>1, ToIntTruncated
  <2>2. CASE ~IsFinite(r)
    BY <1>6, <2>2, ClassesAre DEF ToInt
  <2>. QED
    BY <2>1, <2>2
<1>9. CASE neg /\ x > 0
  <2>1. RoundHalfAway(f) = Ceil(Plus(f, Finite(TRUE, H)))
    BY <1>1, <1>3, <1>9 DEF RoundHalfAway
  <2>2. Plus(f, Finite(TRUE, H)) = R(TRUE)
    <3>1. Signed(f) = -x /\ Signed(Finite(TRUE, H)) = -H
      BY <1>9, FieldsAre DEF Signed
    <3>2. /\ -x + -H < 0 /\ Abs(-x + -H) = x + H
      BY <1>1, <1>9 DEF Abs
    <3>3. /\ ~IsNaN(f) /\ ~IsNaN(Finite(TRUE, H)) /\ IsFinite(f) /\ IsFinite(Finite(TRUE, H))
      BY ClassesAre
    <3>4. Plus(f, Finite(TRUE, H)) =
            Round(-x + -H < 0 \/ (f.neg /\ Finite(TRUE, H).neg), Abs(-x + -H), 1)
      BY <3>1, <3>3 DEF Plus
    <3>5. (-x + -H < 0 \/ (f.neg /\ Finite(TRUE, H).neg)) = TRUE
      BY <3>2
    <3>. QED
      BY <3>2, <3>4, <3>5 DEF R
  <2>3. Ceil(R(TRUE)) = Truncated(R(TRUE))
    BY <1>5 DEF Ceil
  <2>. QED
    BY <1>8, <1>9, <2>1, <2>2, <2>3 DEF r, H
<1>10. CASE ~(neg /\ x > 0)
  <2>1. RoundHalfAway(f) = Floor(Plus(f, Finite(FALSE, H)))
    BY <1>1, <1>3, <1>10 DEF RoundHalfAway
  <2>2. Plus(f, Finite(FALSE, H)) = R(FALSE)
    <3>1. Signed(f) = x /\ Signed(Finite(FALSE, H)) = H
      <4>1. f.neg = neg /\ f.mag = x /\ Finite(FALSE, H).neg = FALSE /\ Finite(FALSE, H).mag = H
        BY FieldsAre
      <4>2. neg => x = 0 /\ -x = x
        BY <1>1, <1>10
      <4>. HIDE DEF f
      <4>. QED
        BY <4>1, <4>2 DEF Signed
    <3>2. /\ ~(x + H < 0) /\ Abs(x + H) = x + H
      BY <1>1 DEF Abs
    <3>3. /\ ~IsNaN(f) /\ ~IsNaN(Finite(FALSE, H)) /\ IsFinite(f) /\ IsFinite(Finite(FALSE, H))
      BY ClassesAre
    <3>4. Plus(f, Finite(FALSE, H)) =
            Round(x + H < 0 \/ (f.neg /\ Finite(FALSE, H).neg), Abs(x + H), 1)
      BY <3>1, <3>3 DEF Plus
    <3>5. Finite(FALSE, H).neg = FALSE
      BY FieldsAre
    <3>6. (x + H < 0 \/ (f.neg /\ Finite(FALSE, H).neg)) = FALSE
      BY <3>2, <3>5
    <3>. QED
      BY <3>2, <3>4, <3>6 DEF R
  <2>3. Floor(R(FALSE)) = Truncated(R(FALSE))
    BY <1>5 DEF Floor
  <2>4. ToInt(RoundHalfAway(f)) = IF IsFinite(r) /\ Whole(FALSE, r.mag) \in Int64
                                  THEN {Whole(FALSE, r.mag)} ELSE OutOfRange
    BY <1>8, <2>1, <2>2, <2>3
  <2>5. neg => Whole(neg, r.mag) = Whole(FALSE, r.mag)
    <3>. SUFFICES ASSUME neg
                  PROVE  Whole(neg, r.mag) = Whole(FALSE, r.mag)
      OBVIOUS
    <3>1. x = 0
      BY <1>1, <1>10
    <3>2. x + H = H /\ H = H * 1
      BY <1>1, <3>1
    <3>3. r = Finite(FALSE, H)
      <4>1. Round(FALSE, H, 1) = Finite(FALSE, H)
        <5>1. \A s \in BOOLEAN : Round(s, H, 1) = Finite(s, H)
          BY <1>1, <3>2, RoundExact
        <5>. QED
          BY <5>1, Zenon
      <4>. QED
        BY <3>2, <4>1 DEF r
    <3>4. r.mag = H
      BY <3>3, FieldsAre
    <3>5. H \div Scale = 0
      <4>1. H = Scale * 0 + H /\ H \in 0 .. Scale - 1 /\ Scale \in Nat /\ Scale > 0
        BY <1>1
      <4>. QED
        BY <1>1, <4>1, DivModUnique
    <3>. QED
      BY <3>4, <3>5 DEF Whole, WithSign
  <2>6. Whole(neg, r.mag) = Whole(FALSE, r.mag)
    BY <2>5
  <2>. QED
    BY <2>4, <2>6 DEF r, H
<1>. QED
  BY <1>9, <1>10

-----------------------------------------------------------------------------
(* Exact integers, products and quotients *)

\* An integer is in the range of floats.
LEMMA ToFloatFinite ==
    ASSUME NEW n \in Int64
    PROVE  \E y \in Magnitude : ToFloat(n) = Finite(n < 0, y)
<1>. DEFINE a == Abs(n)
            neg == n < 0
            k == Precision \div 2
            T == 2^MaxExp
<1>1. /\ MaxInt \in Nat /\ n \in Int /\ a \in Nat /\ a <= MaxInt + 1 /\ neg \in BOOLEAN
      /\ Scale \in Nat /\ k \in 0 .. Precision - 1 /\ k \in Nat /\ Precision = 2 * k
      /\ MaxExp \in 0 .. MaxExp /\ T \in Nat
  BY IntAssumption, MagnitudeIs, ScaleIs DEF Int64, MinInt, Abs
<1>2. 2 * (MaxInt + 1) * Scale <= Precision * T
  BY FloatAssumption
<1>3. ToFloat(n) = Round(neg, a * Scale, 1)
  BY DEF ToFloat
<1>. HIDE DEF a, neg, k, T
<1>4. a * Scale \in Nat
  BY <1>1, NatProduct
<1>5. a * Scale <= (MaxInt + 1) * Scale /\ (MaxInt + 1) * Scale \in Nat
  <2>. DEFINE i == MaxInt + 1
  <2>1. i \in Nat /\ a <= i
    BY <1>1
  <2>. HIDE DEF i
  <2>2. a * Scale <= i * Scale /\ i * Scale \in Nat
    BY <1>1, <2>1, Z3
  <2>. QED
    BY <2>2 DEF i
<1>6. 2 * (MaxInt + 1) * Scale = 2 * ((MaxInt + 1) * Scale) /\ (2 * k) * T = 2 * (k * T) /\ k * T \in Nat
  <2>1. 2 * (MaxInt + 1) * Scale = 2 * ((MaxInt + 1) * Scale)
    BY <1>1, Z3
  <2>2. (2 * k) * T = 2 * (k * T)
    BY <1>1, Z3
  <2>. QED
    BY <1>1, <2>1, <2>2, NatProduct
<1>7. a * Scale <= k * T * 1
  BY <1>1, <1>2, <1>4, <1>5, <1>6
<1>8. \E y \in Magnitude : Round(neg, a * Scale, 1) = Finite(neg, y) /\ y <= k * T
  <2>. DEFINE x == a * Scale
  <2>1. x \in Nat /\ x <= k * 2^MaxExp * 1
    BY <1>4, <1>7 DEF T
  <2>. HIDE DEF x
  <2>2. \E y \in Magnitude : Round(neg, x, 1) = Finite(neg, y) /\ y <= (Precision \div 2) * 2^MaxExp
    BY <1>1, <2>1, RoundDown DEF k
  <2>. QED
    BY <2>2 DEF x, T, k
<1>. QED
  BY <1>3, <1>8 DEF neg

\* A small integer is a float.
LEMMA ToFloatExact ==
    ASSUME NEW n \in Int, Abs(n) < Precision
    PROVE  ToFloat(n) = Finite(n < 0, Abs(n) * Scale) /\ Abs(n) * Scale \in Magnitude
<1>. DEFINE a == Abs(n)
            neg == n < 0
            x == a * Scale
<1>1. a \in 0 .. Precision - 1 /\ neg \in BOOLEAN
  BY MagnitudeIs, AbsNat
<1>2. x \in Magnitude
  <2>1. PICK s \in 0 .. MaxExp : Scale = 2^s
    BY HalfScale
  <2>. HIDE DEF a
  <2>. QED
    BY <1>1, <2>1, MagnitudeIs
<1>3. ToFloat(n) = Round(neg, x, 1)
  BY DEF ToFloat
<1>. HIDE DEF neg, x
<1>4. x = x * 1
  BY <1>2, MagnitudeIs
<1>5. Round(neg, x, 1) = Finite(neg, x)
  BY <1>1, <1>2, <1>4, RoundExact
<1>. QED
  BY <1>2, <1>3, <1>5 DEF neg, x

\* What a duration is rounded to.
LEMMA RoundedTo ==
    ASSUME NEW neg \in BOOLEAN, NEW x \in Magnitude, NEW K \in Nat, K <= MaxInt,
           NEW z \in Nat, Round(FALSE, x + Scale \div 2, 1) = Finite(FALSE, z),
           K * Scale <= z, z < (K + 1) * Scale
    PROVE  Milliseconds(Finite(neg, x)) = {Ok("Duration", WithSign(neg, K))}
<1>1. Scale \in Nat /\ Scale > 0
  BY ScaleIs
<1>2. z \div Scale = K
  <2>. DEFINE r == z - K * Scale
              S == Scale
  <2>1. (K + 1) * S = K * S + S /\ K * S \in Nat /\ K * S = S * K
    BY <1>1, Z3
  <2>2. r \in 0 .. S - 1 /\ z = S * K + r
    BY <1>1, <2>1
  <2>. HIDE DEF r
  <2>. QED
    BY <1>1, <2>2, DivModUnique
<1>3. IsFinite(Finite(FALSE, z)) /\ Finite(FALSE, z).mag = z
  <2>1. \A s \in BOOLEAN : IsFinite(Finite(s, z)) /\ Finite(s, z).mag = z
    BY ClassesAre, FieldsAre
  <2>. QED
    BY <2>1, Zenon
<1>4. Whole(neg, z) = WithSign(neg, K)
  BY <1>2 DEF Whole
<1>5. WithSign(neg, K) \in Int64
  BY IntAssumption DEF WithSign, Int64, MinInt
<1>6. ToInt(RoundHalfAway(Finite(neg, x))) = {WithSign(neg, K)}
  BY <1>3, <1>4, <1>5, RoundHalfAwayIs
<1>. QED
  BY <1>6 DEF Milliseconds

\* A product of finite floats.
LEMMA TimesIs ==
    ASSUME NEW a \in BOOLEAN, NEW b \in BOOLEAN, NEW x, NEW y
    PROVE  Times(Finite(a, x), Finite(b, y)) = Round(a # b, x * y, Scale)
<1>. DEFINE f == Finite(a, x)
            g == Finite(b, y)
<1>1. f.neg = a /\ f.mag = x /\ IsFinite(f) /\ ~IsNaN(f)
  BY FieldsAre, ClassesAre
<1>2. g.neg = b /\ g.mag = y /\ IsFinite(g) /\ ~IsNaN(g)
  BY FieldsAre, ClassesAre
<1>. HIDE DEF f, g
<1>3. Times(f, g) = Round(f.neg # g.neg, f.mag * g.mag, Scale)
  BY <1>1, <1>2, Zenon DEF Times
<1>4. Times(f, g) = Round(a # b, x * y, Scale)
  BY <1>1, <1>2, <1>3, Zenon
<1>. QED
  BY <1>4 DEF f, g

\* A quotient of finite floats.
LEMMA OverIs ==
    ASSUME NEW a \in BOOLEAN, NEW b \in BOOLEAN, NEW x, NEW y
    PROVE  Over(Finite(a, x), Finite(b, y)) = Round(a # b, x * Scale, y)
<1>. DEFINE f == Finite(a, x)
            g == Finite(b, y)
<1>1. f.neg = a /\ f.mag = x /\ IsFinite(f) /\ ~IsNaN(f)
  BY FieldsAre, ClassesAre
<1>2. g.neg = b /\ g.mag = y /\ IsFinite(g) /\ ~IsNaN(g)
  BY FieldsAre, ClassesAre
<1>. HIDE DEF f, g
<1>3. Over(f, g) = Round(f.neg # g.neg, f.mag * Scale, g.mag)
  BY <1>1, <1>2, Zenon DEF Over
<1>4. Over(f, g) = Round(a # b, x * Scale, y)
  BY <1>1, <1>2, <1>3, Zenon
<1>. QED
  BY <1>4 DEF f, g

\* The product of the absolute values.
LEMMA AbsProduct ==
    ASSUME NEW d \in Int, NEW n \in Int
    PROVE  /\ Abs(d * n) = Abs(d) * Abs(n)
           /\ d * n = WithSign((d < 0) # (n < 0), Abs(d) * Abs(n))
<1>1. CASE d >= 0 /\ n >= 0
  <2>1. d * n >= 0 /\ d * n \in Int
    BY <1>1, Z3
  <2>. QED
    BY <1>1, <2>1 DEF Abs, WithSign
<1>2. CASE d >= 0 /\ n < 0
  <2>1. d * n <= 0 /\ d * n \in Int /\ d * (-n) = -(d * n)
    BY <1>2, Z3
  <2>. QED
    BY <1>2, <2>1 DEF Abs, WithSign
<1>3. CASE d < 0 /\ n >= 0
  <2>1. d * n <= 0 /\ d * n \in Int /\ (-d) * n = -(d * n)
    BY <1>3, Z3
  <2>. QED
    BY <1>3, <2>1 DEF Abs, WithSign
<1>4. CASE d < 0 /\ n < 0
  <2>1. d * n >= 0 /\ d * n \in Int /\ (-d) * (-n) = d * n
    BY <1>4, Z3
  <2>. QED
    BY <1>4, <2>1 DEF Abs, WithSign
<1>. QED
  BY <1>1, <1>2, <1>3, <1>4

\* A small product of integers is computed without an error.
LEMMA ProductExact ==
    ASSUME NEW d \in Int64, NEW n \in Int64, 2 * Abs(d * n) < Precision
    PROVE  Milliseconds(Times(ToFloat(d), ToFloat(n))) = {Ok("Duration", d * n)}
<1>. DEFINE a == Abs(d)
            b == Abs(n)
            k == a * b
            dneg == d < 0
            nneg == n < 0
            neg == dneg # nneg
            H == Scale \div 2
<1>1. /\ d \in Int /\ n \in Int /\ a \in Nat /\ b \in Nat /\ MaxInt \in Nat
      /\ dneg \in BOOLEAN /\ nneg \in BOOLEAN /\ neg \in BOOLEAN
      /\ (d = 0 <=> a = 0) /\ (n = 0 <=> b = 0)
  BY IntAssumption DEF Int64, MinInt, Abs
<1>2. Abs(d * n) = k /\ d * n = WithSign(neg, k)
  BY <1>1, AbsProduct
<1>3. k \in Nat /\ 2 * k + 1 \in 0 .. Precision - 1 /\ k <= MaxInt /\ k \in 0 .. Precision - 1
  <2>1. k \in Nat
    BY <1>1, NatProduct
  <2>2. Precision \in Nat /\ Precision = 2 * (Precision \div 2) /\ Precision \div 2 \in Nat
    BY MagnitudeIs
  <2>3. Precision <= MaxInt
    BY FloatAssumption
  <2>. HIDE DEF k
  <2>. QED
    BY <1>1, <1>2, <2>1, <2>2, <2>3
<1>4. PICK x \in Magnitude : ToFloat(d) = Finite(dneg, x) /\ (a < Precision => x = a * Scale)
  BY <1>1, ToFloatFinite, ToFloatExact, FieldsAre
<1>5. PICK y \in Magnitude : ToFloat(n) = Finite(nneg, y) /\ (b < Precision => y = b * Scale)
  BY <1>1, ToFloatFinite, ToFloatExact, FieldsAre
<1>6. Scale \in Nat /\ Scale > 0 /\ x \in Nat /\ y \in Nat /\ Precision \in Nat /\ Precision > 0
  BY ScaleIs, MagnitudeIs
<1>. HIDE DEF a, b, dneg, nneg, neg
<1>7. x * y = (k * Scale) * Scale
  <2>1. CASE a = 0
    <3>1. x = 0
      BY <1>4, <1>6, <2>1
    <3>2. k = 0
      BY <1>1, <2>1
    <3>. QED
      BY <1>6, <3>1, <3>2
  <2>2. CASE b = 0
    <3>1. y = 0
      BY <1>5, <1>6, <2>2
    <3>2. k = 0
      BY <1>1, <2>2
    <3>. QED
      BY <1>6, <3>1, <3>2
  <2>3. CASE a > 0 /\ b > 0
    <3>1. a <= a * b /\ b <= a * b
      BY <1>1, <2>3, Z3
    <3>2. a < Precision /\ b < Precision
      <4>. HIDE DEF k
      <4>. QED
        BY <1>1, <1>3, <1>6, <3>1 DEF k
    <3>3. x = a * Scale /\ y = b * Scale
      BY <1>4, <1>5, <3>2
    <3>4. (a * Scale) * (b * Scale) = ((a * b) * Scale) * Scale
      BY <1>1, <1>6, Z3
    <3>. QED
      BY <3>3, <3>4
  <2>. QED
    BY <1>1, <2>1, <2>2, <2>3
<1>. HIDE DEF k
<1>. DEFINE w == k * Scale
<1>8. PICK s \in 1 .. MaxExp : /\ Scale = 2^s /\ H = 2^(s - 1)
                               /\ s \in 0 .. MaxExp /\ s - 1 \in 0 .. MaxExp
  BY HalfScale
<1>9. Scale = 2 * H /\ H \in Nat /\ H > 0
  BY HalfScale
<1>. HIDE DEF H
<1>10. w \in Magnitude
  BY <1>3, <1>8, MagnitudeIs
<1>11. Times(ToFloat(d), ToFloat(n)) = Finite(neg, w)
  <2>1. Times(ToFloat(d), ToFloat(n)) = Round(neg, x * y, Scale)
    BY <1>1, <1>4, <1>5, TimesIs DEF neg
  <2>. HIDE DEF w
  <2>2. Round(neg, x * y, Scale) = Finite(neg, w)
    BY <1>1, <1>6, <1>7, <1>10, RoundExact DEF w
  <2>. QED
    BY <2>1, <2>2
<1>. DEFINE v == (2 * k + 1) * H
<1>12. v \in Magnitude
  <2>. DEFINE i == 2 * k + 1
  <2>1. i \in 0 .. Precision - 1
    BY <1>3
  <2>. HIDE DEF i
  <2>2. i * H \in Magnitude
    BY <1>8, <2>1, MagnitudeIs
  <2>. QED
    BY <2>2 DEF i
<1>13. v = w + H /\ v = v * 1 /\ v \in Nat /\ k * Scale <= v /\ v < (k + 1) * Scale
  <2>1. (2 * k + 1) * H = k * (2 * H) + H /\ k * (2 * H) \in Nat
    BY <1>3, <1>9, Z3
  <2>2. (k + 1) * (2 * H) = k * (2 * H) + 2 * H
    BY <1>3, <1>9, Z3
  <2>. QED
    BY <1>9, <2>1, <2>2
<1>14. Round(FALSE, w + H, 1) = Finite(FALSE, v)
  <2>. HIDE DEF v, w
  <2>1. \A i \in BOOLEAN : Round(i, v, 1) = Finite(i, v)
    BY <1>12, <1>13, RoundExact
  <2>2. Round(FALSE, v, 1) = Finite(FALSE, v)
    BY <2>1, Zenon
  <2>. QED
    BY <1>13, <2>2
<1>15. Milliseconds(Finite(neg, w)) = {Ok("Duration", WithSign(neg, k))}
  <2>. HIDE DEF v, w
  <2>1. /\ neg \in BOOLEAN /\ w \in Magnitude /\ k \in Nat /\ k <= MaxInt /\ v \in Nat
        /\ k * Scale <= v /\ v < (k + 1) * Scale
    BY <1>1, <1>3, <1>10, <1>13
  <2>2. Round(FALSE, w + Scale \div 2, 1) = Finite(FALSE, v)
    BY <1>14 DEF H
  <2>. HIDE DEF H
  <2>. QED
    BY <2>1, <2>2, RoundedTo
<1>. QED
  BY <1>2, <1>11, <1>15

-----------------------------------------------------------------------------
(* Quotients of small integers *)

\* A product grows with its factor.
LEMMA LessTimes ==
    ASSUME NEW a \in Int, NEW b \in Int, NEW c \in Nat
    PROVE  /\ a * c \in Int /\ b * c \in Int
           /\ a <= b => a * c <= b * c
           /\ a < b /\ c > 0 => a * c < b * c
<1>1. a * c \in Int /\ b * c \in Int
  BY Z3
<1>2. ASSUME a <= b PROVE a * c <= b * c
  BY <1>2, Z3
<1>3. ASSUME a < b, c > 0 PROVE a * c < b * c
  BY <1>3, Z3
<1>. QED
  BY <1>1, <1>2, <1>3

\* One is as many units as a float counts, one half is half as many.
LEMMA UnitsOfOne ==
    \E u \in 0 .. MaxExp :
        /\ 2^u \in Nat /\ 2^u > 0
        /\ Scale = Precision * 2^u /\ Scale \div 2 = (Precision \div 2) * 2^u
<1>1. PICK p \in 1 .. MaxExp, s \in 1 .. MaxExp : p <= s /\ Precision = 2^p /\ Scale = 2^s
  BY FloatAssumption
<1>. DEFINE u == s - p
            k == Precision \div 2
<1>2. u \in Nat /\ p \in Nat /\ s = u + p /\ u \in 0 .. MaxExp /\ s - 1 \in Nat
  BY <1>1, MagnitudeIs
<1>3. 2^(u + p) = 2^p * 2^u
  BY <1>2, PowSplits
<1>4. 2^u \in Nat /\ 2^u > 0 /\ Precision = 2 * k /\ k \in Nat
  BY <1>2, MagnitudeIs
<1>5. Scale = Precision * 2^u
  BY <1>1, <1>2, <1>3
<1>. DEFINE U == 2^u
<1>6. U \in Nat /\ Scale = (2 * k) * U
  BY <1>4, <1>5
<1>7. U > 0
  BY <1>4
<1>. HIDE DEF U, k, u
<1>8. (2 * k) * U = 2 * (k * U) /\ k * U \in Nat
  BY <1>4, <1>6, Z3
<1>9. Scale \div 2 = k * U
  <2>. DEFINE v == k * U
  <2>1. v \in Nat /\ Scale = 2 * v
    BY <1>6, <1>8
  <2>. HIDE DEF v
  <2>2. (2 * v) \div 2 = v
    BY <2>1
  <2>. QED
    BY <2>1, <2>2 DEF v
<1>. QED
  BY <1>2, <1>4, <1>5, <1>9 DEF k, U

\* The powers of two around K, and the unit of the floats near K and a half.
LEMMA UnitAround ==
    ASSUME NEW K \in Nat, K > 0, 2 * K < Precision
    PROVE  \E T \in Nat, Q \in Nat, g \in 0 .. MaxExp :
               /\ T > 0 /\ Q > 0 /\ T <= K /\ K < 2 * T
               /\ Precision = 4 * (T * Q)
               /\ Scale \div 2 = Q * 2^g /\ 2^g \in Nat /\ 2^g > 0
<1>1. PICK p \in 1 .. MaxExp, s \in 1 .. MaxExp : p <= s /\ Precision = 2^p /\ Scale = 2^s
  BY FloatAssumption
<1>2. p \in Nat /\ s \in Nat /\ p > 0 /\ MaxExp \in Nat /\ Precision \in Nat
  BY <1>1, MagnitudeIs
<1>. DEFINE Above == {i \in Nat : K < 2^i}
<1>3. p \in Above
  BY <1>1, <1>2
<1>4. PICK i \in Above : \A m \in Above : i <= m
  BY <1>3, LeastNumber
<1>5. i \in Nat /\ i <= p /\ K < 2^i
  BY <1>3, <1>4
<1>6. i # 0
  <2>. SUFFICES ASSUME i = 0 PROVE FALSE
    OBVIOUS
  <2>1. 2^i = 2^0 /\ 2^0 = 1
    OBVIOUS
  <2>2. K < 1
    BY <1>5, <2>1
  <2>. QED
    BY <2>2
<1>. DEFINE j == i - 1
            T == 2^j
<1>7. j \in Nat /\ j \in 0 .. MaxExp /\ i = 1 + j /\ j \notin Above
  BY <1>1, <1>2, <1>4, <1>5, <1>6
<1>8. T \in Nat /\ T > 0 /\ T <= K
  <2>1. T \in Nat /\ T > 0
    BY <1>7, MagnitudeIs
  <2>. QED
    BY <1>7, <2>1
<1>9. 2^i = 2 * T /\ K < 2 * T
  <2>1. 2^(1 + j) = 2^j * 2^1
    BY <1>7, PowSplits
  <2>2. 2^1 = 2
    OBVIOUS
  <2>. QED
    BY <1>5, <1>7, <1>8, <2>1, <2>2
<1>10. i < p
  <2>. SUFFICES ASSUME i = p PROVE FALSE
    BY <1>2, <1>5
  <2>1. Precision = 2 * T
    BY <1>1, <1>9
  <2>. HIDE DEF T
  <2>. QED
    BY <1>2, <1>8, <2>1
<1>. DEFINE q == p - 1 - i
            Q == 2^q
            g == (s - p) + i
            G == 2^g
<1>11. /\ q \in Nat /\ q \in 0 .. MaxExp /\ g \in Nat /\ g \in 0 .. MaxExp
       /\ p = (q + i) + 1 /\ s - 1 = g + q /\ s - 1 \in Nat
  BY <1>1, <1>2, <1>5, <1>7, <1>10
<1>12. Q \in Nat /\ Q > 0 /\ G \in Nat /\ G > 0
  BY <1>11, MagnitudeIs
<1>13. Precision = 4 * (T * Q)
  <2>1. 2^((q + i) + 1) = 2^1 * 2^(q + i)
    <3>. DEFINE e == q + i
    <3>1. e \in Nat /\ 1 \in Nat
      BY <1>5, <1>11
    <3>. HIDE DEF e
    <3>2. 2^(e + 1) = 2^1 * 2^e
      BY <3>1, PowSplits
    <3>. QED
      BY <3>2 DEF e
  <2>2. 2^(q + i) = 2^i * 2^q
    BY <1>5, <1>11, PowSplits
  <2>3. 2^1 = 2
    OBVIOUS
  <2>4. Precision = 2 * ((2 * T) * Q)
    BY <1>1, <1>9, <1>11, <2>1, <2>2, <2>3
  <2>. HIDE DEF T, Q
  <2>5. 2 * ((2 * T) * Q) = 4 * (T * Q)
    BY <1>8, <1>12, Z3
  <2>. QED
    BY <2>4, <2>5
<1>14. Scale \div 2 = Q * G
  <2>1. 2^(g + q) = 2^q * 2^g
    BY <1>11, PowSplits
  <2>2. 2^(1 + (s - 1)) = 2^(s - 1) * 2^1
    BY <1>11, PowSplits
  <2>3. 2^1 = 2 /\ 1 + (s - 1) = s
    BY <1>2
  <2>. DEFINE R == 2^(s - 1)
  <2>4. Scale = R * 2
    BY <1>1, <2>2, <2>3
  <2>5. s - 1 \in 0 .. MaxExp
    BY <1>2, <1>11
  <2>6. R \in Nat
    BY <2>5, MagnitudeIs
  <2>7. R = Q * G
    BY <1>11, <2>1
  <2>. HIDE DEF R
  <2>8. (R * 2) \div 2 = R
    BY <2>6
  <2>. QED
    BY <2>4, <2>7, <2>8
<1>. QED
  BY <1>8, <1>9, <1>11, <1>12, <1>13, <1>14

\* A half is added to a float that is far enough below the next integer.
LEMMA HalfAdded ==
    ASSUME NEW y \in Nat, NEW m \in 0 .. Precision - 1, NEW f \in 0 .. MaxExp,
           y + Scale \div 2 <= m * 2^f
    PROVE  \E z \in Magnitude : /\ Round(FALSE, y + Scale \div 2, 1) = Finite(FALSE, z)
                                /\ z <= m * 2^f
<1>. DEFINE x == y + Scale \div 2
<1>1. x \in Nat /\ x <= m * 2^f * 1
  BY HalfScale, MagnitudeIs
<1>. HIDE DEF x
<1>2. \A b \in BOOLEAN : \E z \in Magnitude : Round(b, x, 1) = Finite(b, z) /\ z <= m * 2^f
  BY <1>1, RoundDown
<1>3. \E z \in Magnitude : Round(FALSE, x, 1) = Finite(FALSE, z) /\ z <= m * 2^f
  BY <1>2, Zenon
<1>. QED
  BY <1>3 DEF x

\* What a quotient of small integers is rounded to, first as a float, then with a
\* half added.
Roundings(neg, D, N, y, z) ==
    /\ Round(neg, (D * Scale) * Scale, N * Scale) = Finite(neg, y)
    /\ Round(FALSE, y + Scale \div 2, 1) = Finite(FALSE, z)

\* The quotient is rounded to m units of 2^f at most, and a half is added.
LEMMA QuotientDown ==
    ASSUME NEW neg \in BOOLEAN, NEW D \in Nat, NEW N \in Nat, N > 0,
           NEW m \in 0 .. Precision - 1, NEW f \in 0 .. MaxExp,
           NEW i \in 0 .. Precision - 1, NEW g \in 0 .. MaxExp,
           \/ D * Scale <= (m * 2^f) * N
           \/ /\ 2 * (D * Scale) < ((2 * m + 1) * 2^f) * N
              /\ ((Precision \div 2) * 2^f) * N <= D * Scale,
           m * 2^f + Scale \div 2 <= i * 2^g
    PROVE  \E y, z \in Magnitude : Roundings(neg, D, N, y, z) /\ z <= i * 2^g
<1>. DEFINE S == Scale
            n == (D * S) * S
            d == N * S
            F == 2^f
            k == Precision \div 2
<1>1. /\ S \in Nat /\ S > 0 /\ F \in Nat /\ F > 0 /\ k \in Nat /\ m \in Nat /\ i * 2^g \in Nat
      /\ Scale \div 2 \in Nat
  BY ScaleIs, MagnitudeIs, HalfScale
<1>2. n \in Nat /\ d \in Nat /\ d > 0 /\ D * S \in Nat
  <2>. HIDE DEF S
  <2>1. D * S \in Nat /\ N * S \in Nat /\ N * S > 0
    BY <1>1, NatProduct
  <2>. QED
    BY <1>1, <2>1, NatProduct
<1>. DEFINE A == m * F
            B == (2 * m + 1) * F
            C == k * F
<1>3. A \in Nat /\ B \in Nat /\ C \in Nat
  <2>. HIDE DEF F, k
  <2>1. 2 * m + 1 \in Nat
    BY <1>1
  <2>. QED
    BY <1>1, <2>1, NatProduct
<1>4. D * S <= A * N \/ (2 * (D * S) < B * N /\ C * N <= D * S)
  OBVIOUS
<1>. HIDE DEF A, B, C, S, F, k
<1>5. A * N \in Nat /\ B * N \in Nat /\ C * N \in Nat
  BY <1>3, NatProduct
<1>6. (A * N) * S = A * d /\ (B * N) * S = B * d /\ (C * N) * S = C * d
  BY <1>1, <1>3, Z3
<1>7. n <= A * d \/ (2 * n < B * d /\ C * d <= n)
  <2>1. CASE D * S <= A * N
    <3>1. (D * S) * S <= (A * N) * S
      BY <1>1, <1>2, <1>5, <2>1, LessTimes
    <3>. QED
      BY <1>6, <3>1
  <2>2. CASE 2 * (D * S) < B * N /\ C * N <= D * S
    <3>1. (2 * (D * S)) * S < (B * N) * S
      <4>. DEFINE v == D * S
      <4>1. v \in Nat /\ 2 * v < B * N
        BY <1>2, <2>2
      <4>. HIDE DEF v
      <4>2. 2 * v \in Int
        BY <4>1
      <4>3. (2 * v) * S < (B * N) * S
        BY <1>1, <1>5, <4>1, <4>2, LessTimes
      <4>. QED
        BY <4>3 DEF v
    <3>2. (C * N) * S <= (D * S) * S
      BY <1>1, <1>2, <1>5, <2>2, LessTimes
    <3>3. (2 * (D * S)) * S = 2 * n
      BY <1>1, <1>2, Z3
    <3>. QED
      BY <1>6, <3>1, <3>2, <3>3
  <2>. QED
    BY <1>4, <2>1, <2>2
<1>. HIDE DEF n, d
<1>8. n <= m * 2^f * d \/ (2 * n < (2 * m + 1) * 2^f * d /\ (Precision \div 2) * 2^f * d <= n)
  BY <1>7 DEF A, B, C, F, k
<1>9. PICK y \in Magnitude : Round(neg, n, d) = Finite(neg, y) /\ y <= m * 2^f
  <2>1. n \in Nat /\ d \in Nat /\ d > 0
    BY <1>2
  <2>2. CASE n <= m * 2^f * d
    BY <2>1, <2>2, RoundDown
  <2>3. CASE 2 * n < (2 * m + 1) * 2^f * d /\ (Precision \div 2) * 2^f * d <= n
    BY <2>1, <2>3, RoundDown
  <2>. QED
    BY <1>8, <2>2, <2>3
<1>10. y \in Nat /\ y + Scale \div 2 <= i * 2^g
  <2>1. y \in Nat /\ m * 2^f \in Nat
    BY <1>3, MagnitudeIs DEF A, F
  <2>. QED
    BY <1>1, <1>9, <2>1
<1>11. PICK z \in Magnitude : /\ Round(FALSE, y + Scale \div 2, 1) = Finite(FALSE, z)
                              /\ z <= i * 2^g
  BY <1>10, HalfAdded
<1>12. Round(neg, (D * Scale) * Scale, N * Scale) = Finite(neg, y)
  BY <1>9 DEF n, d, S
<1>. QED
  BY <1>11, <1>12 DEF Roundings

\* Less than a half.
LEMMA QuotientTiny ==
    ASSUME NEW neg \in BOOLEAN, NEW D \in Nat, NEW N \in Nat,
           2 * D < N, 2 * N < Precision
    PROVE  \E y, z \in Magnitude : Roundings(neg, D, N, y, z) /\ z < Scale
<1>. DEFINE k == Precision \div 2
<1>1. PICK u \in 0 .. MaxExp : /\ 2^u \in Nat /\ 2^u > 0
                               /\ Scale = Precision * 2^u /\ Scale \div 2 = k * 2^u
  BY UnitsOfOne
<1>. DEFINE U == 2^u
            m == k - 1
            i == Precision - 1
<1>2. /\ Precision = 2 * k /\ k \in Nat /\ N < k /\ N > 0 /\ m \in 0 .. Precision - 1 /\ m \in Nat
      /\ i \in 0 .. Precision - 1 /\ i \in Nat /\ Precision \in Nat /\ i = m + k
  BY MagnitudeIs
<1>3. U \in Nat /\ U > 0 /\ Scale = Precision * U /\ Scale \div 2 = k * U
  BY <1>1
<1>4. D * Scale <= (m * U) * N
  <2>. HIDE DEF U, k
  <2>1. (2 * D) * k <= (N - 1) * k
    BY <1>2, LessTimes
  <2>2. (N - 1) * k = N * k - k /\ N * (k - 1) = N * k - N
    BY <1>2, Z3
  <2>3. (2 * D) * k <= N * (k - 1)
    <3>. DEFINE a == (2 * D) * k
                b == N * k
    <3>1. a \in Int /\ b \in Int
      BY <1>2, Z3
    <3>2. a <= b - k /\ N * (k - 1) = b - N
      BY <2>1, <2>2
    <3>. HIDE DEF a, b
    <3>3. a <= b - N
      BY <1>2, <3>1, <3>2
    <3>. QED
      BY <3>2, <3>3 DEF a
  <2>4. m \in Nat /\ m = k - 1
    BY <1>2
  <2>. HIDE DEF m
  <2>5. (2 * D) * k <= N * m /\ (2 * D) * k \in Int /\ N * m \in Int
    BY <1>2, <2>3, <2>4, NatProduct
  <2>6. ((2 * D) * k) * U <= (N * m) * U
    BY <1>3, <2>5, LessTimes
  <2>7. D * ((2 * k) * U) = ((2 * D) * k) * U /\ (N * m) * U = (m * U) * N
    BY <1>2, <1>3, <2>4, Z3
  <2>. QED
    BY <1>2, <1>3, <2>6, <2>7
<1>5. m * U + Scale \div 2 <= i * U /\ i * U < Scale /\ i * U \in Nat
  <2>. HIDE DEF U
  <2>1. m \in Nat /\ k \in Nat /\ i = m + k /\ Precision = i + 1
    BY <1>2
  <2>. HIDE DEF m, k, i
  <2>2. (m + k) * U = m * U + k * U /\ (i + 1) * U = i * U + U /\ i * U \in Nat
    BY <1>2, <1>3, <2>1, Z3
  <2>. QED
    BY <1>3, <2>1, <2>2
<1>6. \E y, z \in Magnitude : Roundings(neg, D, N, y, z) /\ z <= i * 2^u
  <2>1. D * Scale <= (m * 2^u) * N /\ m * 2^u + Scale \div 2 <= i * 2^u
    BY <1>4, <1>5
  <2>2. N > 0 /\ m \in 0 .. Precision - 1 /\ i \in 0 .. Precision - 1
    BY <1>2
  <2>. HIDE DEF m, i
  <2>. QED
    BY <2>1, <2>2, QuotientDown
<1>7. Magnitude \subseteq Nat
  BY MagnitudeIs
<1>8. i * 2^u < Scale /\ i * 2^u \in Nat /\ Scale \in Nat
  BY <1>5, ScaleIs
<1>. HIDE DEF i
<1>. QED
  BY <1>6, <1>7, <1>8

\* K or less.
LEMMA QuotientBelowWhole ==
    ASSUME NEW neg \in BOOLEAN, NEW D \in Nat, NEW N \in Nat, N > 0,
           NEW K \in Nat, 2 * K < Precision, D <= K * N
    PROVE  \E y, z \in Magnitude : Roundings(neg, D, N, y, z) /\ z < (K + 1) * Scale
<1>. DEFINE H == Scale \div 2
            i == 2 * K + 1
<1>1. PICK s \in 1 .. MaxExp : /\ Scale = 2^s /\ H = 2^(s - 1)
                               /\ s \in 0 .. MaxExp /\ s - 1 \in 0 .. MaxExp
  BY HalfScale
<1>2. /\ Scale = 2 * H /\ H \in Nat /\ H > 0 /\ Scale \in Nat
  BY HalfScale, ScaleIs
<1>3. K \in 0 .. Precision - 1 /\ i \in 0 .. Precision - 1
  <2>1. Precision \in Nat /\ Precision = 2 * (Precision \div 2) /\ Precision \div 2 \in Nat
    BY MagnitudeIs
  <2>. QED
    BY <2>1
<1>. HIDE DEF H
<1>4. D * Scale <= (K * Scale) * N
  <2>. DEFINE v == K * N
  <2>1. v \in Nat /\ D <= v
    BY NatProduct
  <2>. HIDE DEF v
  <2>2. D * Scale <= v * Scale
    BY <1>2, <2>1, LessTimes
  <2>3. (K * N) * Scale = (K * Scale) * N
    BY <1>2, Z3
  <2>. QED
    BY <2>2, <2>3 DEF v
<1>5. K * Scale + H <= i * H /\ i * H < (K + 1) * Scale /\ i * H \in Nat
  <2>1. /\ K * (2 * H) + H = (2 * K + 1) * H /\ (K + 1) * (2 * H) = (2 * K + 1) * H + H
        /\ (2 * K + 1) * H \in Nat
    BY <1>2, Z3
  <2>. QED
    BY <1>2, <2>1
<1>6. \E y, z \in Magnitude : Roundings(neg, D, N, y, z) /\ z <= i * 2^(s - 1)
  <2>1. D * Scale <= (K * 2^s) * N /\ K * 2^s + Scale \div 2 <= i * 2^(s - 1)
    BY <1>1, <1>4, <1>5 DEF H
  <2>. HIDE DEF i
  <2>. QED
    BY <1>1, <1>3, <2>1, QuotientDown
<1>7. Magnitude \subseteq Nat
  BY MagnitudeIs
<1>8. i * 2^(s - 1) < (K + 1) * Scale /\ i * 2^(s - 1) \in Nat /\ (K + 1) * Scale \in Nat
  <2>1. (K + 1) * Scale \in Nat
    BY <1>2, NatProduct
  <2>. QED
    BY <1>1, <1>5, <2>1
<1>. HIDE DEF i
<1>9. ASSUME NEW z \in Nat, z <= i * 2^(s - 1) PROVE z < (K + 1) * Scale
  BY <1>8, <1>9
<1>. QED
  BY <1>6, <1>7, <1>9

\* More than K, but nearer to K than to K + 1.
LEMMA QuotientAboveWhole ==
    ASSUME NEW neg \in BOOLEAN, NEW D \in Nat, NEW N \in Nat, 2 * D < Precision,
           NEW K \in Nat, K > 0, 2 * K < Precision, K * N < D, 2 * D < (2 * K + 1) * N
    PROVE  \E y, z \in Magnitude : Roundings(neg, D, N, y, z) /\ z < (K + 1) * Scale
<1>. DEFINE H == Scale \div 2
            k == Precision \div 2
<1>1. PICK T \in Nat, Q \in Nat, g \in 0 .. MaxExp :
               /\ T > 0 /\ Q > 0 /\ T <= K /\ K < 2 * T
               /\ Precision = 4 * (T * Q)
               /\ H = Q * 2^g /\ 2^g \in Nat /\ 2^g > 0
  BY UnitAround
<1>. DEFINE G == 2^g
            V == T * Q
            W == (2 * K + 1) * Q
            m == W - 1
            i == W + Q - 1
<1>2. /\ Scale = 2 * H /\ H \in Nat /\ H > 0 /\ Scale \in Nat /\ Scale > 0
      /\ Precision = 2 * k /\ k \in Nat
  BY HalfScale, ScaleIs, MagnitudeIs
<1>3. G \in Nat /\ G > 0 /\ H = Q * G /\ Precision = 4 * V /\ V \in Nat
  BY <1>1, NatProduct
<1>. HIDE DEF G, H, k
<1>4. N > 0 /\ T * N <= D /\ N < 2 * Q
  <2>1. N > 0
    <3>. SUFFICES ASSUME N = 0 PROVE FALSE
      OBVIOUS
    <3>1. (2 * K + 1) * N = 0
      OBVIOUS
    <3>. QED
      BY <3>1
  <2>2. T * N <= K * N /\ T * N \in Nat /\ K * N \in Nat
    BY <1>1, LessTimes, NatProduct
  <2>3. T * N <= D /\ T * N < D
    BY <2>2
  <2>4. D < 2 * V
    BY <1>3
  <2>5. N < 2 * Q
    <3>. SUFFICES ASSUME 2 * Q <= N PROVE FALSE
      BY <1>1
    <3>1. (2 * Q) * T <= N * T
      BY <1>1, LessTimes
    <3>2. (2 * Q) * T = 2 * (T * Q) /\ N * T = T * N
      BY <1>1, Z3
    <3>3. 2 * V <= T * N
      BY <3>1, <3>2
    <3>. HIDE DEF V
    <3>. QED
      BY <1>3, <2>2, <2>3, <2>4, <3>3
  <2>. QED
    BY <2>1, <2>3, <2>5
<1>5. W \in Nat /\ W > 0 /\ W + Q <= 4 * V
  <2>1. 2 * K + 1 \in Nat /\ 2 * K + 1 > 0 /\ 2 * K + 2 <= 4 * T
    BY <1>1
  <2>2. W \in Nat /\ W > 0
    <3>. DEFINE a == 2 * K + 1
    <3>1. a \in Nat /\ a > 0
      BY <2>1
    <3>. HIDE DEF a
    <3>2. a * Q \in Nat /\ a * Q > 0
      BY <1>1, <3>1, NatProduct
    <3>. QED
      BY <3>2 DEF a
  <2>3. (2 * K + 2) * Q <= (4 * T) * Q
    <3>1. 2 * K + 2 \in Int /\ 4 * T \in Int
      BY <1>1
    <3>. QED
      BY <1>1, <2>1, <3>1, LessTimes
  <2>4. (2 * K + 2) * Q = (2 * K + 1) * Q + Q /\ (4 * T) * Q = 4 * (T * Q)
    BY <1>1, Z3
  <2>. QED
    BY <2>2, <2>3, <2>4
<1>6. m \in 0 .. Precision - 1 /\ i \in 0 .. Precision - 1 /\ m \in Nat /\ i \in Nat /\ i = m + Q /\ 2 * m + 1 = 2 * W - 1
  <2>. HIDE DEF W, V
  <2>. QED
    BY <1>1, <1>3, <1>5
<1>7. 2 * (D * Scale) < ((2 * m + 1) * G) * N
  <2>1. 2 * D <= (2 * K + 1) * N - 1 /\ (2 * K + 1) * N \in Nat
    <3>. DEFINE v == (2 * K + 1) * N
    <3>1. v \in Nat
      <4>1. 2 * K + 1 \in Nat
        OBVIOUS
      <4>. QED
        BY <4>1, NatProduct
    <3>2. 2 * D < v
      OBVIOUS
    <3>. HIDE DEF v
    <3>3. 2 * D <= v - 1
      BY <3>1, <3>2
    <3>. QED
      BY <3>1, <3>3 DEF v
  <2>2. (2 * D) * (2 * Q) <= ((2 * K + 1) * N - 1) * (2 * Q)
    <3>. DEFINE v == (2 * K + 1) * N - 1
    <3>1. 2 * D \in Int /\ v \in Int /\ 2 * D <= v /\ 2 * Q \in Nat
      BY <1>1, <2>1
    <3>. HIDE DEF v
    <3>2. (2 * D) * (2 * Q) <= v * (2 * Q)
      BY <3>1, LessTimes
    <3>. QED
      BY <3>2 DEF v
  <2>3. ((2 * K + 1) * N - 1) * (2 * Q) = 2 * ((2 * K + 1) * Q * N) - 2 * Q
    BY <1>1, Z3
  <2>4. (2 * W - 1) * N = 2 * ((2 * K + 1) * Q * N) - N
    BY <1>1, Z3
  <2>5. (2 * D) * (2 * Q) < (2 * W - 1) * N
    <3>. DEFINE v == (2 * K + 1) * Q * N
    <3>1. v \in Int
      <4>1. (2 * K + 1) * Q \in Nat
        BY <1>5
      <4>. QED
        BY <4>1, NatProduct
    <3>2. (2 * D) * (2 * Q) \in Int /\ (2 * D) * (2 * Q) <= 2 * v - 2 * Q
      <4>1. (2 * D) * (2 * Q) \in Int
        BY <1>1, Z3
      <4>. QED
        BY <2>2, <2>3, <4>1
    <3>3. (2 * W - 1) * N = 2 * v - N
      BY <2>4
    <3>. HIDE DEF v, W
    <3>. DEFINE w == (2 * D) * (2 * Q)
    <3>. HIDE DEF w
    <3>4. w \in Int /\ w <= 2 * v - 2 * Q
      BY <3>2 DEF w
    <3>5. w < 2 * v - N
      BY <1>1, <1>4, <3>1, <3>4
    <3>. QED
      BY <3>3, <3>5 DEF w
  <2>. HIDE DEF W
  <2>6. ((2 * D) * (2 * Q)) * G < ((2 * W - 1) * N) * G
    <3>. DEFINE a == (2 * D) * (2 * Q)
                b == (2 * W - 1) * N
    <3>1. a \in Int /\ b \in Int
      <4>1. 2 * W - 1 \in Nat
        BY <1>5
      <4>2. 2 * D \in Nat /\ 2 * Q \in Nat
        BY <1>1
      <4>. QED
        BY <4>1, <4>2, NatProduct
    <3>2. a < b
      BY <2>5
    <3>. HIDE DEF a, b
    <3>3. a * G < b * G
      BY <1>3, <3>1, <3>2, LessTimes
    <3>. QED
      BY <3>3 DEF a, b
  <2>7. ((2 * D) * (2 * Q)) * G = 2 * (D * (2 * (Q * G)))
    BY <1>1, <1>3, Z3
  <2>8. ((2 * W - 1) * N) * G = ((2 * W - 1) * G) * N
    BY <1>3, <1>5, Z3
  <2>9. 2 * m + 1 = 2 * W - 1
    BY <1>6
  <2>. QED
    BY <1>2, <1>3, <2>6, <2>7, <2>8, <2>9
<1>8. (k * G) * N <= D * Scale
  <2>1. k = 2 * V
    <3>. HIDE DEF V
    <3>. QED
      BY <1>2, <1>3
  <2>2. (T * N) * Scale <= D * Scale
    <3>. DEFINE a == T * N
    <3>1. a \in Nat /\ a <= D
      BY <1>1, <1>4, NatProduct
    <3>. HIDE DEF a
    <3>2. a * Scale <= D * Scale
      BY <1>2, <3>1, LessTimes
    <3>. QED
      BY <3>2 DEF a
  <2>3. (T * N) * (2 * (Q * G)) = ((2 * (T * Q)) * G) * N
    BY <1>1, <1>3, Z3
  <2>. QED
    BY <1>2, <1>3, <2>1, <2>2, <2>3
<1>9. m * G + H <= i * G /\ i * G < (K + 1) * Scale /\ i * G \in Nat /\ (K + 1) * Scale \in Nat
  <2>1. i * G = m * G + Q * G
    <3>1. i = m + Q /\ m \in Nat
      BY <1>6
    <3>. HIDE DEF i, m
    <3>2. (m + Q) * G = m * G + Q * G
      BY <1>1, <1>3, <3>1, Z3
    <3>. QED
      BY <3>1, <3>2
  <2>2. i * G \in Nat /\ m * G \in Nat
    <3>. HIDE DEF i, m
    <3>. QED
      BY <1>3, <1>6, NatProduct
  <2>3. (W + Q) * G = i * G + G
    <3>1. i \in Nat /\ W + Q = i + 1
      BY <1>1, <1>5, <1>6
    <3>. HIDE DEF i
    <3>2. (i + 1) * G = i * G + G
      BY <1>3, <3>1, Z3
    <3>. QED
      BY <3>1, <3>2
  <2>4. (K + 1) * (2 * (Q * G)) = ((2 * K + 1) * Q + Q) * G
    BY <1>1, <1>3, Z3
  <2>5. (K + 1) * Scale = i * G + G
    BY <1>2, <1>3, <2>3, <2>4
  <2>. HIDE DEF i, m
  <2>. QED
    BY <1>2, <1>3, <2>1, <2>2, <2>5
<1>10. \E y, z \in Magnitude : Roundings(neg, D, N, y, z) /\ z <= i * 2^g
  <2>1. /\ 2 * (D * Scale) < ((2 * m + 1) * 2^g) * N
        /\ ((Precision \div 2) * 2^g) * N <= D * Scale
    BY <1>7, <1>8 DEF G, k
  <2>2. m * 2^g + Scale \div 2 <= i * 2^g
    BY <1>9 DEF G, H
  <2>3. m \in 0 .. Precision - 1 /\ i \in 0 .. Precision - 1 /\ g \in 0 .. MaxExp
    BY <1>6
  <2>. HIDE DEF m, i
  <2>. QED
    BY <1>4, <2>1, <2>2, <2>3, QuotientDown
<1>11. Magnitude \subseteq Nat
  BY MagnitudeIs
<1>12. ASSUME NEW z \in Nat, z <= i * 2^g PROVE z < (K + 1) * Scale
  <2>. DEFINE a == i * G
              b == (K + 1) * Scale
  <2>1. z <= a /\ a < b /\ a \in Nat /\ b \in Nat
    BY <1>9, <1>12 DEF G
  <2>. HIDE DEF a, b
  <2>2. z < b
    BY <2>1
  <2>. QED
    BY <2>2 DEF b
<1>. QED
  BY <1>10, <1>11, <1>12

\* K is D/N rounded to an integer, halves away from zero.
LEMMA NearestIs ==
    ASSUME NEW D \in Nat, NEW N \in Nat, N > 0, 2 * D < Precision
    PROVE  LET K == (2 * D + N) \div (2 * N)
           IN /\ K \in Nat /\ K <= D /\ 2 * K < Precision
              /\ (2 * K - 1) * N <= 2 * D /\ 2 * D < (2 * K + 1) * N
              /\ (K = 0 => 2 * D < N)
<1>. DEFINE a == 2 * D + N
            b == 2 * N
            K == a \div b
            r == a % b
<1>1. a \in Nat /\ b \in Nat /\ b > 0
  OBVIOUS
<1>2. K \in Nat /\ r \in 0 .. b - 1 /\ a = b * K + r
  <2>. HIDE DEF a, b
  <2>. QED
    BY <1>1, DivMod, DivBound
<1>. HIDE DEF K, r
<1>3. (2 * K - 1) * N = b * K - N /\ (2 * K + 1) * N = b * K + N /\ b * K \in Nat
  BY <1>2, Z3
<1>4. (2 * K - 1) * N <= 2 * D /\ 2 * D < (2 * K + 1) * N
  <2>. DEFINE v == b * K
  <2>1. v \in Nat /\ a = v + r /\ (2 * K - 1) * N = v - N /\ (2 * K + 1) * N = v + N
    BY <1>2, <1>3
  <2>. HIDE DEF v
  <2>. QED
    BY <1>2, <2>1
<1>5. K <= D
  <2>. SUFFICES ASSUME D + 1 <= K PROVE FALSE
    BY <1>2
  <2>. DEFINE c == 2 * K - 1
  <2>1. c \in Nat /\ c >= 2 * D + 1
    BY <1>2
  <2>. HIDE DEF c
  <2>2. c * N >= c
    BY <2>1, Z3
  <2>3. c * N \in Nat /\ c * N <= 2 * D
    BY <1>4, <2>1, NatProduct DEF c
  <2>. QED
    BY <2>1, <2>2, <2>3
<1>6. 2 * K < Precision
  BY <1>2, <1>5, MagnitudeIs
<1>7. K = 0 => 2 * D < N
  <2>. SUFFICES ASSUME K = 0 PROVE 2 * D < N
    OBVIOUS
  <2>1. b * K = 0
    OBVIOUS
  <2>. QED
    BY <1>2, <2>1
<1>. QED
  BY <1>2, <1>4, <1>5, <1>6, <1>7 DEF K

\* Both roundings of a quotient of small integers keep what it is nearest to.
LEMMA QuotientRounds ==
    ASSUME NEW neg \in BOOLEAN, NEW D \in Nat, NEW N \in Nat, N > 0,
           2 * D < Precision, 2 * N < Precision
    PROVE  LET K == (2 * D + N) \div (2 * N)
           IN \E y, z \in Magnitude :
                 Roundings(neg, D, N, y, z) /\ K * Scale <= z /\ z < (K + 1) * Scale
<1>. DEFINE K == (2 * D + N) \div (2 * N)
            H == Scale \div 2
<1>1. /\ K \in Nat /\ K <= D /\ 2 * K < Precision
      /\ (2 * K - 1) * N <= 2 * D /\ 2 * D < (2 * K + 1) * N
      /\ (K = 0 => 2 * D < N)
  BY NearestIs
<1>. HIDE DEF K
<1>2. \E y, z \in Magnitude : Roundings(neg, D, N, y, z) /\ z < (K + 1) * Scale
  <2>1. CASE K = 0
    <3>1. \E y, z \in Magnitude : Roundings(neg, D, N, y, z) /\ z < Scale
      BY <1>1, <2>1, QuotientTiny
    <3>2. (K + 1) * Scale = Scale
      BY <2>1, ScaleIs
    <3>. QED
      BY <3>1, <3>2
  <2>2. CASE K > 0 /\ D <= K * N
    BY <1>1, <2>2, QuotientBelowWhole
  <2>3. CASE K > 0 /\ K * N < D
    BY <1>1, <2>3, QuotientAboveWhole
  <2>4. K * N \in Nat
    BY <1>1, NatProduct
  <2>. QED
    BY <1>1, <2>1, <2>2, <2>3, <2>4
<1>3. PICK y \in Magnitude, z \in Magnitude : Roundings(neg, D, N, y, z) /\ z < (K + 1) * Scale
  BY <1>2
<1>4. y \in Nat /\ z \in Nat /\ Scale \in Nat /\ Scale > 0 /\ Scale = 2 * H /\ H \in Nat /\ H > 0
  BY MagnitudeIs, ScaleIs, HalfScale
<1>5. PICK s \in 1 .. MaxExp : /\ Scale = 2^s /\ H = 2^(s - 1)
                               /\ s \in 0 .. MaxExp /\ s - 1 \in 0 .. MaxExp
  BY HalfScale
<1>. HIDE DEF H
<1>6. K * Scale <= z
  <2>1. CASE K = 0
    BY <1>4, <2>1
  <2>2. CASE K > 0
    <3>. DEFINE n == (D * Scale) * Scale
                d == N * Scale
                m == 2 * K - 1
    <3>1. /\ n \in Nat /\ d \in Nat /\ d > 0 /\ m \in Nat /\ m \in 0 .. Precision - 1
          /\ K \in 0 .. Precision - 1
      <4>1. D * Scale \in Nat /\ d \in Nat /\ d > 0
        BY <1>4, NatProduct
      <4>2. n \in Nat
        BY <1>4, <4>1, NatProduct
      <4>. QED
        BY <1>1, <2>2, <4>1, <4>2, MagnitudeIs
    <3>2. m * N <= 2 * D /\ m * N \in Nat /\ 2 * D \in Nat
      BY <1>1, <3>1, NatProduct
    <3>. HIDE DEF m
    <3>3. (m * N) * (H * Scale) <= (2 * D) * (H * Scale)
      <4>. DEFINE a == m * N
                  b == H * Scale
      <4>1. a \in Nat /\ b \in Nat /\ a <= 2 * D
        BY <1>4, <3>2, NatProduct
      <4>. HIDE DEF a, b
      <4>2. a * b <= (2 * D) * b
        BY <3>2, <4>1, LessTimes
      <4>. QED
        BY <4>2 DEF a, b
    <3>4. (m * N) * (H * Scale) = (m * H) * (N * Scale)
      BY <1>4, <3>1, Z3
    <3>5. (2 * D) * (H * Scale) = (D * (2 * H)) * Scale
      BY <1>4, Z3
    <3>6. (m * H) * d <= n
      BY <1>4, <3>3, <3>4, <3>5
    <3>7. Round(neg, n, d) = Finite(neg, y)
      BY <1>3 DEF Roundings
    <3>. HIDE DEF n, d
    <3>8. m * 2^(s - 1) * d <= n
      BY <1>5, <3>6
    <3>9. y >= m * H
      BY <1>5, <3>1, <3>7, <3>8, RoundUp
    <3>. DEFINE x == y + H
    <3>10. x \in Nat /\ K * Scale <= x
      <4>1. m * H + H = K * (2 * H) /\ m * H \in Nat
        <5>1. (2 * K - 1) * H + H = K * (2 * H)
          BY <1>1, <1>4, Z3
        <5>. QED
          BY <1>4, <3>1, <5>1, NatProduct DEF m
      <4>. QED
        BY <1>4, <3>9, <4>1
    <3>11. Round(FALSE, x, 1) = Finite(FALSE, z)
      BY <1>3 DEF Roundings, H
    <3>. HIDE DEF x
    <3>12. K * 2^s * 1 <= x
      <4>. DEFINE v == K * Scale
      <4>1. v \in Nat /\ v <= x
        BY <1>1, <1>4, <3>10, NatProduct
      <4>. HIDE DEF v
      <4>2. v * 1 <= x
        BY <4>1
      <4>. QED
        BY <1>5, <4>2 DEF v
    <3>13. \A b \in BOOLEAN : Round(b, x, 1) = Finite(b, z) => z >= K * 2^s
      BY <1>5, <3>1, <3>10, <3>12, RoundUp
    <3>14. z >= K * 2^s
      BY <3>11, <3>13, Zenon
    <3>. QED
      BY <1>5, <3>14
  <2>. QED
    BY <1>1, <2>1, <2>2
<1>. QED
  BY <1>3, <1>6 DEF K

\* A small duration divided by a small integer is the nearest duration.
LEMMA QuotientExact ==
    ASSUME NEW d \in Int64, NEW n \in Int64, n # 0,
           2 * Abs(d) < Precision, 2 * Abs(n) < Precision
    PROVE  Milliseconds(Over(ToFloat(d), ToFloat(n))) =
             {Ok("Duration", LET K == (2 * Abs(d) + Abs(n)) \div (2 * Abs(n))
                             IN WithSign((d < 0) # (n < 0), K))}
<1>. DEFINE D == Abs(d)
            N == Abs(n)
            dneg == d < 0
            nneg == n < 0
            neg == dneg # nneg
            K == (2 * D + N) \div (2 * N)
<1>1. /\ d \in Int /\ n \in Int /\ D \in Nat /\ N \in Nat /\ N > 0 /\ MaxInt \in Nat
      /\ dneg \in BOOLEAN /\ nneg \in BOOLEAN /\ neg \in BOOLEAN
  BY IntAssumption DEF Int64, MinInt, Abs
<1>2. Precision \in Nat /\ Precision <= MaxInt /\ D < Precision /\ N < Precision
  BY <1>1, MagnitudeIs, FloatAssumption
<1>3. ToFloat(d) = Finite(dneg, D * Scale)
  BY <1>1, <1>2, ToFloatExact
<1>4. ToFloat(n) = Finite(nneg, N * Scale)
  BY <1>1, <1>2, ToFloatExact
<1>5. K \in Nat /\ K <= D /\ K <= MaxInt
  <2>1. K \in Nat /\ K <= D
    BY <1>1, NearestIs
  <2>. QED
    BY <1>1, <1>2, <2>1
<1>6. 2 * D < Precision /\ 2 * N < Precision
  OBVIOUS
<1>7. \E y, z \in Magnitude :
        Roundings(neg, D, N, y, z) /\ K * Scale <= z /\ z < (K + 1) * Scale
  <2>. HIDE DEF D, N, neg
  <2>. QED
    BY <1>1, <1>6, QuotientRounds
<1>. HIDE DEF D, N, K, dneg, nneg
<1>8. PICK y \in Magnitude, z \in Magnitude :
        Roundings(neg, D, N, y, z) /\ K * Scale <= z /\ z < (K + 1) * Scale
  BY <1>7
<1>9. Over(ToFloat(d), ToFloat(n)) = Finite(neg, y)
  <2>1. Over(ToFloat(d), ToFloat(n)) = Round(neg, (D * Scale) * Scale, N * Scale)
    BY <1>1, <1>3, <1>4, OverIs
  <2>. QED
    BY <1>8, <2>1 DEF Roundings
<1>. HIDE DEF neg
<1>10. z \in Nat /\ Round(FALSE, y + Scale \div 2, 1) = Finite(FALSE, z)
  BY <1>8, MagnitudeIs DEF Roundings
<1>11. Milliseconds(Finite(neg, y)) = {Ok("Duration", WithSign(neg, K))}
  <2>1. neg \in BOOLEAN /\ K * Scale <= z /\ z < (K + 1) * Scale
    BY <1>1, <1>8
  <2>. QED
    BY <1>5, <1>10, <2>1, RoundedTo
<1>. QED
  BY <1>9, <1>11 DEF neg, dneg, nneg, K, D, N

\* A quotient that lies between the integers K and K + 1 is rounded to one of
\* them, first as a float, then as an integer; to K, if it is K.
LEMMA RoundsBetween ==
    ASSUME NEW neg \in BOOLEAN, NEW n \in Nat, NEW d \in Nat, d > 0,
           NEW K \in Nat, NEW r \in 0 .. 1, 2 * (K + 1) < Precision,
           (K * Scale) * d <= n, n <= ((K + r) * Scale) * d
    PROVE  \E k \in K .. K + r : Milliseconds(Round(neg, n, d)) = {Ok("Duration", WithSign(neg, k))}
<1>. DEFINE H == Scale \div 2
            m == K + r
            i == 2 * m + 1
<1>1. PICK s \in 1 .. MaxExp : /\ Scale = 2^s /\ H = 2^(s - 1)
                               /\ s \in 0 .. MaxExp /\ s - 1 \in 0 .. MaxExp
  BY HalfScale
<1>2. Scale = 2 * H /\ H \in Nat /\ H > 0 /\ Scale \in Nat
  BY HalfScale, ScaleIs
<1>3. /\ K \in 0 .. Precision - 1 /\ m \in 0 .. Precision - 1 /\ i \in 0 .. Precision - 1
      /\ m \in Nat /\ i \in Nat /\ m <= MaxInt
  <2>1. Precision \in Nat /\ Precision = 2 * (Precision \div 2) /\ Precision \div 2 \in Nat
        /\ Precision <= MaxInt /\ MaxInt \in Nat
    BY MagnitudeIs, FloatAssumption, IntAssumption
  <2>. QED
    BY <2>1
<1>. HIDE DEF H
<1>4. PICK y \in Magnitude : Round(neg, n, d) = Finite(neg, y) /\ y <= m * Scale
  <2>1. n <= m * 2^s * d
    BY <1>1
  <2>. HIDE DEF m
  <2>. QED
    BY <1>1, <1>3, <2>1, RoundDown
<1>5. y \in Nat /\ y >= K * Scale
  <2>1. K * 2^s * d <= n
    BY <1>1
  <2>2. y >= K * 2^s
    BY <1>1, <1>3, <1>4, <2>1, RoundUp
  <2>. QED
    BY <1>1, <2>2, MagnitudeIs
<1>6. m * Scale + H = i * H /\ i * H \in Nat /\ (m + 1) * Scale = i * H + H /\ m * Scale \in Nat
  <2>. HIDE DEF m
  <2>1. /\ m * (2 * H) + H = (2 * m + 1) * H /\ (m + 1) * (2 * H) = (2 * m + 1) * H + H
        /\ (2 * m + 1) * H \in Nat /\ m * (2 * H) \in Nat
    BY <1>2, <1>3, Z3
  <2>. QED
    BY <1>2, <2>1
<1>7. PICK z \in Magnitude : Round(FALSE, y + H, 1) = Finite(FALSE, z) /\ z <= i * H
  <2>1. y + Scale \div 2 <= i * 2^(s - 1)
    BY <1>1, <1>2, <1>4, <1>5, <1>6 DEF H
  <2>. HIDE DEF i
  <2>2. \E z \in Magnitude : /\ Round(FALSE, y + Scale \div 2, 1) = Finite(FALSE, z)
                             /\ z <= i * 2^(s - 1)
    BY <1>1, <1>3, <1>5, <2>1, HalfAdded
  <2>. QED
    BY <1>1, <2>2 DEF H
<1>8. z \in Nat /\ K * Scale <= z
  <2>. DEFINE x == y + H
  <2>1. x \in Nat /\ K * Scale \in Nat /\ K * Scale <= x
    BY <1>2, <1>5, NatProduct
  <2>2. Round(FALSE, x, 1) = Finite(FALSE, z)
    BY <1>7
  <2>. HIDE DEF x
  <2>3. K * 2^s * 1 <= x
    <3>. DEFINE v == K * Scale
    <3>1. v \in Nat /\ v <= x
      BY <2>1
    <3>. HIDE DEF v
    <3>2. v * 1 <= x
      BY <2>1, <3>1
    <3>. QED
      BY <1>1, <3>2 DEF v
  <2>4. \A b \in BOOLEAN : Round(b, x, 1) = Finite(b, z) => z >= K * 2^s
    BY <1>1, <1>3, <2>1, <2>3, RoundUp
  <2>5. z >= K * 2^s
    BY <2>2, <2>4, Zenon
  <2>. QED
    BY <1>1, <2>1, <2>5, MagnitudeIs
<1>9. z < (m + 1) * Scale
  BY <1>2, <1>6, <1>7, <1>8
<1>10. ASSUME NEW k \in K .. m, k * Scale <= z, z < (k + 1) * Scale
       PROVE  Milliseconds(Round(neg, n, d)) = {Ok("Duration", WithSign(neg, k))}
  <2>1. k \in Nat /\ k <= MaxInt
    <3>1. m \in Nat /\ m <= MaxInt /\ MaxInt \in Nat
      BY <1>3, IntAssumption
    <3>. HIDE DEF m
    <3>. QED
      BY <1>10, <3>1
  <2>2. Round(FALSE, y + Scale \div 2, 1) = Finite(FALSE, z)
    BY <1>7 DEF H
  <2>3. Milliseconds(Finite(neg, y)) = {Ok("Duration", WithSign(neg, k))}
    BY <1>8, <1>10, <2>1, <2>2, RoundedTo
  <2>. QED
    BY <1>4, <2>3
<1>11. CASE z < (K + 1) * Scale
  <2>1. K \in K .. m
    BY <1>3
  <2>2. Milliseconds(Round(neg, n, d)) = {Ok("Duration", WithSign(neg, K))}
    BY <1>8, <1>10, <1>11, <2>1
  <2>. QED
    BY <2>1, <2>2
<1>12. CASE ~(z < (K + 1) * Scale)
  <2>1. r = 1 /\ m = K + 1
    <3>1. r # 0
      BY <1>9, <1>12
    <3>. QED
      BY <3>1
  <2>2. m \in K .. m /\ m * Scale <= z
    <3>1. (K + 1) * Scale \in Nat
      BY <1>2, NatProduct
    <3>. QED
      BY <1>8, <1>12, <2>1, <3>1
  <2>3. Milliseconds(Round(neg, n, d)) = {Ok("Duration", WithSign(neg, m))}
    BY <1>9, <1>10, <2>2
  <2>. QED
    BY <2>2, <2>3
<1>. QED
  BY <1>11, <1>12

\* What is a small number of milliseconds, N/d, is rounded up or down.
LEMMA RoundsNextTo ==
    ASSUME NEW neg \in BOOLEAN, NEW N \in Nat, NEW d \in Nat, d > 0,
           2 * (N + d) < Precision * d
    PROVE  \E k \in Nat : /\ Milliseconds(Round(neg, N * Scale, d)) =
                               {Ok("Duration", WithSign(neg, k))}
                          /\ k * d < N + d /\ N < k * d + d
<1>. DEFINE K == N \div d
            q == N % d
            r == IF q = 0 THEN 0 ELSE 1
            n == N * Scale
<1>1. K \in Nat /\ q \in 0 .. d - 1 /\ N = d * K + q /\ r \in 0 .. 1
  BY DivMod, DivBound
<1>2. Precision \in Nat /\ Scale \in Nat
  BY MagnitudeIs, ScaleIs
<1>. HIDE DEF K, q
<1>3. K * d = d * K /\ (K + r) * d = d * K + r * d /\ K * d \in Nat
  BY <1>1, Z3
<1>4. 2 * (K + 1) < Precision
  <2>. SUFFICES ASSUME Precision <= 2 * (K + 1) PROVE FALSE
    BY <1>1, <1>2
  <2>. DEFINE c == 2 * (K + 1)
  <2>1. Precision * d <= c * d
    <3>1. c \in Int /\ Precision <= c
      BY <1>1
    <3>. HIDE DEF c
    <3>. QED
      BY <1>2, <3>1, LessTimes
  <2>2. c * d = 2 * (d * K) + 2 * d
    BY <1>1, Z3
  <2>3. d * K \in Nat /\ Precision * d \in Nat
    BY <1>1, <1>2, NatProduct
  <2>. HIDE DEF c
  <2>. QED
    BY <1>1, <2>1, <2>2, <2>3
<1>5. K * d <= N /\ N <= (K + r) * d
  <2>1. CASE q = 0
    <3>1. r * d = 0
      BY <2>1
    <3>. QED
      BY <1>1, <1>3, <2>1, <3>1
  <2>2. CASE q # 0
    <3>1. r * d = d
      BY <2>2
    <3>. QED
      BY <1>1, <1>3, <2>2, <3>1
  <2>. QED
    BY <2>1, <2>2
<1>6. (K * Scale) * d <= n /\ n <= ((K + r) * Scale) * d /\ n \in Nat
  <2>. DEFINE m == K + r
  <2>1. m \in Nat /\ K * d <= N /\ N <= m * d /\ m * d \in Nat
    BY <1>1, <1>5, NatProduct
  <2>. HIDE DEF r, m
  <2>2. (K * d) * Scale <= N * Scale /\ N * Scale <= (m * d) * Scale
    BY <1>1, <1>2, <1>3, <2>1, LessTimes
  <2>3. (K * d) * Scale = (K * Scale) * d /\ (m * d) * Scale = (m * Scale) * d
    BY <1>1, <1>2, <2>1, Z3
  <2>. QED
    BY <1>2, <2>2, <2>3, NatProduct DEF m
<1>7. PICK k \in K .. K + r : Milliseconds(Round(neg, n, d)) = {Ok("Duration", WithSign(neg, k))}
  <2>1. r \in 0 .. 1 /\ K \in Nat /\ n \in Nat
    BY <1>1, <1>6
  <2>. HIDE DEF n, r
  <2>. QED
    BY <1>4, <1>6, <2>1, RoundsBetween
<1>8. k \in Nat /\ k * d < N + d /\ N < k * d + d
  <2>1. CASE k = K
    BY <1>1, <1>3, <2>1
  <2>2. CASE k = K + 1 /\ q # 0
    <3>1. (K + 1) * d = d * K + d
      BY <1>1, Z3
    <3>. QED
      BY <1>1, <1>3, <2>2, <3>1
  <2>3. k = K \/ (k = K + 1 /\ q # 0)
    BY <1>1
  <2>. QED
    BY <2>1, <2>2, <2>3
<1>. QED
  BY <1>7, <1>8
-----------------------------------------------------------------------------
(* Opposite durations *)

\* Zero has no sign as an integer.
LEMMA MinusZero == -0 = 0
<1>1. \A n \in Int : n <= 0 /\ n >= 0 => -n = n
  OBVIOUS
<1>2. 0 \in Int /\ 0 <= 0 /\ 0 >= 0
  OBVIOUS
<1>. QED
  BY <1>1, <1>2, Zenon

\* Not is a Boolean operation.
LEMMA Complement ==
    ASSUME NEW s \in BOOLEAN
    PROVE  (~s) \in BOOLEAN
BY Zenon

\* What is not finite is converted to what Go leaves open.
LEMMA NotFiniteToInt ==
    ASSUME NEW x \in Float64, ~IsFinite(x)
    PROVE  ToInt(RoundHalfAway(x)) = OutOfRange
<1>. DEFINE zero == Finite(FALSE, 0)
            half == Negate(Half)
<1>1. /\ IsFinite(Half) /\ IsFinite(half) /\ ~IsNaN(Half) /\ ~IsNaN(half)
      /\ IsFinite(zero) /\ ~IsNaN(zero) /\ zero # Inf(TRUE) /\ zero # Inf(FALSE)
  <2>1. \A b \in BOOLEAN, m \in Nat : /\ IsFinite(Finite(b, m)) /\ ~IsNaN(Finite(b, m))
                                      /\ Finite(b, m) # Inf(TRUE) /\ Finite(b, m) # Inf(FALSE)
    BY ClassesAre
  <2>2. Half = Finite(FALSE, Scale \div 2) /\ half = Finite(TRUE, Scale \div 2) /\ Scale \div 2 \in Nat
    BY HalfScale
  <2>. HIDE DEF half
  <2>. QED
    BY <2>1, <2>2, Zenon
<1>. HIDE DEF zero, half
<1>2. ASSUME NEW y \in Float64, ~IsFinite(y)
      PROVE  /\ Plus(y, Half) = y /\ Plus(y, half) = y
             /\ Floor(y) = y /\ Ceil(y) = y /\ ToInt(y) = OutOfRange
  <2>1. y \in {Inf(TRUE), Inf(FALSE), NaN}
    BY <1>2, FloatIs
  <2>2. IsNaN(y) => y = NaN
    <3>1. \A b \in BOOLEAN : ~IsNaN(Inf(b))
      BY ClassesAre
    <3>2. ~IsNaN(Inf(TRUE)) /\ ~IsNaN(Inf(FALSE))
      BY <3>1, Zenon
    <3>. QED
      BY <2>1, <3>2, Zenon
  <2>3. Plus(y, Half) = y /\ Plus(y, half) = y
    BY <1>1, <1>2, <2>2, Zenon DEF Plus
  <2>4. Truncated(y) = y /\ Enlarged(y) = y
    BY <1>2, Zenon DEF Truncated, Enlarged
  <2>5. Floor(y) = y /\ Ceil(y) = y
    BY <2>4, Zenon DEF Floor, Ceil
  <2>6. ToInt(y) = OutOfRange
    BY <1>2, Zenon DEF ToInt
  <2>. QED
    BY <2>3, <2>5, <2>6
<1>3. ASSUME NEW y \in Float64, ~IsFinite(y)
      PROVE  ToInt(RoundHalfAway(y)) = OutOfRange
  <2>1. RoundHalfAway(y) = y
    BY <1>2, <1>3, Zenon DEF RoundHalfAway, half
  <2>. QED
    BY <1>2, <1>3, <2>1
<1>. QED
  BY <1>3

\* Whatever is not finite becomes the same durations.
LEMMA NotFiniteMilliseconds ==
    ASSUME NEW x \in Float64, ~IsFinite(x)
    PROVE  Milliseconds(x) = Milliseconds(NaN)
<1>1. NaN \in Float64 /\ ~IsFinite(NaN)
  <2>1. \A b \in BOOLEAN : ~IsFinite(NaN)
    BY ClassesAre
  <2>. QED
    BY <2>1, FloatIs
<1>2. ToInt(RoundHalfAway(x)) = OutOfRange /\ ToInt(RoundHalfAway(NaN)) = OutOfRange
  BY <1>1, NotFiniteToInt
<1>. QED
  BY <1>2 DEF Milliseconds

\* Two floats to be rounded to opposite durations, unless one is out of range.
Alike(p, q) ==
    \/ ~IsFinite(p)
    \/ \E neg \in BOOLEAN : p = Finite(neg, 0) /\ q = Finite(neg, 0)
    \/ \E neg \in BOOLEAN, m \in Magnitude : p = Finite(neg, m) /\ q = Finite(~neg, m)

\* Zero is rounded to zero.
LEMMA ZeroMilliseconds ==
    ASSUME NEW neg \in BOOLEAN
    PROVE  Milliseconds(Finite(neg, 0)) = {Ok("Duration", 0)}
<1>. DEFINE H == Scale \div 2
<1>1. /\ H \in Nat /\ H > 0 /\ H \in Magnitude /\ 0 \in Magnitude /\ MaxInt \in Nat
      /\ Scale = 2 * H /\ H = H * 1 /\ 0 + H = H
  BY HalfScale, MagnitudeIs, IntAssumption
<1>. HIDE DEF H
<1>2. \A b \in BOOLEAN : Round(b, H, 1) = Finite(b, H)
  BY <1>1, RoundExact
<1>3. Round(FALSE, H, 1) = Finite(FALSE, H)
  BY <1>2, Zenon
<1>4. Round(FALSE, 0 + Scale \div 2, 1) = Finite(FALSE, H)
  BY <1>1, <1>3 DEF H
<1>5. 0 * Scale <= H /\ H < (0 + 1) * Scale /\ 0 \in Nat /\ 0 <= MaxInt
  BY <1>1
<1>6. Milliseconds(Finite(neg, 0)) = {Ok("Duration", WithSign(neg, 0))}
  BY <1>1, <1>4, <1>5, RoundedTo
<1>7. WithSign(neg, 0) = 0
  BY MinusZero, Zenon DEF WithSign
<1>. QED
  BY <1>6, <1>7

\* The parts of an outcome.
LEMMA OkIs ==
    ASSUME NEW t, NEW n
    PROVE  Ok(t, n).value[2] = n /\ Ok(t, n).is = "ok"
BY DEF Ok

\* Opposites are rounded to opposites.
LEMMA AlikeMilliseconds ==
    ASSUME NEW p \in Float64, NEW q, Alike(p, q)
    PROVE  \/ Milliseconds(NaN) \in {Milliseconds(p), Milliseconds(q)}
           \/ \A x \in Milliseconds(p), y \in Milliseconds(q) : x.value[2] + y.value[2] = 0
<1>1. CASE ~IsFinite(p)
  BY <1>1, NotFiniteMilliseconds
<1>2. CASE \E neg \in BOOLEAN : p = Finite(neg, 0) /\ q = Finite(neg, 0)
  <2>1. Milliseconds(p) = {Ok("Duration", 0)} /\ Milliseconds(q) = {Ok("Duration", 0)}
    BY <1>2, ZeroMilliseconds
  <2>2. Ok("Duration", 0).value[2] = 0
    BY OkIs
  <2>. QED
    BY <2>1, <2>2
<1>3. ASSUME NEW neg \in BOOLEAN, NEW m \in Magnitude, p = Finite(neg, m), q = Finite(~neg, m)
      PROVE  \/ Milliseconds(NaN) \in {Milliseconds(p), Milliseconds(q)}
             \/ \A x \in Milliseconds(p), y \in Milliseconds(q) : x.value[2] + y.value[2] = 0
  <2>. DEFINE r == Round(FALSE, m + Scale \div 2, 1)
              a == Whole(neg, r.mag)
              b == Whole(~neg, r.mag)
              whole == IsFinite(r)
  <2>1. \A s \in BOOLEAN :
          ToInt(RoundHalfAway(Finite(s, m))) =
            IF whole /\ Whole(s, r.mag) \in Int64 THEN {Whole(s, r.mag)} ELSE OutOfRange
    BY RoundHalfAwayIs
  <2>2. Milliseconds(NaN) = {Ok("Duration", n) : n \in OutOfRange}
    <3>1. NaN \in Float64 /\ \A s \in BOOLEAN : ~IsFinite(NaN)
      BY FloatIs, ClassesAre
    <3>2. ToInt(RoundHalfAway(NaN)) = OutOfRange
      BY <3>1, NotFiniteToInt
    <3>. QED
      BY <3>2 DEF Milliseconds
  <2>. HIDE DEF whole, r
  <2>3. (~neg) \in BOOLEAN
    BY Complement
  <2>4. ToInt(RoundHalfAway(p)) = IF whole /\ a \in Int64 THEN {a} ELSE OutOfRange
    BY <1>3, <2>1, Zenon
  <2>5. ToInt(RoundHalfAway(q)) = IF whole /\ b \in Int64 THEN {b} ELSE OutOfRange
    BY <1>3, <2>1, <2>3, Zenon
  <2>6. CASE ~(whole /\ a \in Int64)
    <3>1. ToInt(RoundHalfAway(p)) = OutOfRange
      BY <2>4, <2>6, Zenon
    <3>. QED
      BY <2>2, <3>1 DEF Milliseconds
  <2>7. CASE ~(whole /\ b \in Int64)
    <3>1. ToInt(RoundHalfAway(q)) = OutOfRange
      BY <2>5, <2>7, Zenon
    <3>. QED
      BY <2>2, <3>1 DEF Milliseconds
  <2>8. CASE whole /\ a \in Int64 /\ b \in Int64
    <3>1. ToInt(RoundHalfAway(p)) = {a} /\ ToInt(RoundHalfAway(q)) = {b}
      BY <2>4, <2>5, <2>8, Zenon
    <3>2. a + b = 0
      <4>1. a \in Int /\ b \in Int
        BY <2>8, IntAssumption DEF Int64, MinInt
      <4>2. a = -b \/ b = -a
        BY Zenon DEF Whole, WithSign
      <4>. HIDE DEF a, b
      <4>. QED
        BY <4>1, <4>2
    <3>3. Milliseconds(p) = {Ok("Duration", a)} /\ Milliseconds(q) = {Ok("Duration", b)}
      BY <3>1 DEF Milliseconds
    <3>4. Ok("Duration", a).value[2] = a /\ Ok("Duration", b).value[2] = b
      BY OkIs
    <3>. HIDE DEF a, b
    <3>. QED
      BY <3>2, <3>3, <3>4
  <2>. QED
    BY <2>6, <2>7, <2>8
<1>. QED
  BY <1>1, <1>2, <1>3 DEF Alike

\* Opposite durations are opposite floats; only zero is its own opposite.
LEMMA OppositeToFloat ==
    ASSUME NEW d \in Int64, d # MinInt
    PROVE  /\ Wrap(-d) = -d /\ -d \in Int64
           /\ \/ ToFloat(d) = Finite(FALSE, 0) /\ ToFloat(-d) = Finite(FALSE, 0)
              \/ \E s \in BOOLEAN, x \in Magnitude :
                    x # 0 /\ ToFloat(d) = Finite(s, x) /\ ToFloat(-d) = Finite(~s, x)
<1>1. d \in Int /\ -d \in Int64 /\ MaxInt \in Nat /\ -d \in Int
  BY IntAssumption DEF Int64, MinInt
<1>2. Wrap(-d) = -d
  BY <1>1, WrapIdentity
<1>3. CASE d = 0
  <2>1. Abs(0) = 0 /\ -0 = 0 /\ 0 * Scale = 0 /\ ~(0 < 0) /\ 0 \in Int /\ 0 < Precision
    <3>1. Abs(0) = 0 /\ ~(0 < 0) /\ 0 \in Int
      BY DEF Abs
    <3>2. 0 * Scale = 0 /\ 0 < Precision
      BY ScaleIs, MagnitudeIs
    <3>. QED
      BY <3>1, <3>2, MinusZero
  <2>2. ToFloat(0) = Finite(0 < 0, Abs(0) * Scale)
    BY <2>1, ToFloatExact
  <2>3. ToFloat(0) = Finite(FALSE, 0)
    BY <2>1, <2>2
  <2>. QED
    BY <1>1, <1>2, <1>3, <2>1, <2>3
<1>4. CASE d # 0
  <2>. DEFINE s == d < 0
              a == Abs(d)
              r == Round(FALSE, a * Scale, 1)
  <2>1. s \in BOOLEAN /\ (-d < 0) = ~s /\ Abs(-d) = a /\ a \in Nat /\ a > 0
    BY <1>1, <1>4 DEF Abs
  <2>2. ToFloat(d) = Round(s, a * Scale, 1) /\ ToFloat(-d) = Round(~s, a * Scale, 1)
    BY <2>1, Zenon DEF ToFloat
  <2>3. PICK x \in Magnitude : ToFloat(d) = Finite(s, x)
    BY ToFloatFinite
  <2>. HIDE DEF s, a
  <2>4. \A b : Round(b, a * Scale, 1) = IF IsFinite(r) THEN Finite(b, r.mag) ELSE Inf(b)
    BY RoundSign
  <2>5. IsFinite(r) /\ r.mag = x
    <3>. HIDE DEF r
    <3>1. Round(s, a * Scale, 1) = IF IsFinite(r) THEN Finite(s, r.mag) ELSE Inf(s)
      BY <2>4
    <3>2. IsFinite(Finite(s, x)) /\ ~IsFinite(Inf(s)) /\ Finite(s, x).mag = x
          /\ Finite(s, r.mag).mag = r.mag
      BY <2>1, ClassesAre, FieldsAre
    <3>. QED
      BY <2>2, <2>3, <3>1, <3>2, Zenon
  <2>. HIDE DEF r
  <2>6. ToFloat(-d) = Finite(~s, x)
    BY <2>2, <2>4, <2>5, Zenon
  <2>7. x # 0
    <3>1. ~IsZero(ToFloat(d))
      BY <1>1, <1>4, ToFloatIs
    <3>2. IsZero(Finite(s, x)) <=> x = 0
      BY <2>1, ClassesAre
    <3>. QED
      BY <2>3, <3>1, <3>2
  <2>. QED
    BY <1>1, <1>2, <2>1, <2>3, <2>6, <2>7
<1>. QED
  BY <1>3, <1>4

\* The sign of a product changes with that of a factor.
LEMMA Opposite ==
    ASSUME NEW s \in BOOLEAN, NEW t \in BOOLEAN
    PROVE  (s # t) \in BOOLEAN /\ ((~s) # t) = (~(s # t))
<1>1. CASE s = TRUE
  <2>1. CASE t = TRUE
    BY <1>1, <2>1, Zenon
  <2>2. CASE t = FALSE
    BY <1>1, <2>2, Zenon
  <2>. QED
    BY <2>1, <2>2
<1>2. CASE s = FALSE
  <2>1. CASE t = TRUE
    BY <1>2, <2>1, Zenon
  <2>2. CASE t = FALSE
    BY <1>2, <2>2, Zenon
  <2>. QED
    BY <2>1, <2>2
<1>. QED
  BY <1>1, <1>2

\* Roundings of a number and its opposite.
LEMMA RoundAlike ==
    ASSUME NEW s \in BOOLEAN, NEW t \in BOOLEAN, NEW n \in Nat, NEW d \in Nat, d > 0
    PROVE  Alike(Round(s # t, n, d), Round((~s) # t, n, d))
<1>. DEFINE r == Round(FALSE, n, d)
            b == s # t
<1>1. b \in BOOLEAN /\ ((~s) # t) = (~b)
  BY Opposite
<1>2. \A i \in BOOLEAN : Round(i, n, d) \in Float64
  BY RoundFloat
<1>3. r \in Float64
  BY <1>2, Zenon
<1>4. \A i : Round(i, n, d) = IF IsFinite(r) THEN Finite(i, r.mag) ELSE Inf(i)
  BY RoundSign
<1>5. r.mag \in Magnitude
  BY <1>3, FloatIs
<1>. HIDE DEF b, r
<1>6. CASE IsFinite(r)
  <2>1. Round(b, n, d) = Finite(b, r.mag) /\ Round(~b, n, d) = Finite(~b, r.mag)
    BY <1>4, <1>6, Zenon
  <2>2. Alike(Round(b, n, d), Round(~b, n, d))
    BY <1>1, <1>5, <2>1, Zenon DEF Alike
  <2>. QED
    BY <1>1, <2>2, Zenon DEF b
<1>7. CASE ~IsFinite(r)
  <2>1. Round(b, n, d) = Inf(b)
    BY <1>4, <1>7, Zenon
  <2>2. ~IsFinite(Inf(b))
    BY <1>1, ClassesAre
  <2>. QED
    BY <2>1, <2>2, Zenon DEF Alike, b
<1>. QED
  BY <1>6, <1>7

\* A rounded zero.
LEMMA ZeroAlike ==
    ASSUME NEW b \in BOOLEAN, NEW d \in Nat, d > 0
    PROVE  Alike(Round(b, 0, d), Round(b, 0, d))
<1>1. 0 \in Magnitude /\ 0 = 0 * d
  BY MagnitudeIs
<1>2. Round(b, 0, d) = Finite(b, 0)
  BY <1>1, RoundExact
<1>. QED
  BY <1>2, Zenon DEF Alike

\* What is not finite is not rounded.
LEMMA NotFiniteIs ==
    ASSUME NEW b
    PROVE  ~IsFinite(NaN) /\ ~IsFinite(Inf(b)) /\ IsNaN(NaN)
BY DEF IsFinite, IsNaN, NaN, Inf

\* Products with a float.
LEMMA TimesAlike ==
    ASSUME NEW d \in Int64, d # MinInt, NEW g \in Float64
    PROVE  /\ Times(ToFloat(d), g) \in Float64
           /\ Alike(Times(ToFloat(d), g), Times(ToFloat(Wrap(-d)), g))
<1>. DEFINE u == ToFloat(d)
            v == ToFloat(-d)
<1>1. Wrap(-d) = -d /\ -d \in Int64 /\ d \in Int /\ -d \in Int
  <2>1. Wrap(-d) = -d /\ -d \in Int64
    BY OppositeToFloat
  <2>2. d \in Int /\ -d \in Int
    BY IntAssumption DEF Int64, MinInt
  <2>. QED
    BY <2>1, <2>2
<1>2. u \in Float64 /\ Times(u, g) \in Float64
  BY <1>1, ToFloatIs, TimesFloat
<1>3. /\ g.neg \in BOOLEAN /\ g.mag \in Nat
      /\ IsFinite(g) => g = Finite(g.neg, g.mag)
  BY FloatIs
<1>4. Scale \in Nat /\ Scale > 0
  BY ScaleIs
<1>5. CASE ~IsFinite(g)
  <2>1. Times(u, g) \in {NaN, Inf(u.neg # g.neg)}
    BY <1>5 DEF Times
  <2>. QED
    BY <1>1, <1>2, <2>1, NotFiniteIs DEF Alike
<1>6. CASE IsFinite(g)
  <2>. DEFINE t == g.neg
              m == g.mag
  <2>1. g = Finite(t, m) /\ t \in BOOLEAN /\ m \in Nat
    BY <1>3, <1>6
  <2>. HIDE DEF t, m
  <2>2. \A a \in BOOLEAN, x \in Magnitude : Times(Finite(a, x), g) = Round(a # t, x * m, Scale)
    BY <2>1, TimesIs
  <2>3. CASE u = Finite(FALSE, 0) /\ v = Finite(FALSE, 0)
    <3>1. 0 \in Magnitude /\ 0 * m = 0
      BY <2>1, MagnitudeIs
    <3>2. Times(Finite(FALSE, 0), g) = Round(FALSE # t, 0 * m, Scale)
      BY <2>2, <3>1, Zenon
    <3>3. \A b \in BOOLEAN : Alike(Round(b, 0, Scale), Round(b, 0, Scale))
      BY <1>4, ZeroAlike
    <3>4. (FALSE # t) \in BOOLEAN
      BY Zenon
    <3>5. Alike(Round(FALSE # t, 0, Scale), Round(FALSE # t, 0, Scale))
      BY <3>3, <3>4, Zenon
    <3>6. Times(u, g) = Round(FALSE # t, 0, Scale) /\ Times(v, g) = Round(FALSE # t, 0, Scale)
      BY <2>3, <3>1, <3>2, Zenon
    <3>. QED
      BY <1>1, <1>2, <3>5, <3>6, Zenon
  <2>4. ASSUME NEW s \in BOOLEAN, NEW x \in Magnitude, u = Finite(s, x), v = Finite(~s, x)
        PROVE  Alike(Times(u, g), Times(v, g))
    <3>1. Times(u, g) = Round(s # t, x * m, Scale)
      BY <2>2, <2>4, Zenon
    <3>2. (~s) \in BOOLEAN
      BY Complement
    <3>3. Times(v, g) = Round((~s) # t, x * m, Scale)
      BY <2>2, <2>4, <3>2, Zenon
    <3>4. x * m \in Nat
      BY <2>1, MagnitudeIs, NatProduct
    <3>5. Alike(Round(s # t, x * m, Scale), Round((~s) # t, x * m, Scale))
      BY <1>4, <2>1, <3>4, RoundAlike
    <3>. QED
      BY <3>1, <3>3, <3>5, Zenon
  <2>. QED
    BY <1>1, <1>2, <2>3, <2>4, OppositeToFloat
<1>. QED
  BY <1>5, <1>6

\* Quotients by a float that is not zero.
LEMMA OverAlike ==
    ASSUME NEW d \in Int64, d # MinInt, NEW g \in Float64, ~IsZero(g)
    PROVE  /\ Over(ToFloat(d), g) \in Float64
           /\ Alike(Over(ToFloat(d), g), Over(ToFloat(Wrap(-d)), g))
<1>. DEFINE u == ToFloat(d)
            v == ToFloat(-d)
<1>1. Wrap(-d) = -d /\ -d \in Int64 /\ d \in Int /\ -d \in Int
  <2>1. Wrap(-d) = -d /\ -d \in Int64
    BY OppositeToFloat
  <2>2. d \in Int /\ -d \in Int
    BY IntAssumption DEF Int64, MinInt
  <2>. QED
    BY <2>1, <2>2
<1>2. u \in Float64 /\ Over(u, g) \in Float64
  BY <1>1, ToFloatIs, OverFloat
<1>3. /\ g.neg \in BOOLEAN /\ g.mag \in Nat
      /\ IsFinite(g) => g = Finite(g.neg, g.mag)
  BY FloatIs
<1>. DEFINE t == g.neg
            m == g.mag
<1>4. Scale \in Nat /\ Scale > 0 /\ 0 \in Magnitude /\ Magnitude \subseteq Nat /\ 0 * Scale = 0
  BY ScaleIs, MagnitudeIs
<1>5. \A a \in BOOLEAN, x \in Magnitude : /\ IsFinite(Finite(a, x)) /\ ~IsNaN(Finite(a, x))
                                           /\ Finite(a, x).neg = a
  BY ClassesAre, FieldsAre
<1>6. CASE IsNaN(g)
  <2>1. Over(u, g) = NaN
    BY <1>6, Zenon DEF Over
  <2>. QED
    BY <1>1, <1>2, <2>1, NotFiniteIs DEF Alike
<1>7. CASE ~IsFinite(g) /\ ~IsNaN(g)
  <2>1. \A a \in BOOLEAN, x \in Magnitude : Over(Finite(a, x), g) = Finite(a # t, 0)
    BY <1>5, <1>7, Zenon DEF Over
  <2>. HIDE DEF t
  <2>2. CASE u = Finite(FALSE, 0) /\ v = Finite(FALSE, 0)
    <3>1. Over(u, g) = Finite(FALSE # t, 0) /\ Over(v, g) = Finite(FALSE # t, 0)
      BY <1>4, <2>1, <2>2, Zenon
    <3>2. (FALSE # t) \in BOOLEAN
      BY Zenon
    <3>. QED
      BY <1>1, <1>2, <3>1, <3>2, Zenon DEF Alike
  <2>3. ASSUME NEW s \in BOOLEAN, NEW x \in Magnitude, u = Finite(s, x), v = Finite(~s, x)
        PROVE  Alike(Over(u, g), Over(v, g))
    <3>1. (~s) \in BOOLEAN
      BY Complement
    <3>2. Over(u, g) = Finite(s # t, 0) /\ Over(v, g) = Finite((~s) # t, 0)
      BY <2>1, <2>3, <3>1, Zenon
    <3>3. t \in BOOLEAN
      BY <1>3 DEF t
    <3>4. ((~s) # t) = (~(s # t)) /\ (s # t) \in BOOLEAN
      BY <3>3, Opposite
    <3>. QED
      BY <1>4, <3>2, <3>4, Zenon DEF Alike
  <2>. QED
    BY <1>1, <1>2, <2>2, <2>3, OppositeToFloat
<1>8. CASE IsFinite(g)
  <2>1. g = Finite(t, m) /\ t \in BOOLEAN /\ m \in Nat
    BY <1>3, <1>8
  <2>. HIDE DEF t, m
  <2>2. \A a \in BOOLEAN, x \in Magnitude : Over(Finite(a, x), g) = Round(a # t, x * Scale, m)
    BY <2>1, OverIs
  <2>3. m > 0
    <3>1. IsZero(Finite(t, m)) <=> m = 0
      BY <2>1, ClassesAre
    <3>. QED
      BY <2>1, <3>1
  <2>4. CASE u = Finite(FALSE, 0) /\ v = Finite(FALSE, 0)
    <3>1. Over(Finite(FALSE, 0), g) = Round(FALSE # t, 0 * Scale, m)
      BY <1>4, <2>2, Zenon
    <3>2. \A b \in BOOLEAN : Alike(Round(b, 0, m), Round(b, 0, m))
      BY <2>1, <2>3, ZeroAlike
    <3>3. (FALSE # t) \in BOOLEAN
      BY Zenon
    <3>4. Alike(Round(FALSE # t, 0, m), Round(FALSE # t, 0, m))
      BY <3>2, <3>3, Zenon
    <3>5. Over(u, g) = Round(FALSE # t, 0, m) /\ Over(v, g) = Round(FALSE # t, 0, m)
      BY <1>4, <2>4, <3>1, Zenon
    <3>. QED
      BY <1>1, <1>2, <3>4, <3>5, Zenon
  <2>5. ASSUME NEW s \in BOOLEAN, NEW x \in Magnitude, u = Finite(s, x), v = Finite(~s, x)
        PROVE  Alike(Over(u, g), Over(v, g))
    <3>1. (~s) \in BOOLEAN
      BY Complement
    <3>2. Over(u, g) = Round(s # t, x * Scale, m) /\ Over(v, g) = Round((~s) # t, x * Scale, m)
      BY <2>2, <2>5, <3>1, Zenon
    <3>3. x * Scale \in Nat
      BY <1>4, NatProduct
    <3>4. Alike(Round(s # t, x * Scale, m), Round((~s) # t, x * Scale, m))
      BY <2>1, <2>3, <3>3, RoundAlike
    <3>. QED
      BY <3>2, <3>4, Zenon
  <2>. QED
    BY <1>1, <1>2, <2>4, <2>5, OppositeToFloat
<1>. QED
  BY <1>6, <1>7, <1>8
=============================================================================
