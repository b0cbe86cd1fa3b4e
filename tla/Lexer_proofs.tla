---------------------------- MODULE Lexer_proofs ----------------------------
(***************************************************************************)
(* What the lexer guarantees of every source, however long, over whatever  *)
(* characters.                                                             *)
(*                                                                         *)
(* The loops of the lexer are recursive functions on places of the source, *)
(* and so is its position.  There is no induction over them; a statement   *)
(* that fails for some place fails for a last one (or for a first one),    *)
(* and that one the recursion refutes.  DescentExists says in that way that*)
(* such a function exists, DescentInduction what it passes on.             *)
(*                                                                         *)
(* The argument has three parts.  Skips(i, j): between i and j there are   *)
(* only blanks, newlines and whole comments; the loops in front of a token *)
(* and after a newline do that.  Reads(i, t): what t is, read at i; every  *)
(* kind of token ends on the line it began.  NextTokenAdds puts them       *)
(* together: NextToken adds a token that is read after something skipped   *)
(* (Lexed), or the end of a line (LineEnded).                              *)
(*                                                                         *)
(* The invariant says where the lexer stands when it is called again: on   *)
(* the line of the last token or where a statement begins, in no comment   *)
(* unless a string was opened on that line, at the position of that place, *)
(* with as many brackets open as the tokens have left open.                *)
(***************************************************************************)
EXTENDS Lexer, SequenceTheorems, FiniteSetTheorems, WellFoundedInduction, TLAPS

-----------------------------------------------------------------------------
(* Numbers and recursion *)

\* A set of numbers has a least one.
LEMMA LeastIs ==
    ASSUME NEW S \in SUBSET Nat, S # {}
    PROVE  \E n \in S : \A m \in S : n <= m
<1>. DEFINE R == {p \in Nat \X Nat : p[1] < p[2]}
<1>1. OpToRel(<, Nat) = R
  BY Zenon DEF OpToRel
<1>2. IsWellFoundedOn(R, Nat)
  BY <1>1, NatLessThanWellFounded, Zenon
<1>. HIDE DEF R
<1>3. \E x \in S : \A y \in S : ~(<<y, x>> \in R)
  BY <1>2, WFMin
<1>4. \A x, y \in Nat : ~(<<y, x>> \in R) => x <= y
  BY DEF R
<1>. QED
  BY <1>3, <1>4

\* A set of numbers up to n has a greatest one.
LEMMA GreatestIs ==
    ASSUME NEW n \in Nat, NEW S \in SUBSET (0 .. n), S # {}
    PROVE  \E m \in S : \A k \in S : k <= m
<1>. DEFINE T == {n - k : k \in S}
<1>1. T \in SUBSET Nat /\ T # {}
  <2>1. \A k \in S : n - k \in Nat
    OBVIOUS
  <2>. QED
    BY <2>1
<1>2. PICK t \in T : \A u \in T : t <= u
  BY <1>1, LeastIs
<1>3. PICK m \in S : t = n - m
  OBVIOUS
<1>4. \A k \in S : n - m <= n - k
  BY <1>2, <1>3
<1>5. \A k \in S : k <= m
  BY <1>4
<1>. QED
  BY <1>5

\* Zero is not positive.
LEMMA ZeroIs == \A n : n = 0 => ~(n > 0)
OBVIOUS

\* The numbers before, at and after c.
LEMMA AroundIs ==
    \A k, c, j \in Nat : \A m \in k .. j - 1 :
       m \in k .. c - 1 \/ m = c \/ m \in c + 1 .. j - 1
OBVIOUS

\* What is below a place of the source.
LEMMA BelowIs == \A k, m, l \in Nat : k + 1 <= m /\ m \in 1 .. l => k \in 0 .. l
OBVIOUS

\* From i to before the next there is i.
LEMMA OnlyIs ==
    ASSUME NEW i \in Nat, NEW n, n = i + 1
    PROVE  (\A m \in i .. n - 1 : m = i) /\ \A m : m \notin i + 1 .. n - 1
OBVIOUS

\* A recursion on D that goes on at the places in B, from d to N[d], and comes
\* closer to its end each time.
Descends(D, B, N, M, n) ==
    /\ B \subseteq D /\ n \in Nat
    /\ \A d \in B : N[d] \in D
    /\ \A d \in D : M[d] \in 0 .. n
    /\ \A d \in B : M[N[d]] < M[d]

\* What holds where it stops, and is passed on, holds everywhere.
LEMMA DescentInduction ==
    ASSUME NEW D, NEW B, NEW N, NEW M, NEW n, Descends(D, B, N, M, n),
           NEW S, \A d \in D : d \notin B => d \in S,
           \A d \in B : N[d] \in S => d \in S
    PROVE  \A d \in D : d \in S
<1>. SUFFICES ASSUME NEW e \in D, e \notin S
              PROVE  FALSE
  OBVIOUS
<1>. DEFINE T == {M[d] : d \in {x \in D : x \notin S}}
<1>1. T \in SUBSET Nat /\ T # {}
  BY DEF Descends
<1>2. PICK t \in T : \A u \in T : t <= u
  BY <1>1, LeastIs
<1>3. PICK d \in D : d \notin S /\ t = M[d]
  OBVIOUS
<1>4. d \in B /\ N[d] \in D /\ N[d] \notin S /\ M[N[d]] < M[d]
  BY <1>3 DEF Descends
<1>5. M[N[d]] \in T /\ M[d] \in Nat /\ M[N[d]] \in Nat
  BY <1>3, <1>4 DEF Descends
<1>6. M[d] <= M[N[d]]
  BY <1>2, <1>3, <1>5
<1>. HIDE DEF T
<1>. QED
  BY <1>4, <1>5, <1>6

\* There is such a function.
LEMMA DescentExists ==
    ASSUME NEW D, NEW B, NEW N, NEW M, NEW n, Descends(D, B, N, M, n), NEW V
    PROVE  \E f : f = [d \in D |-> IF d \in B THEN f[N[d]] ELSE V[d]]
<1>. DEFINE Upto(k, f) == \A d \in D : M[d] <= k =>
                             f[d] = IF d \in B THEN f[N[d]] ELSE V[d]
            Bad == {k \in Nat : ~(\E f : Upto(k, f))}
<1>1. Bad = {}
  <2>. SUFFICES ASSUME Bad # {}
                PROVE  FALSE
    OBVIOUS
  <2>1. PICK k \in Bad : \A j \in Bad : k <= j
    BY LeastIs
  <2>2. k # 0
    <3>1. \A d \in D : M[d] <= 0 => d \notin B
      BY DEF Descends
    <3>2. Upto(0, [d \in D |-> V[d]])
      BY <3>1
    <3>3. 0 \notin Bad
      BY <3>2
    <3>. QED
      BY <2>1, <3>3
  <2>3. k - 1 \in Nat /\ ~(k <= k - 1)
    BY <2>1, <2>2
  <2>4. PICK f : Upto(k - 1, f)
    BY <2>1, <2>3
  <2>. DEFINE g == [d \in D |-> IF M[d] <= k - 1 THEN f[d]
                                ELSE IF d \in B THEN f[N[d]] ELSE V[d]]
  <2>5. ASSUME NEW d \in D, M[d] <= k
        PROVE  g[d] = IF d \in B THEN g[N[d]] ELSE V[d]
    <3>1. d \in B => N[d] \in D /\ M[N[d]] <= k - 1
      BY <2>1, <2>5 DEF Descends
    <3>2. d \in B => g[N[d]] = f[N[d]]
      BY <3>1
    <3>3. M[d] <= k - 1 => f[d] = IF d \in B THEN f[N[d]] ELSE V[d]
      BY <2>4
    <3>. QED
      BY <3>2, <3>3
  <2>6. Upto(k, g)
    BY <2>5
  <2>. QED
    BY <2>1, <2>6
<1>2. n \in Nat /\ n \notin Bad
  BY <1>1 DEF Descends
<1>3. PICK f : Upto(n, f)
  BY <1>2
<1>4. \A d \in D : f[d] = IF d \in B THEN f[N[d]] ELSE V[d]
  BY <1>3 DEF Descends
<1>. DEFINE h == [d \in D |-> f[d]]
<1>5. \A d \in D : h[d] = IF d \in B THEN h[N[d]] ELSE V[d]
  BY <1>4 DEF Descends
<1>6. h = [d \in D |-> IF d \in B THEN h[N[d]] ELSE V[d]]
  BY <1>5
<1>. QED
  BY <1>6

\* How far it is from a place to the end of the source.
ToEnd(l) == [i \in Nat |-> IF i <= l THEN l + 1 - i ELSE 0]

\* A recursion through the source from left to right.
LEMMA UpwardDescends ==
    ASSUME NEW l \in Nat, NEW B \in SUBSET (0 .. l), NEW N,
           \A i \in B : N[i] \in Nat /\ i < N[i]
    PROVE  Descends(Nat, B, N, ToEnd(l), l + 1)
<1>1. \A i \in Nat : ToEnd(l)[i] \in 0 .. l + 1
  BY DEF ToEnd
<1>2. \A i \in B : ToEnd(l)[N[i]] < ToEnd(l)[i]
  BY DEF ToEnd
<1>3. B \subseteq Nat /\ l + 1 \in Nat
  OBVIOUS
<1>. QED
  BY <1>1, <1>2, <1>3 DEF Descends

-----------------------------------------------------------------------------
(* Characters *)

\* The source is made of characters.
Source == src \in Seq(Characters)

\* The characters of the source, and what there is outside of it.
LEMMA ChIs ==
    ASSUME Source
    PROVE  /\ Len(src) \in Nat
           /\ \A i : Ch(i) \in Characters \cup {"eof"}
           /\ \A i : Ch(i) # "eof" => i \in 1 .. Len(src)
           /\ \A i \in 1 .. Len(src) : Ch(i) \in Characters
           /\ "eof" \notin Characters
<1>1. Len(src) \in Nat /\ DOMAIN src = 1 .. Len(src)
      /\ \A i \in 1 .. Len(src) : src[i] \in Characters
  BY LenProperties, ElementOfSeq DEF Source
<1>2. "eof" \notin Characters
  BY DEF Characters, IdentPart, IdentStart, Newlines
<1>. QED
  BY <1>1, <1>2 DEF Ch

\* The first place whose character is not in S.
LEMMA FirstIs ==
    ASSUME Source, NEW S, "eof" \notin S, NEW i \in Nat, i <= Len(src) + 1
    PROVE  LET j == FirstNotIn(S, i) IN
           /\ j \in Nat /\ i <= j /\ j <= Len(src) + 1
           /\ Ch(j) \notin S /\ \A k \in i .. j - 1 : Ch(k) \in S
<1>. DEFINE l == Len(src)
            T == {j \in i .. l + 1 : Ch(j) \notin S}
<1>1. l \in Nat /\ Ch(l + 1) = "eof"
  BY ChIs
<1>2. T \in SUBSET Nat /\ T # {}
  <2>. HIDE DEF l
  <2>1. l + 1 \in i .. l + 1
    BY <1>1 DEF l
  <2>. QED
    BY <1>1, <2>1
<1>3. PICK j \in T : \A k \in T : j <= k
  BY <1>2, LeastIs
<1>4. \A k \in i .. j - 1 : Ch(k) \in S
  <2>. HIDE DEF l
  <2>1. \A k \in i .. j - 1 : k \in i .. l + 1 /\ ~(j <= k)
    BY <1>1, <1>3
  <2>. QED
    BY <1>3, <2>1
<1>5. \E c \in i .. Len(src) + 1 : Ch(c) \notin S /\ \A k \in i .. c - 1 : Ch(k) \in S
  BY <1>3, <1>4
<1>. DEFINE c == FirstNotIn(S, i)
<1>6. c \in i .. l + 1 /\ Ch(c) \notin S /\ \A k \in i .. c - 1 : Ch(k) \in S
  BY <1>5 DEF FirstNotIn
<1>. HIDE DEF c
<1>7. c \in Nat /\ i <= c /\ c <= l + 1
  <2>. HIDE DEF l
  <2>. QED
    BY <1>1, <1>6
<1>. QED
  BY <1>6, <1>7 DEF c

-----------------------------------------------------------------------------
(* What is between two tokens *)

\* What separates tokens.
Blank == Newlines \cup {" "}

\* From i to before j there are only blanks, newlines and comments, and a comment
\* goes on to the end of its line.
Skips(i, j) ==
    /\ i \in Nat /\ j \in Nat /\ i <= j
    /\ i < j => j <= Len(src) + 1
    /\ \A m \in i .. j - 1 : Ch(m) \in Blank \/ InCommentFrom(i, m)
    /\ \A m \in i .. j - 1 : IsCommentStart(m) => \E p \in m .. j : Ch(p) \in Newlines \cup {"eof"}

\* Nothing,
LEMMA NoneSkips ==
    ASSUME NEW i \in Nat
    PROVE  Skips(i, i)
<1>1. i .. i - 1 = {} /\ ~(i < i) /\ i <= i
  OBVIOUS
<1>. QED
  BY <1>1 DEF Skips

\* a blank or a newline,
LEMMA BlankSkips ==
    ASSUME Source, NEW i \in Nat, Ch(i) \in Blank
    PROVE  Skips(i, i + 1)
<1>1. i \in 1 .. Len(src) /\ Len(src) \in Nat
  BY ChIs DEF Blank, Newlines
<1>2. i <= i + 1 /\ i + 1 \in Nat /\ \A m \in i .. i + 1 - 1 : m = i
  OBVIOUS
<1>3. i + 1 <= Len(src) + 1
  BY <1>1
<1>4. ~IsCommentStart(i)
  BY DEF IsCommentStart, Blank, Newlines
<1>. QED
  BY <1>2, <1>3, <1>4 DEF Skips

\* two such pieces,
LEMMA SkipsOn ==
    ASSUME Source, NEW i, NEW j, NEW k, Skips(i, j), Skips(j, k)
    PROVE  Skips(i, k)
<1>1. i \in Nat /\ j \in Nat /\ k \in Nat /\ i <= j /\ j <= k
  BY DEF Skips
<1>2. i < k => k <= Len(src) + 1
  <2>1. Len(src) \in Nat
    BY ChIs
  <2>2. (i < j => j <= Len(src) + 1) /\ (j < k => k <= Len(src) + 1)
    BY DEF Skips
  <2>. QED
    BY <1>1, <2>1, <2>2
<1>3. \A m \in i .. k - 1 : m \in i .. j - 1 \/ m \in j .. k - 1
  BY <1>1
<1>4. \A m : InCommentFrom(j, m) => InCommentFrom(i, m)
  <2>1. ASSUME NEW m, NEW c \in j .. m
        PROVE  c \in i .. m
    BY <1>1, <2>1
  <2>. QED
    BY <2>1 DEF InCommentFrom
<1>5. \A m \in i .. k - 1 : Ch(m) \in Blank \/ InCommentFrom(i, m)
  BY <1>3, <1>4 DEF Skips
<1>6. ASSUME NEW m \in i .. k - 1, IsCommentStart(m)
      PROVE  \E p \in m .. k : Ch(p) \in Newlines \cup {"eof"}
  <2>1. CASE m \in i .. j - 1
    <3>1. PICK p \in m .. j : Ch(p) \in Newlines \cup {"eof"}
      BY <1>6, <2>1 DEF Skips
    <3>2. p \in m .. k
      BY <1>1, <3>1
    <3>. QED
      BY <3>1, <3>2
  <2>2. CASE m \in j .. k - 1
    BY <1>6, <2>2 DEF Skips
  <2>. QED
    BY <1>3, <2>1, <2>2
<1>. QED
  BY <1>1, <1>2, <1>5, <1>6 DEF Skips

\* and a comment, if there is one.
LEMMA CommentSkips ==
    ASSUME Source, NEW i \in Nat
    PROVE  LET j == SkipComment(i) IN
           /\ j \in Nat /\ Skips(i, j) /\ ~IsCommentStart(j)
           /\ \A m \in i .. j - 1 : Ch(m) \notin Newlines
           /\ IsCommentStart(i) => Ch(j) \notin {" "}
<1>1. CASE ~IsCommentStart(i)
  <2>1. i .. i - 1 = {}
    OBVIOUS
  <2>. QED
    BY <1>1, <2>1, NoneSkips DEF SkipComment
<1>2. CASE IsCommentStart(i)
  <2>. DEFINE S == Characters \ Newlines
              j == FirstNotIn(S, i)
  <2>1. SkipComment(i) = j
    BY <1>2 DEF SkipComment
  <2>2. i <= Len(src) + 1 /\ Len(src) \in Nat
    BY <1>2, ChIs DEF IsCommentStart
  <2>3. "eof" \notin S
    BY ChIs
  <2>4. /\ j \in Nat /\ i <= j /\ j <= Len(src) + 1
        /\ Ch(j) \notin S /\ \A k \in i .. j - 1 : Ch(k) \in S
    <3>. HIDE DEF S
    <3>. QED
      BY <2>2, <2>3, FirstIs
  <2>5. Ch(j) \in Newlines \cup {"eof"}
    BY <2>4, ChIs
  <2>. HIDE DEF j
  <2>6. ~IsCommentStart(j) /\ Ch(j) # " "
    BY <2>5 DEF IsCommentStart, Newlines
  <2>7. \A m \in i .. j - 1 : Ch(m) \notin Newlines
    BY <2>4
  <2>8. \A m \in i .. j - 1 : InCommentFrom(i, m)
    <3>1. ASSUME NEW m \in i .. j - 1
          PROVE  i \in i .. m /\ \A p \in i .. m : p \in i .. j - 1
      BY <2>4
    <3>. QED
      BY <1>2, <2>7, <3>1 DEF InCommentFrom, IsCommentStart
  <2>9. \A m \in i .. j - 1 : j \in m .. j
    BY <2>4
  <2>10. Skips(i, j)
    BY <2>4, <2>5, <2>8, <2>9 DEF Skips
  <2>. QED
    BY <2>1, <2>4, <2>6, <2>7, <2>10
<1>. QED
  BY <1>1, <1>2

\* The loop in front of a token, as a recursion.
LEMMA SkipBlankRuns ==
    ASSUME Source
    PROVE  \A i \in Nat :
              SkipBlank[i] = LET j == SkipComment(i)
                             IN IF Ch(j) = " " \/ (Ch(j) \in Newlines /\ bracketDepth > 0)
                                THEN SkipBlank[j + 1] ELSE j
<1>. DEFINE more(j) == Ch(j) = " " \/ (Ch(j) \in Newlines /\ bracketDepth > 0)
            B == {i \in Nat : more(SkipComment(i))}
            N == [i \in Nat |-> SkipComment(i) + 1]
            V == [i \in Nat |-> SkipComment(i)]
<1>1. \A i \in Nat : SkipComment(i) \in Nat /\ i <= SkipComment(i)
  BY CommentSkips DEF Skips
<1>2. \A j : more(j) => j \in 1 .. Len(src)
  BY ChIs DEF Newlines
<1>3. Len(src) \in Nat
  BY ChIs
<1>. HIDE DEF more
<1>4. B \in SUBSET (0 .. Len(src)) /\ \A i \in B : N[i] \in Nat /\ i < N[i]
  <2>1. \A i \in Nat : more(SkipComment(i)) => i \in 0 .. Len(src)
    BY <1>1, <1>2, <1>3
  <2>2. \A i \in Nat : SkipComment(i) + 1 \in Nat /\ i < SkipComment(i) + 1
    BY <1>1
  <2>. QED
    BY <2>1, <2>2
<1>. HIDE DEF B, N, V
<1>5. Descends(Nat, B, N, ToEnd(Len(src)), Len(src) + 1)
  BY <1>3, <1>4, UpwardDescends
<1>6. PICK f : f = [i \in Nat |-> IF i \in B THEN f[N[i]] ELSE V[i]]
  BY <1>5, DescentExists
<1>7. f = [i \in Nat |-> LET j == SkipComment(i) IN IF more(j) THEN f[j + 1] ELSE j]
  BY <1>6 DEF B, N, V
<1>8. SkipBlank = [i \in Nat |-> LET j == SkipComment(i)
                                 IN IF more(j) THEN SkipBlank[j + 1] ELSE j]
  BY <1>7 DEF SkipBlank, more
<1>9. \A i \in Nat : SkipBlank[i] = LET j == SkipComment(i)
                                    IN IF more(j) THEN SkipBlank[j + 1] ELSE j
  BY <1>8
<1>. QED
  BY <1>9 DEF more

\* Where a token begins, or a newline: outside of brackets no line ends before it.
LEMMA SkipBlankIs ==
    ASSUME Source, NEW i \in Nat, bracketDepth \in Nat
    PROVE  LET j == SkipBlank[i] IN
           /\ Skips(i, j) /\ ~IsCommentStart(j) /\ Ch(j) # " "
           /\ Ch(j) \in Newlines => bracketDepth = 0
           /\ bracketDepth = 0 => \A m \in i .. j - 1 : Ch(m) \notin Newlines
<1>. DEFINE Good(k) ==
               LET j == SkipBlank[k] IN
               /\ Skips(k, j) /\ ~IsCommentStart(j) /\ Ch(j) # " "
               /\ Ch(j) \in Newlines => bracketDepth = 0
               /\ bracketDepth = 0 => \A m \in k .. j - 1 : Ch(m) \notin Newlines
            more(j) == Ch(j) = " " \/ (Ch(j) \in Newlines /\ bracketDepth > 0)
            B == {k \in Nat : more(SkipComment(k))}
            N == [k \in Nat |-> SkipComment(k) + 1]
            S == {k \in Nat : Good(k)}
<1>1. \A k \in Nat : /\ SkipComment(k) \in Nat /\ k <= SkipComment(k)
                     /\ Skips(k, SkipComment(k)) /\ ~IsCommentStart(SkipComment(k))
                     /\ \A m \in k .. SkipComment(k) - 1 : Ch(m) \notin Newlines
  BY CommentSkips DEF Skips
<1>2. \A k \in Nat : SkipBlank[k] = IF k \in B THEN SkipBlank[N[k]] ELSE SkipComment(k)
  BY SkipBlankRuns
<1>3. ASSUME NEW k \in Nat, k \notin B
      PROVE  Good(k)
  <2>1. SkipBlank[k] = SkipComment(k) /\ ~more(SkipComment(k))
    BY <1>2, <1>3
  <2>2. ~(bracketDepth > 0) => bracketDepth = 0
    OBVIOUS
  <2>. QED
    BY <1>1, <2>1, <2>2
<1>4. ASSUME NEW k \in B, Good(N[k])
      PROVE  Good(k)
  <2>. DEFINE c == SkipComment(k)
              j == SkipBlank[c + 1]
  <2>1. k \in Nat /\ c \in Nat /\ more(c) /\ SkipBlank[k] = j /\ N[k] = c + 1 /\ k <= c
    BY <1>1, <1>2
  <2>2. /\ Skips(c + 1, j) /\ ~IsCommentStart(j) /\ Ch(j) # " "
        /\ Ch(j) \in Newlines => bracketDepth = 0
        /\ bracketDepth = 0 => \A m \in c + 1 .. j - 1 : Ch(m) \notin Newlines
    BY <1>4, <2>1
  <2>3. Skips(k, c) /\ \A m \in k .. c - 1 : Ch(m) \notin Newlines
    BY <1>1, <2>1
  <2>4. Skips(c, c + 1)
    BY <2>1, BlankSkips DEF Blank
  <2>5. Skips(k, c + 1)
    BY <2>3, <2>4, SkipsOn
  <2>6. Skips(k, j)
    BY <2>2, <2>5, SkipsOn
  <2>7. bracketDepth = 0 => \A m \in k .. j - 1 : Ch(m) \notin Newlines
    <3>1. bracketDepth = 0 => Ch(c) = " "
      <4>1. bracketDepth = 0 => ~(bracketDepth > 0)
        BY ZeroIs
      <4>. QED
        BY <2>1, <4>1
    <3>2. " " \notin Newlines
      BY DEF Newlines
    <3>3. j \in Nat /\ c \in Nat /\ k \in Nat
      BY <2>1, <2>2 DEF Skips
    <3>. HIDE DEF c, j
    <3>4. \A m \in k .. j - 1 : m \in k .. c - 1 \/ m = c \/ m \in c + 1 .. j - 1
      BY <3>3, AroundIs
    <3>. QED
      BY <2>2, <2>3, <3>1, <3>2, <3>4
  <2>. QED
    BY <2>1, <2>2, <2>6, <2>7
<1>5. Len(src) \in Nat /\ B \in SUBSET (0 .. Len(src)) /\ \A k \in B : N[k] \in Nat /\ k < N[k]
  <2>1. \A j : more(j) => j \in 1 .. Len(src)
    BY ChIs DEF Newlines
  <2>2. Len(src) \in Nat
    BY ChIs
  <2>. HIDE DEF more, Good
  <2>3. \A k \in Nat : more(SkipComment(k)) => k \in 0 .. Len(src)
    BY <1>1, <2>1, <2>2
  <2>4. \A k \in Nat : SkipComment(k) + 1 \in Nat /\ k < SkipComment(k) + 1
    BY <1>1
  <2>. QED
    BY <2>2, <2>3, <2>4
<1>. HIDE DEF B, N, Good
<1>6. Descends(Nat, B, N, ToEnd(Len(src)), Len(src) + 1)
  BY <1>5, UpwardDescends
<1>7. \A k \in Nat : k \in S
  <2>1. \A k \in Nat : k \notin B => k \in S
    BY <1>3
  <2>2. \A k \in B : N[k] \in S => k \in S
    BY <1>4, <1>5
  <2>. HIDE DEF S
  <2>. QED
    BY <1>6, <2>1, <2>2, DescentInduction
<1>8. Good(i)
  BY <1>7
<1>. QED
  BY <1>8 DEF Good

\* The loop after a newline, as a recursion.
LEMMA NextLineRuns ==
    ASSUME Source
    PROVE  \A k \in Nat :
              NextLine[k] = LET j == SkipComment(k + 1)
                            IN IF Ch(j) \in Newlines \cup {" "} THEN NextLine[j] ELSE j
<1>. DEFINE B == {k \in Nat : Ch(SkipComment(k + 1)) \in Blank}
            N == [k \in Nat |-> SkipComment(k + 1)]
<1>1. \A k \in Nat : SkipComment(k + 1) \in Nat /\ k + 1 <= SkipComment(k + 1)
  <2>1. \A k \in Nat : k + 1 \in Nat
    OBVIOUS
  <2>. QED
    BY <2>1, CommentSkips DEF Skips
<1>2. \A j : Ch(j) \in Blank => j \in 1 .. Len(src)
  BY ChIs DEF Newlines, Blank
<1>3. Len(src) \in Nat
  BY ChIs
<1>4. B \in SUBSET (0 .. Len(src)) /\ \A i \in B : N[i] \in Nat /\ i < N[i]
  <2>1. \A k \in Nat : Ch(SkipComment(k + 1)) \in Blank => k \in 0 .. Len(src)
    BY <1>1, <1>2, <1>3
  <2>2. \A k \in Nat : SkipComment(k + 1) \in Nat /\ k < SkipComment(k + 1)
    BY <1>1
  <2>. QED
    BY <2>1, <2>2
<1>. HIDE DEF B, N
<1>5. Descends(Nat, B, N, ToEnd(Len(src)), Len(src) + 1)
  BY <1>3, <1>4, UpwardDescends
<1>6. PICK f : f = [k \in Nat |-> IF k \in B THEN f[N[k]] ELSE N[k]]
  BY <1>5, DescentExists
<1>7. f = [k \in Nat |-> LET j == SkipComment(k + 1)
                         IN IF Ch(j) \in Newlines \cup {" "} THEN f[j] ELSE j]
  BY <1>6 DEF B, N, Blank
<1>8. NextLine = [k \in Nat |-> LET j == SkipComment(k + 1)
                                IN IF Ch(j) \in Newlines \cup {" "} THEN NextLine[j] ELSE j]
  BY <1>7 DEF NextLine
<1>. QED
  BY <1>8

\* Where the next line begins that is not empty.
LEMMA NextLineIs ==
    ASSUME Source, NEW i \in Nat
    PROVE  LET j == NextLine[i] IN
           Skips(i + 1, j) /\ ~IsCommentStart(j) /\ Ch(j) \notin Blank
<1>. DEFINE Good(k) == LET j == NextLine[k] IN
                       Skips(k + 1, j) /\ ~IsCommentStart(j) /\ Ch(j) \notin Blank
            B == {k \in Nat : Ch(SkipComment(k + 1)) \in Blank}
            N == [k \in Nat |-> SkipComment(k + 1)]
            S == {k \in Nat : Good(k)}
<1>1. \A k \in Nat : /\ N[k] \in Nat /\ k + 1 <= N[k]
                     /\ Skips(k + 1, N[k]) /\ ~IsCommentStart(N[k])
  <2>1. \A k \in Nat : k + 1 \in Nat
    OBVIOUS
  <2>2. \A k \in Nat : N[k] = SkipComment(k + 1)
    OBVIOUS
  <2>. HIDE DEF N
  <2>. QED
    BY <2>1, <2>2, CommentSkips DEF Skips
<1>2. \A k \in Nat : NextLine[k] = IF k \in B THEN NextLine[N[k]] ELSE N[k]
  BY NextLineRuns DEF Blank
<1>3. \A k \in Nat : k \in B <=> Ch(N[k]) \in Blank
  OBVIOUS
<1>. HIDE DEF N
<1>4. ASSUME NEW k \in Nat, k \notin B
      PROVE  Good(k)
  BY <1>1, <1>2, <1>3, <1>4
<1>5. ASSUME NEW k \in B, Good(N[k])
      PROVE  Good(k)
  <2>1. k \in Nat /\ Ch(N[k]) \in Blank /\ N[k] \in Nat /\ NextLine[k] = NextLine[N[k]]
    BY <1>1, <1>2, <1>3
  <2>2. Skips(N[k], N[k] + 1) /\ Skips(k + 1, N[k])
    BY <1>1, <2>1, BlankSkips
  <2>3. Skips(k + 1, N[k] + 1)
    BY <2>2, SkipsOn
  <2>. QED
    BY <1>5, <2>1, <2>3, SkipsOn
<1>6. Len(src) \in Nat /\ B \in SUBSET (0 .. Len(src)) /\ \A k \in B : N[k] \in Nat /\ k < N[k]
  <2>1. \A j : Ch(j) \in Blank => j \in 1 .. Len(src)
    BY ChIs DEF Newlines, Blank
  <2>2. Len(src) \in Nat
    BY ChIs
  <2>. HIDE DEF B, Good
  <2>3. \A k \in Nat : N[k] \in 1 .. Len(src) => k \in 0 .. Len(src)
    BY <1>1, <2>2, BelowIs
  <2>4. \A k \in Nat : k < N[k]
    <3>1. \A k \in Nat : N[k] \in Nat /\ k + 1 <= N[k]
      BY <1>1
    <3>. QED
      BY <3>1
  <2>5. B \in SUBSET Nat
    BY DEF B
  <2>. QED
    BY <1>1, <1>3, <2>1, <2>2, <2>3, <2>4, <2>5
<1>. HIDE DEF B, Good
<1>7. Descends(Nat, B, N, ToEnd(Len(src)), Len(src) + 1)
  BY <1>6, UpwardDescends
<1>8. \A k \in Nat : k \in S
  <2>1. \A k \in Nat : k \notin B => k \in S
    BY <1>4
  <2>2. \A k \in B : N[k] \in S => k \in S
    BY <1>5, <1>6
  <2>. HIDE DEF S
  <2>. QED
    BY <1>7, <2>1, <2>2, DescentInduction
<1>9. Good(i)
  BY <1>8
<1>. QED
  BY <1>9 DEF Good

-----------------------------------------------------------------------------
(* Tokens *)

\* What a token is that begins at i: it ends on the line it began, has a slash
\* inside only if it is a string, and is else where the loop after a newline sees it.
Reads(i, t) ==
    /\ t \in Token /\ t.start = i /\ t.type # "NEWLINE"
    /\ t.type = "EOF" <=> Ch(i) = "eof"
    /\ t.type = "EOF" => t.next = i
    /\ t.type # "EOF" => i < t.next
    /\ t.next <= Len(src) + 2
    /\ \A m \in i .. t.next - 1 : Ch(m) \notin Newlines
    /\ \A m \in i + 1 .. t.next - 1 : Ch(m) = "/" => Ch(i) = "quote"
    /\ t.type = "ELSE" <=> AtElse(i)
    /\ t.type \in {"(", ")"} => t.next = i + 1 /\ i <= Len(src)

\* The end of the source,
LEMMA EndReads ==
    ASSUME Source, pos \in Nat \X Nat, NEW i \in Nat, i <= Len(src) + 2, Ch(i) = "eof"
    PROVE  Reads(i, Span("EOF", i, i))
<1>. DEFINE t == Span("EOF", i, i)
<1>1. t \in Token /\ t.start = i /\ t.type = "EOF" /\ t.next = i
  BY DEF Span, Token, TokenTypes
<1>2. i .. i - 1 = {} /\ i + 1 .. i - 1 = {}
  OBVIOUS
<1>3. ~AtElse(i)
  BY DEF AtElse
<1>. HIDE DEF t
<1>4. Reads(i, t)
  BY <1>1, <1>2, <1>3 DEF Reads
<1>. QED
  BY <1>4 DEF t

\* words,
LEMMA IdentReads ==
    ASSUME Source, pos \in Nat \X Nat, NEW i \in Nat, Ch(i) \in IdentStart
    PROVE  Reads(i, Ident(i))
<1>. DEFINE n == FirstNotIn(IdentPart, i)
            t == Ident(i)
<1>1. i \in 1 .. Len(src) /\ Len(src) \in Nat
  BY ChIs DEF IdentStart
<1>2. i <= Len(src) + 1 /\ "eof" \notin IdentPart
  BY <1>1 DEF IdentPart, IdentStart
<1>3. /\ n \in Nat /\ i <= n /\ n <= Len(src) + 1
      /\ Ch(n) \notin IdentPart /\ \A k \in i .. n - 1 : Ch(k) \in IdentPart
  <2>. HIDE DEF n
  <2>. QED
    BY <1>2, FirstIs DEF n
<1>4. Ch(i) \in IdentPart
  BY DEF IdentPart
<1>. HIDE DEF n
<1>5. i < n
  <2>1. i # n
    BY <1>3, <1>4
  <2>. QED
    BY <1>3, <2>1
<1>6. Ch(i + 1) \notin IdentPart <=> n = i + 1
  <2>1. n # i + 1 => i + 1 \in i .. n - 1
    BY <1>3, <1>5
  <2>. QED
    BY <1>3, <2>1
<1>7. /\ t.type \in {"ELSE", "IDENT"} /\ t.start = i /\ t.next = n /\ t.pos = pos
      /\ t.type = "ELSE" <=> Ch(i) = "else" /\ n = i + 1
      /\ t = Span(t.type, i, n)
  BY DEF Ident, Span, n
<1>. HIDE DEF t
<1>8. t \in Token
  <2>1. Span(t.type, i, n) \in Token
    BY <1>3, <1>7 DEF Span, Token, TokenTypes
  <2>. QED
    BY <1>7, <2>1
<1>9. \A c \in IdentPart : c \notin Newlines /\ c # "/"
  BY DEF IdentPart, IdentStart, Newlines
<1>10. Ch(i) # "eof" /\ n <= Len(src) + 2
  BY <1>1, <1>2, <1>3, <1>4
<1>11. \A m \in i .. n - 1 : Ch(m) \notin Newlines
  BY <1>3, <1>9
<1>12. \A m \in i + 1 .. n - 1 : Ch(m) # "/"
  BY <1>3, <1>9
<1>13. Reads(i, t)
  BY <1>5, <1>6, <1>7, <1>8, <1>10, <1>11, <1>12 DEF Reads, AtElse
<1>. QED
  BY <1>13 DEF t

\* numbers,
LEMMA NumberReads ==
    ASSUME Source, pos \in Nat \X Nat, NEW i \in Nat, Ch(i) = "1"
    PROVE  Reads(i, Number(i))
<1>. DEFINE l == Len(src)
            d == FirstNotIn({"1"}, i)
            e == FirstNotIn({"1"}, d + 1)
            n == IF Ch(d) = "." THEN e ELSE d
            type == IF Ch(d) = "." THEN "FLOAT" ELSE "INTEGER"
            t == Number(i)
<1>1. i \in 1 .. l /\ l \in Nat /\ "eof" \notin {"1"}
  BY ChIs
<1>2. /\ d \in Nat /\ i <= d /\ d <= l + 1
      /\ Ch(d) \notin {"1"} /\ \A k \in i .. d - 1 : Ch(k) \in {"1"}
  <2>1. i <= l + 1
    <3>. HIDE DEF l
    <3>. QED
      BY <1>1
  <2>. HIDE DEF d
  <2>. QED
    BY <1>1, <2>1, FirstIs DEF d
<1>. HIDE DEF d
<1>3. i < d
  <2>1. i # d
    BY <1>2
  <2>. QED
    BY <1>2, <2>1
<1>4. Ch(d) = "." => /\ e \in Nat /\ d + 1 <= e /\ e <= l + 1
                     /\ \A k \in d + 1 .. e - 1 : Ch(k) \in {"1"}
  <2>1. Ch(d) = "." => d \in 1 .. l
    BY ChIs
  <2>2. Ch(d) = "." => d + 1 \in Nat /\ d + 1 <= l + 1
    <3>. HIDE DEF l
    <3>. QED
      BY <1>1, <1>2, <2>1
  <2>. HIDE DEF e
  <2>. QED
    BY <1>1, <2>2, FirstIs DEF e
<1>. HIDE DEF e
<1>5. n \in Nat /\ i < n /\ n <= l + 1 /\ n <= l + 2
  <2>. HIDE DEF l
  <2>1. d \in Nat /\ i < d /\ d <= l + 1
    BY <1>2, <1>3
  <2>2. Ch(d) = "." => e \in Nat /\ d + 1 <= e /\ e <= l + 1
    BY <1>4
  <2>. QED
    BY <1>1, <2>1, <2>2
<1>6. \A k \in i .. n - 1 : Ch(k) \in {"1", "."}
  <2>1. CASE Ch(d) = "."
    <3>1. \A k \in i .. e - 1 : k \in i .. d - 1 \/ k = d \/ k \in d + 1 .. e - 1
      BY <1>2, <1>4, <2>1, AroundIs
    <3>. QED
      BY <1>2, <1>4, <2>1, <3>1
  <2>2. CASE Ch(d) # "."
    BY <1>2, <2>2
  <2>. QED
    BY <2>1, <2>2
<1>7. t = Span(type, i, n) /\ type \in {"FLOAT", "INTEGER"}
  BY DEF Number, d, e
<1>. HIDE DEF t, n, type
<1>8. t \in Token /\ t.start = i /\ t.next = n /\ t.type = type
  BY <1>5, <1>7 DEF Span, Token, TokenTypes
<1>9. \A m \in i .. n - 1 : Ch(m) \notin Newlines /\ Ch(m) # "/"
  BY <1>6 DEF Newlines
<1>10. \A m \in i + 1 .. n - 1 : m \in i .. n - 1
  OBVIOUS
<1>11. t.type \notin {"EOF", "NEWLINE", "ELSE", "(", ")"} /\ ~AtElse(i)
  BY <1>7, <1>8 DEF AtElse
<1>12. Reads(i, t)
  BY <1>5, <1>8, <1>9, <1>10, <1>11 DEF Reads
<1>. QED
  BY <1>12 DEF t

\* and symbols.
LEMMA SymbolReads ==
    ASSUME Source, pos \in Nat \X Nat, NEW i \in Nat, Ch(i) \notin Blank,
           Ch(i) \notin IdentStart \cup {"eof", "quote"}
    PROVE  Reads(i, Symbol(i))
<1>. DEFINE l == Len(src)
            t == Symbol(i)
<1>1. i \in 1 .. l /\ l \in Nat /\ Ch(i) \in Characters
  BY ChIs
<1>2. i + 1 <= l + 2 /\ i + 2 <= l + 2 /\ i <= l /\ i < i + 1 /\ i < i + 2
  <2>. HIDE DEF l
  <2>. QED
    BY <1>1
<1>3. i + 1 \in Nat /\ i + 2 \in Nat
  OBVIOUS
<1>4. \/ \E type \in {"=", "ILLEGAL", ".", "/", "(", ")", "{"} : t = Span(type, i, i + 1)
      \/ \E type \in {"==", "&&"} :
            t = Span(type, i, i + 2) /\ Ch(i + 1) = Ch(i) /\ Ch(i) \in {"=", "&"}
  <2>1. Ch(i) \in TokenTypes => Ch(i) \in {"=", ".", "/", "(", ")", "{"}
    BY <1>1 DEF Characters, IdentPart, IdentStart, Newlines, Blank, TokenTypes
  <2>. QED
    BY <2>1 DEF Symbol
<1>5. ~AtElse(i) /\ Ch(i) # "eof" /\ Ch(i) \notin Newlines
  BY DEF AtElse, IdentStart, Blank
<1>. HIDE DEF t
<1>6. CASE \E type \in {"=", "ILLEGAL", ".", "/", "(", ")", "{"} : t = Span(type, i, i + 1)
  <2>1. PICK type \in {"=", "ILLEGAL", ".", "/", "(", ")", "{"} : t = Span(type, i, i + 1)
    BY <1>6
  <2>2. t \in Token /\ t.start = i /\ t.next = i + 1 /\ t.type = type
    BY <1>3, <2>1 DEF Span, Token, TokenTypes
  <2>3. (\A m \in i .. t.next - 1 : m = i) /\ \A m : m \notin i + 1 .. t.next - 1
    BY <2>2, OnlyIs
  <2>4. t.type \notin {"EOF", "NEWLINE", "ELSE"}
    BY <2>1, <2>2
  <2>5. /\ \A m \in i .. t.next - 1 : Ch(m) \notin Newlines
        /\ \A m \in i + 1 .. t.next - 1 : Ch(m) = "/" => Ch(i) = "quote"
    BY <1>5, <2>2, <2>3
  <2>6. i < t.next /\ t.next <= Len(src) + 2 /\ i <= Len(src)
    BY <1>2, <2>2
  <2>7. Reads(i, t)
    BY <1>5, <2>2, <2>4, <2>5, <2>6 DEF Reads
  <2>. QED
    BY <2>7 DEF t
<1>7. CASE \E type \in {"==", "&&"} :
              t = Span(type, i, i + 2) /\ Ch(i + 1) = Ch(i) /\ Ch(i) \in {"=", "&"}
  <2>1. PICK type \in {"==", "&&"} :
                t = Span(type, i, i + 2) /\ Ch(i + 1) = Ch(i) /\ Ch(i) \in {"=", "&"}
    BY <1>7
  <2>2. t \in Token /\ t.start = i /\ t.next = i + 2 /\ t.type = type
    BY <1>3, <2>1 DEF Span, Token, TokenTypes
  <2>3. /\ \A m \in i .. i + 2 - 1 : m = i \/ m = i + 1
        /\ \A m \in i + 1 .. i + 2 - 1 : m = i + 1
    OBVIOUS
  <2>4. Ch(i + 1) \notin Newlines /\ Ch(i + 1) # "/"
    BY <2>1 DEF Newlines
  <2>5. t.type \notin {"EOF", "NEWLINE", "ELSE", "(", ")"}
    BY <2>1, <2>2
  <2>6. Reads(i, t)
    BY <1>2, <1>5, <2>2, <2>3, <2>4, <2>5 DEF Reads
  <2>. QED
    BY <2>6 DEF t
<1>. QED
  BY <1>4, <1>6, <1>7

\* Whether the scan of a string goes on after its k-th character, s = <<k, ok>>.
ScanOn(s) ==
    /\ Ch(s[1] + 1) \notin Newlines \cup {"eof", "quote"}
    /\ Ch(s[1] + 1) = "backslash" => Ch(s[1] + 2) \notin Newlines \cup {"eof"}

\* Where it goes on,
ScanNext(s) ==
    IF Ch(s[1] + 1) # "backslash" THEN <<s[1] + 1, s[2] /\ Ch(s[1] + 1) # "nul">>
    ELSE <<s[1] + 2, s[2] /\ Ch(s[1] + 2) \in Escapes>>

\* and what it returns where it does not.
ScanEnd(s) ==
    IF Ch(s[1] + 1) \in Newlines THEN <<FALSE, s[1]>>
    ELSE IF Ch(s[1] + 1) = "eof" THEN <<FALSE, s[1] + 1>>
    ELSE IF Ch(s[1] + 1) = "quote" THEN <<s[2], s[1] + 1>>
    ELSE IF Ch(s[1] + 2) \in Newlines THEN <<FALSE, s[1] + 1>>
    ELSE <<FALSE, s[1] + 2>>

\* The three are what Scan is made of.
LEMMA ScanCases ==
    ASSUME NEW f, NEW s
    PROVE  (LET k == s[1]
                c == Ch(k + 1)
                d == Ch(k + 2)
            IN IF c \in Newlines THEN <<FALSE, k>>
               ELSE IF c = "eof" THEN <<FALSE, k + 1>>
               ELSE IF c = "quote" THEN <<s[2], k + 1>>
               ELSE IF c # "backslash" THEN f[<<k + 1, s[2] /\ c # "nul">>]
               ELSE IF d \in Newlines THEN <<FALSE, k + 1>>
               ELSE IF d = "eof" THEN <<FALSE, k + 2>>
               ELSE f[<<k + 2, s[2] /\ d \in Escapes>>])
           = (IF ScanOn(s) THEN f[ScanNext(s)] ELSE ScanEnd(s))
<1>. DEFINE c == Ch(s[1] + 1)
            d == Ch(s[1] + 2)
            one == <<s[1] + 1, s[2] /\ c # "nul">>
            two == <<s[1] + 2, s[2] /\ d \in Escapes>>
<1>1. ScanNext(s) = IF c # "backslash" THEN one ELSE two
  BY DEF ScanNext
<1>2. ScanOn(s) <=> /\ c \notin Newlines \cup {"eof", "quote"}
                    /\ c = "backslash" => d \notin Newlines \cup {"eof"}
  BY DEF ScanOn
<1>3. ScanEnd(s) = IF c \in Newlines THEN <<FALSE, s[1]>>
                   ELSE IF c = "eof" THEN <<FALSE, s[1] + 1>>
                   ELSE IF c = "quote" THEN <<s[2], s[1] + 1>>
                   ELSE IF d \in Newlines THEN <<FALSE, s[1] + 1>>
                   ELSE <<FALSE, s[1] + 2>>
  BY DEF ScanEnd
<1>4. (IF c \in Newlines THEN <<FALSE, s[1]>>
       ELSE IF c = "eof" THEN <<FALSE, s[1] + 1>>
       ELSE IF c = "quote" THEN <<s[2], s[1] + 1>>
       ELSE IF c # "backslash" THEN f[one]
       ELSE IF d \in Newlines THEN <<FALSE, s[1] + 1>>
       ELSE IF d = "eof" THEN <<FALSE, s[1] + 2>>
       ELSE f[two])
      = (IF ScanOn(s) THEN f[ScanNext(s)] ELSE ScanEnd(s))
  <2>1. "quote" \notin Newlines \cup {"eof"} /\ "eof" \notin Newlines
        /\ "backslash" \notin Newlines \cup {"eof", "quote"}
    BY DEF Newlines
  <2>. HIDE DEF c, d, one, two
  <2>. QED
    BY <1>1, <1>2, <1>3, <2>1
<1>. QED
  BY <1>4

\* Where a string goes on.
LEMMA ScanNextIs ==
    ASSUME Source, NEW s \in Nat \X BOOLEAN, ScanOn(s)
    PROVE  /\ s[1] \in Nat /\ s[1] + 1 \in 1 .. Len(src)
           /\ ScanNext(s) \in Nat \X BOOLEAN
           /\ Ch(s[1] + 1) \notin Newlines
           /\ \/ ScanNext(s)[1] = s[1] + 1
              \/ /\ ScanNext(s)[1] = s[1] + 2
                 /\ Ch(s[1] + 2) \notin Newlines /\ s[1] + 2 \in 1 .. Len(src)
<1>. DEFINE D == Nat \X BOOLEAN
<1>1. s[1] \in Nat /\ s[1] + 1 \in Nat /\ s[1] + 2 \in Nat
  OBVIOUS
<1>2. s[1] + 1 \in 1 .. Len(src) /\ Ch(s[1] + 1) \notin Newlines
  BY ChIs DEF ScanOn
<1>3. \A b : \A k \in Nat : (b \in BOOLEAN) => <<k, b>> \in D /\ <<k, b>>[1] = k
  OBVIOUS
<1>4. (s[2] /\ Ch(s[1] + 1) # "nul") \in BOOLEAN /\ (s[2] /\ Ch(s[1] + 2) \in Escapes) \in BOOLEAN
  OBVIOUS
<1>5. Ch(s[1] + 1) = "backslash" => Ch(s[1] + 2) \notin Newlines /\ s[1] + 2 \in 1 .. Len(src)
  BY ChIs DEF ScanOn
<1>. QED
  BY <1>1, <1>2, <1>3, <1>4, <1>5 DEF ScanNext

\* Each time it is nearer to the end of the source.
LEMMA ScanDescends ==
    ASSUME Source
    PROVE  Descends(Nat \X BOOLEAN, {s \in Nat \X BOOLEAN : ScanOn(s)},
                    [s \in Nat \X BOOLEAN |-> ScanNext(s)],
                    [s \in Nat \X BOOLEAN |-> ToEnd(Len(src))[s[1]]], Len(src) + 1)
<1>. DEFINE D == Nat \X BOOLEAN
            B == {s \in D : ScanOn(s)}
            N == [s \in D |-> ScanNext(s)]
            l == Len(src)
            M == [s \in D |-> ToEnd(l)[s[1]]]
<1>1. l \in Nat
  BY ChIs
<1>2. \A s \in B : /\ s[1] \in Nat /\ s[1] + 1 \in 1 .. l
                   /\ ScanNext(s) \in D
                   /\ ScanNext(s)[1] \in {s[1] + 1, s[1] + 2}
  BY ScanNextIs
<1>3. Descends(D, B, N, M, l + 1)
  <2>1. B \subseteq D /\ l + 1 \in Nat /\ \A s \in B : N[s] \in D
    BY <1>1, <1>2
  <2>2. \A s \in D : M[s] \in 0 .. l + 1
    BY <1>1 DEF ToEnd
  <2>3. \A s \in B : M[N[s]] < M[s]
    <3>. SUFFICES ASSUME NEW s \in B
                  PROVE  M[N[s]] < M[s]
      OBVIOUS
    <3>. DEFINE k == s[1]
                m == ScanNext(s)[1]
    <3>1. k \in Nat /\ m \in Nat /\ k < m /\ k <= l
      <4>1. k \in Nat /\ k + 1 \in 1 .. l /\ m \in {k + 1, k + 2}
        BY <1>2
      <4>. HIDE DEF k, m, l, B
      <4>. QED
        BY <1>1, <4>1
    <3>2. M[s] = ToEnd(l)[k] /\ M[N[s]] = ToEnd(l)[m]
      BY <1>2
    <3>. HIDE DEF k, m, M, N, l, B
    <3>3. ToEnd(l)[m] < ToEnd(l)[k]
      BY <1>1, <3>1 DEF ToEnd
    <3>. QED
      BY <3>2, <3>3
  <2>. HIDE DEF D, B, N, M, l
  <2>. QED
    BY <2>1, <2>2, <2>3 DEF Descends
<1>. QED
  BY <1>3

\* readString, as a recursion.
LEMMA ScanRuns ==
    ASSUME Source
    PROVE  \A s \in Nat \X BOOLEAN :
              Scan[s] = IF ScanOn(s) THEN Scan[ScanNext(s)] ELSE ScanEnd(s)
<1>. DEFINE D == Nat \X BOOLEAN
            B == {s \in D : ScanOn(s)}
            N == [s \in D |-> ScanNext(s)]
            V == [s \in D |-> ScanEnd(s)]
            l == Len(src)
            M == [s \in D |-> ToEnd(l)[s[1]]]
<1>3. Descends(D, B, N, M, l + 1)
  BY ScanDescends
<1>. HIDE DEF B, N, M, V
<1>4. PICK f : f = [s \in D |-> IF s \in B THEN f[N[s]] ELSE V[s]]
  <2>. DEFINE n == l + 1
  <2>1. Descends(D, B, N, M, n)
    BY <1>3
  <2>. HIDE DEF D, n
  <2>. QED
    BY <2>1, DescentExists
<1>5. f = [s \in D |-> IF ScanOn(s) THEN f[ScanNext(s)] ELSE ScanEnd(s)]
  BY <1>4 DEF B, N, V
<1>. DEFINE body(g, s) ==
               LET k == s[1]
                   c == Ch(k + 1)
                   d == Ch(k + 2)
               IN IF c \in Newlines THEN <<FALSE, k>>
                  ELSE IF c = "eof" THEN <<FALSE, k + 1>>
                  ELSE IF c = "quote" THEN <<s[2], k + 1>>
                  ELSE IF c # "backslash" THEN g[<<k + 1, s[2] /\ c # "nul">>]
                  ELSE IF d \in Newlines THEN <<FALSE, k + 1>>
                  ELSE IF d = "eof" THEN <<FALSE, k + 2>>
                  ELSE g[<<k + 2, s[2] /\ d \in Escapes>>]
<1>6. \A g, s : body(g, s) = IF ScanOn(s) THEN g[ScanNext(s)] ELSE ScanEnd(s)
  BY ScanCases
<1>. HIDE DEF body
<1>7. f = [s \in D |-> body(f, s)]
  BY <1>5, <1>6
<1>8. \E g : g = [s \in Nat \X BOOLEAN |-> body(g, s)]
  BY <1>7
<1>9. Scan = [s \in Nat \X BOOLEAN |-> body(Scan, s)]
  BY <1>8 DEF Scan, body
<1>. QED
  BY <1>6, <1>9

\* Where a string ends: on the line on which it begins, or after the last one.
LEMMA ScanIs ==
    ASSUME Source, NEW i \in Nat, i <= Len(src), NEW ok \in BOOLEAN
    PROVE  LET e == Scan[<<i, ok>>][2] IN
           /\ e \in Nat /\ i <= e /\ e <= Len(src) + 1
           /\ \A m \in i + 1 .. e : Ch(m) \notin Newlines
<1>. DEFINE l == Len(src)
            Ends(k, e) == /\ e \in Nat /\ k <= e /\ e <= l + 1
                          /\ \A m \in k + 1 .. e : Ch(m) \notin Newlines
            D == Nat \X BOOLEAN
            B == {s \in D : ScanOn(s)}
            N == [s \in D |-> ScanNext(s)]
            M == [s \in D |-> ToEnd(l)[s[1]]]
            S == {s \in D : s[1] <= l => Ends(s[1], Scan[s][2])}
<1>1. l \in Nat
  BY ChIs
<1>2. ASSUME NEW s \in D, ~ScanOn(s), s[1] <= l
      PROVE  Ends(s[1], Scan[s][2])
  <2>. DEFINE k == s[1]
              e == Scan[s][2]
  <2>1. k \in Nat /\ k <= l
    BY <1>2
  <2>2. \/ e = k
        \/ e = k + 1 /\ Ch(k + 1) \notin Newlines
        \/ e = k + 2 /\ Ch(k + 1) \notin Newlines \cup {"eof"} /\ Ch(k + 2) \notin Newlines
    <3>1. Scan[s] = ScanEnd(s)
      BY <1>2, ScanRuns
    <3>2. "eof" \notin Newlines /\ "quote" \notin Newlines
      BY DEF Newlines
    <3>. QED
      BY <3>1, <3>2 DEF ScanEnd
  <2>3. Ch(k + 1) # "eof" => k + 1 <= l
    BY ChIs, <1>1
  <2>. HIDE DEF k, e, l, S, D
  <2>4. k \in Nat /\ e \in Nat /\ k <= e /\ e <= l + 1
    BY <1>1, <2>1, <2>2, <2>3
  <2>5. \A m \in k + 1 .. e : Ch(m) \notin Newlines
    <3>1. \A m \in k + 1 .. k : FALSE
      BY <2>1
    <3>2. \A m \in k + 1 .. k + 1 : m = k + 1
      BY <2>1
    <3>3. \A m \in k + 1 .. k + 2 : m = k + 1 \/ m = k + 2
      BY <2>1
    <3>. QED
      BY <2>2, <3>1, <3>2, <3>3
  <2>6. Ends(k, e)
    BY <2>4, <2>5
  <2>. QED
    BY <2>6 DEF k, e
<1>3. ASSUME NEW s \in D, ScanOn(s), ScanNext(s) \in S, s[1] <= l
      PROVE  Ends(s[1], Scan[s][2])
  <2>. DEFINE k == s[1]
              j == ScanNext(s)[1]
              e == Scan[s][2]
  <2>1. /\ k \in Nat /\ k + 1 \in 1 .. l /\ Ch(k + 1) \notin Newlines
        /\ j = k + 1 \/ (j = k + 2 /\ Ch(k + 2) \notin Newlines /\ k + 2 \in 1 .. l)
    BY <1>3, ScanNextIs
  <2>2. Scan[s] = Scan[ScanNext(s)]
    BY <1>3, ScanRuns
  <2>3. j <= l => Ends(j, e)
    BY <1>3, <2>2
  <2>. HIDE DEF k, j, l, S, D
  <2>4. j \in Nat /\ k < j /\ j <= l
    BY <1>1, <2>1
  <2>5. Ends(j, e)
    BY <2>3, <2>4
  <2>. HIDE DEF e
  <2>6. \A m \in k + 1 .. e : m = k + 1 \/ (m = k + 2 /\ j = k + 2) \/ m \in j + 1 .. e
    <3>1. e \in Nat /\ (j = k + 1 \/ j = k + 2)
      BY <2>1, <2>5
    <3>. HIDE DEF Ends
    <3>. QED
      BY <2>1, <2>4, <3>1
  <2>7. \A m \in k + 1 .. e : Ch(m) \notin Newlines
    <3>1. \A m \in j + 1 .. e : Ch(m) \notin Newlines
      BY <2>5
    <3>2. j = k + 2 => Ch(k + 2) \notin Newlines
      <4>1. k + 1 # k + 2
        BY <2>1
      <4>. QED
        BY <2>1, <4>1
    <3>. QED
      BY <2>1, <2>6, <3>1, <3>2
  <2>8. e \in Nat /\ k <= e /\ e <= l + 1
    <3>1. e \in Nat /\ j <= e /\ e <= l + 1
      BY <2>5
    <3>. HIDE DEF Ends
    <3>. QED
      BY <2>1, <2>4, <3>1
  <2>9. Ends(k, e)
    BY <2>7, <2>8
  <2>. QED
    BY <2>9 DEF k, e
<1>4. Descends(D, B, N, M, l + 1)
  BY ScanDescends
<1>5. \A s \in D : s \notin B => s \in S
  BY <1>2
<1>6. \A s \in B : N[s] \in S => s \in S
  <2>1. \A s \in B : s \in D /\ ScanOn(s) /\ N[s] = ScanNext(s)
    OBVIOUS
  <2>. HIDE DEF N
  <2>. QED
    BY <1>3, <2>1
<1>7. \A s \in D : s \in S
  <2>. DEFINE n == l + 1
  <2>1. Descends(D, B, N, M, n)
    BY <1>4
  <2>. HIDE DEF D, B, N, M, S, n
  <2>. QED
    BY <1>5, <1>6, <2>1, DescentInduction
<1>8. <<i, ok>> \in D /\ <<i, ok>>[1] = i
  OBVIOUS
<1>9. Ends(i, Scan[<<i, ok>>][2])
  BY <1>7, <1>8
<1>. QED
  BY <1>9

\* A string reads a token.
LEMMA StringReads ==
    ASSUME Source, pos \in Nat \X Nat, NEW i \in Nat, Ch(i) = "quote"
    PROVE  Reads(i, ReadString(i))
<1>. DEFINE e == Scan[<<i, TRUE>>][2]
            type == IF Scan[<<i, TRUE>>][1] THEN "STRING" ELSE "ILLEGAL"
            t == ReadString(i)
<1>1. i \in 1 .. Len(src) /\ Len(src) \in Nat
  BY ChIs
<1>2. i <= Len(src)
  BY <1>1
<1>3. /\ e \in Nat /\ i <= e /\ e <= Len(src) + 1
      /\ \A m \in i + 1 .. e : Ch(m) \notin Newlines
  BY <1>2, ScanIs
<1>4. t = Span(type, i, e + 1) /\ type \in {"STRING", "ILLEGAL"}
  BY DEF ReadString
<1>. HIDE DEF e, type, t
<1>5. e + 1 \in Nat /\ i < e + 1 /\ e + 1 <= Len(src) + 2
  <2>. DEFINE l == Len(src)
  <2>1. l \in Nat /\ e \in Nat /\ i <= e /\ e <= l + 1
    BY <1>1, <1>3
  <2>. HIDE DEF l
  <2>. QED
    BY <2>1 DEF l
<1>6. t \in Token /\ t.start = i /\ t.next = e + 1 /\ t.type = type
  BY <1>4, <1>5 DEF Span, Token, TokenTypes
<1>7. \A m \in i .. t.next - 1 : m = i \/ m \in i + 1 .. e
  BY <1>3, <1>6
<1>8. \A m \in i .. t.next - 1 : Ch(m) \notin Newlines
  BY <1>3, <1>7 DEF Newlines
<1>9. t.type \notin {"EOF", "NEWLINE", "ELSE", "(", ")"} /\ ~AtElse(i)
  BY <1>4, <1>6 DEF AtElse
<1>10. i < t.next /\ t.next <= Len(src) + 2
  BY <1>5, <1>6
<1>11. Reads(i, t)
  BY <1>6, <1>8, <1>9, <1>10 DEF Reads
<1>. QED
  BY <1>11 DEF t

\* Whatever begins at i.
LEMMA LexemeReads ==
    ASSUME Source, pos \in Nat \X Nat, NEW i \in Nat, i <= Len(src) + 2, Ch(i) \notin Blank
    PROVE  Reads(i, Lexeme(i))
<1>1. CASE Ch(i) = "eof"
  BY <1>1, EndReads DEF Lexeme
<1>2. CASE Ch(i) \in IdentStart
  <2>1. Ch(i) # "eof"
    BY <1>2 DEF IdentStart
  <2>. QED
    BY <1>2, <2>1, IdentReads DEF Lexeme
<1>3. CASE Ch(i) = "1"
  <2>1. Ch(i) \notin IdentStart \cup {"eof"}
    BY <1>3 DEF IdentStart
  <2>. QED
    BY <1>3, <2>1, NumberReads DEF Lexeme
<1>4. CASE Ch(i) = "quote"
  <2>1. Ch(i) \notin IdentStart \cup {"eof", "1"}
    BY <1>4 DEF IdentStart
  <2>. QED
    BY <1>4, <2>1, StringReads DEF Lexeme
<1>5. CASE Ch(i) \notin IdentStart \cup {"eof", "1", "quote"}
  BY <1>5, SymbolReads DEF Lexeme
<1>. QED
  BY <1>1, <1>2, <1>3, <1>4, <1>5

-----------------------------------------------------------------------------
(* Positions *)

\* The last line end before i, and the line and column of i.
LastEnd(i) == CHOOSE e \in LineEnds(i) \cup {0} : \A f \in LineEnds(i) : f <= e
Place(i)   == <<1 + Cardinality(LineEnds(i)), i - LastEnd(i)>>

\* The line ends before i are places before i, and one is the last.
LEMMA LineEndsAre ==
    ASSUME NEW i \in Nat, i > 0
    PROVE  /\ LineEnds(i) \in SUBSET (1 .. i - 1)
           /\ IsFiniteSet(LineEnds(i)) /\ Cardinality(LineEnds(i)) \in Nat
           /\ LastEnd(i) \in LineEnds(i) \cup {0}
           /\ \A f \in LineEnds(i) : f <= LastEnd(i)
           /\ LastEnd(i) \in 0 .. i - 1
<1>1. LineEnds(i) \in SUBSET (1 .. i - 1)
  BY DEF LineEnds
<1>2. i - 1 \in Nat /\ 1 .. i - 1 \in SUBSET (0 .. i - 1) /\ 0 \in 0 .. i - 1
  OBVIOUS
<1>3. IsFiniteSet(LineEnds(i)) /\ Cardinality(LineEnds(i)) \in Nat
  <2>1. IsFiniteSet(1 .. i - 1)
    BY FS_Interval
  <2>2. IsFiniteSet(LineEnds(i))
    BY <1>1, <2>1, FS_Subset
  <2>. QED
    BY <2>2, FS_CardinalityType
<1>. DEFINE S == LineEnds(i) \cup {0}
<1>4. S \in SUBSET (0 .. i - 1) /\ S # {}
  BY <1>1, <1>2
<1>5. \E e \in S : \A f \in S : f <= e
  <2>. HIDE DEF S
  <2>. QED
    BY <1>2, <1>4, GreatestIs
<1>6. \E e \in LineEnds(i) \cup {0} : \A f \in LineEnds(i) : f <= e
  BY <1>5
<1>7. /\ LastEnd(i) \in LineEnds(i) \cup {0}
      /\ \A f \in LineEnds(i) : f <= LastEnd(i)
  BY <1>6 DEF LastEnd
<1>. QED
  BY <1>1, <1>3, <1>4, <1>7

\* A step to the right.
LEMMA LineEndsNext ==
    ASSUME NEW i \in Nat, i > 0
    PROVE  LineEnds(i + 1) = LineEnds(i) \cup (IF EndsLine(i) THEN {i} ELSE {})
<1>1. \A k : k \in 1 .. i + 1 - 1 <=> k \in 1 .. i - 1 \/ k = i
  OBVIOUS
<1>. QED
  BY <1>1 DEF LineEnds, EndsLine

\* The line and the column are numbers.
LEMMA PlaceType ==
    ASSUME NEW i \in Nat, i > 0
    PROVE  Place(i) \in Nat \X Nat
<1>. DEFINE c == Cardinality(LineEnds(i))
            e == LastEnd(i)
<1>1. c \in Nat /\ e \in 0 .. i - 1
  BY LineEndsAre
<1>. HIDE DEF c, e
<1>2. 1 + c \in Nat /\ i - e \in Nat
  BY <1>1
<1>. QED
  BY <1>2 DEF Place, c, e

\* The source begins at line 1, column 1.
LEMMA PlaceFirst == Place(1) = <<1, 1>>
<1>1. LineEnds(1) = {}
  BY DEF LineEnds
<1>2. LastEnd(1) = 0
  BY <1>1, LineEndsAre
<1>3. Cardinality(LineEnds(1)) = 0
  BY <1>1, FS_EmptySet
<1>. QED
  BY <1>2, <1>3 DEF Place

\* advance
LEMMA PlaceNext ==
    ASSUME NEW i \in Nat, i > 0
    PROVE  Place(i + 1) = IF EndsLine(i) THEN <<Place(i)[1] + 1, 1>>
                          ELSE <<Place(i)[1], Place(i)[2] + 1>>
<1>1. /\ LineEnds(i) \in SUBSET (1 .. i - 1) /\ IsFiniteSet(LineEnds(i))
      /\ Cardinality(LineEnds(i)) \in Nat /\ LastEnd(i) \in 0 .. i - 1
  BY LineEndsAre
<1>2. i + 1 \in Nat /\ i + 1 > 0
  OBVIOUS
<1>3. /\ LastEnd(i + 1) \in LineEnds(i + 1) \cup {0} /\ LastEnd(i + 1) \in 0 .. i
      /\ \A f \in LineEnds(i + 1) : f <= LastEnd(i + 1)
  <2>. DEFINE n == i + 1
  <2>1. n \in Nat /\ n > 0 /\ n - 1 = i
    OBVIOUS
  <2>. HIDE DEF n
  <2>2. /\ LastEnd(n) \in LineEnds(n) \cup {0} /\ LastEnd(n) \in 0 .. i
        /\ \A f \in LineEnds(n) : f <= LastEnd(n)
    BY <2>1, LineEndsAre
  <2>. QED
    BY <2>2 DEF n
<1>4. CASE EndsLine(i)
  <2>1. LineEnds(i + 1) = LineEnds(i) \cup {i}
    BY <1>4, LineEndsNext
  <2>2. i \notin LineEnds(i)
    BY <1>1
  <2>3. Cardinality(LineEnds(i + 1)) = Cardinality(LineEnds(i)) + 1
    BY <1>1, <2>1, <2>2, FS_AddElement
  <2>4. LastEnd(i + 1) = i
    <3>1. i <= LastEnd(i + 1)
      BY <1>3, <2>1
    <3>. QED
      BY <1>3, <3>1
  <2>. DEFINE c == Cardinality(LineEnds(i))
  <2>5. 1 + (c + 1) = (1 + c) + 1 /\ (i + 1) - i = 1
    BY <1>1
  <2>6. Place(i)[1] = 1 + c
    BY DEF Place
  <2>. HIDE DEF c
  <2>7. Place(i + 1) = <<1 + (c + 1), (i + 1) - i>>
    BY <2>3, <2>4 DEF Place, c
  <2>. QED
    BY <1>4, <2>5, <2>6, <2>7
<1>5. CASE ~EndsLine(i)
  <2>1. LineEnds(i + 1) = LineEnds(i)
    BY <1>5, LineEndsNext
  <2>2. LastEnd(i + 1) = LastEnd(i)
    BY <2>1 DEF LastEnd
  <2>3. (i + 1) - LastEnd(i) = (i - LastEnd(i)) + 1
    BY <1>1
  <2>. QED
    BY <1>5, <2>1, <2>2, <2>3 DEF Place
<1>. QED
  BY <1>4, <1>5

\* From where the lexer stands on, the position it would have is the place.
LEMMA PositionIs ==
    ASSUME at \in Nat, at > 0, pos = Place(at)
    PROVE  \A i \in Nat : at <= i => Position[i] = Place(i)
<1>. DEFINE F(f, i) == IF i <= at THEN pos
                       ELSE LET before == f[i - 1]
                            IN IF EndsLine(i - 1) THEN <<before[1] + 1, 1>>
                               ELSE <<before[1], before[2] + 1>>
            h == [i \in Nat |-> IF i <= at THEN pos ELSE Place(i)]
<1>1. ASSUME NEW i \in Nat, ~(i <= at)
      PROVE  i - 1 \in Nat /\ i - 1 > 0 /\ (i - 1) + 1 = i /\ at <= i - 1
             /\ (i - 1 <= at => i - 1 = at)
  BY <1>1
<1>2. ASSUME NEW i \in Nat, ~(i <= at)
      PROVE  Place(i) = IF EndsLine(i - 1) THEN <<Place(i - 1)[1] + 1, 1>>
                        ELSE <<Place(i - 1)[1], Place(i - 1)[2] + 1>>
  <2>. DEFINE k == i - 1
  <2>1. k \in Nat /\ k > 0 /\ k + 1 = i
    BY <1>1, <1>2
  <2>. HIDE DEF k
  <2>2. Place(k + 1) = IF EndsLine(k) THEN <<Place(k)[1] + 1, 1>>
                       ELSE <<Place(k)[1], Place(k)[2] + 1>>
    BY <2>1, PlaceNext
  <2>. QED
    BY <2>1, <2>2 DEF k
<1>3. ASSUME NEW i \in Nat
      PROVE  h[i] = F(h, i)
  <2>1. CASE i <= at
    BY <2>1
  <2>2. CASE ~(i <= at)
    <3>1. h[i - 1] = Place(i - 1)
      BY <1>1, <2>2
    <3>. QED
      BY <1>2, <2>2, <3>1
  <2>. QED
    BY <2>1, <2>2
<1>4. h = [i \in Nat |-> F(h, i)]
  BY <1>3
<1>. HIDE DEF h
<1>5. Position = [i \in Nat |-> F(Position, i)]
  BY <1>4 DEF Position
<1>6. \A i \in Nat : Position[i] = F(Position, i)
  <2>. DEFINE p == Position
  <2>1. p = [i \in Nat |-> F(p, i)]
    BY <1>5
  <2>. HIDE DEF p
  <2>2. \A i \in Nat : p[i] = F(p, i)
    BY <2>1
  <2>. QED
    BY <2>2 DEF p
<1>. DEFINE T == {i \in Nat : at <= i /\ Position[i] # Place(i)}
<1>7. SUFFICES ASSUME T # {}
               PROVE  FALSE
  OBVIOUS
<1>8. PICK i \in T : \A k \in T : i <= k
  BY <1>7, LeastIs
<1>9. CASE i <= at
  <2>1. i = at
    BY <1>8, <1>9
  <2>2. Position[at] = pos
    BY <1>6, <1>9, <2>1
  <2>. QED
    BY <1>8, <2>1, <2>2
<1>10. CASE ~(i <= at)
  <2>1. i \in Nat /\ i - 1 \in Nat /\ at <= i - 1 /\ ~(i <= i - 1)
    BY <1>1, <1>8, <1>10
  <2>2. i - 1 \notin T
    BY <1>8, <2>1
  <2>3. Position[i - 1] = Place(i - 1)
    BY <2>1, <2>2
  <2>4. Position[i] = Place(i)
    BY <1>2, <1>6, <1>10, <2>1, <2>3
  <2>. QED
    BY <1>8, <2>4
<1>. QED
  BY <1>9, <1>10

-----------------------------------------------------------------------------
(* Brackets *)

\* What a token adds to the d brackets that are open.
Gain(d, type) == IF type = "(" THEN 1 ELSE IF type = ")" /\ d > 0 THEN -1 ELSE 0

\* The brackets open after the first k tokens of ts, as Open has it.
OpenIn(ts, k) ==
    LET open[j \in 0 .. k] == IF j = 0 THEN 0 ELSE open[j - 1] + Gain(open[j - 1], ts[j].type)
    IN open[k]

\* Whether g[k] is that, for every k up to n.
Counts(g, ts, n) == g[0] = 0 /\ \A j \in 1 .. n : g[j] = g[j - 1] + Gain(g[j - 1], ts[j].type)

\* The definition of Open has no other solution.
LEMMA OpenIs ==
    ASSUME NEW ts, NEW g, NEW n \in Nat, Counts(g, ts, n), NEW k \in 0 .. n
    PROVE  OpenIn(ts, k) = g[k]
<1>. DEFINE F(f, j) == IF j = 0 THEN 0 ELSE f[j - 1] + Gain(f[j - 1], ts[j].type)
            h == [j \in 0 .. k |-> g[j]]
            open == CHOOSE f : f = [j \in 0 .. k |-> F(f, j)]
<1>1. ASSUME NEW j \in 0 .. k, j # 0
      PROVE  j \in 1 .. n /\ j - 1 \in 0 .. k
  BY <1>1
<1>2. h = [j \in 0 .. k |-> F(h, j)]
  <2>1. ASSUME NEW j \in 0 .. k
        PROVE  h[j] = F(h, j)
    <3>1. CASE j = 0
      BY <3>1 DEF Counts
    <3>2. CASE j # 0
      <4>1. h[j - 1] = g[j - 1] /\ h[j] = g[j]
        BY <1>1, <3>2
      <4>. QED
        BY <1>1, <3>2, <4>1 DEF Counts
    <3>. QED
      BY <3>1, <3>2
  <2>. QED
    BY <2>1
<1>. HIDE DEF h
<1>3. open = [j \in 0 .. k |-> F(open, j)]
  BY <1>2
<1>4. OpenIn(ts, k) = open[k]
  BY DEF OpenIn
<1>. HIDE DEF open
<1>5. \A j \in 0 .. k : open[j] = F(open, j)
  BY <1>3
<1>. DEFINE T == {j \in 0 .. k : open[j] # g[j]}
<1>6. T = {}
  <2>. SUFFICES ASSUME T # {}
                PROVE  FALSE
    OBVIOUS
  <2>1. T \in SUBSET Nat
    OBVIOUS
  <2>2. PICK j \in T : \A i \in T : j <= i
    BY <2>1, LeastIs
  <2>3. CASE j = 0
    BY <1>5, <2>2, <2>3 DEF Counts
  <2>4. CASE j # 0
    <3>1. j \in 0 .. k /\ j \in 1 .. n /\ j - 1 \in 0 .. k /\ ~(j <= j - 1)
      BY <1>1, <2>2, <2>4
    <3>2. open[j - 1] = g[j - 1]
      BY <2>2, <3>1
    <3>3. open[j] = g[j]
      BY <1>5, <2>4, <3>1, <3>2 DEF Counts
    <3>. QED
      BY <2>2, <3>3
  <2>. QED
    BY <2>3, <2>4
<1>7. k \in 0 .. k
  OBVIOUS
<1>. QED
  BY <1>4, <1>6, <1>7

\* Open, and the same one step later.
LEMMA OpenInIs ==
    \A k : Open(k) = OpenIn(tokens, k) /\ Open(k)' = OpenIn(tokens', k)
BY DEF Open, OpenIn, Gain, Type

\* A token more, of type ty.
LEMMA CountsOn ==
    ASSUME NEW ts, NEW us, NEW g, NEW n \in Nat, Counts(g, ts, n), NEW ty,
           \A k \in 1 .. n : us[k] = ts[k], us[n + 1].type = ty
    PROVE  \E h : /\ Counts(h, us, n + 1)
                  /\ \A k \in 0 .. n : h[k] = g[k]
                  /\ h[n + 1] = g[n] + Gain(g[n], ty)
<1>. DEFINE h == [k \in 0 .. n + 1 |-> IF k = n + 1 THEN g[n] + Gain(g[n], ty) ELSE g[k]]
<1>1. \A k \in 0 .. n : k \in 0 .. n + 1 /\ k # n + 1
  OBVIOUS
<1>2. \A k \in 0 .. n : h[k] = g[k]
  BY <1>1
<1>3. h[n + 1] = g[n] + Gain(g[n], ty)
  <2>1. n + 1 \in 0 .. n + 1
    OBVIOUS
  <2>. QED
    BY <2>1
<1>. HIDE DEF h
<1>4. ASSUME NEW j \in 1 .. n + 1
      PROVE  h[j] = h[j - 1] + Gain(h[j - 1], us[j].type)
  <2>1. j \in 1 .. n \/ j = n + 1
    OBVIOUS
  <2>2. CASE j \in 1 .. n
    <3>1. j \in 0 .. n /\ j - 1 \in 0 .. n
      BY <2>2
    <3>. QED
      BY <1>2, <2>2, <3>1 DEF Counts
  <2>3. CASE j = n + 1
    <3>1. j - 1 = n /\ n \in 0 .. n
      BY <2>3
    <3>. QED
      BY <1>2, <1>3, <2>3, <3>1
  <2>. QED
    BY <2>1, <2>2, <2>3
<1>5. h[0] = 0
  <2>1. 0 \in 0 .. n
    OBVIOUS
  <2>. QED
    BY <1>2, <2>1 DEF Counts
<1>. QED
  BY <1>2, <1>3, <1>4, <1>5 DEF Counts

-----------------------------------------------------------------------------
(* The inductive invariant *)

\* A comment that begins before i on the line i is on began inside a string.
Clean(i) ==
    Ch(i) # "eof" =>
       \A k \in 1 .. i - 1 : IsCommentStart(k) /\ (\A m \in k .. i : Ch(m) \notin Newlines) =>
          \E q \in 1 .. i - 1 : Ch(q) = "quote" /\ \A m \in q .. i : Ch(m) \notin Newlines

\* Where a line begins: outside of brackets, on a character of a token, not else.
LineBegins(i) == Ch(i) \notin Blank /\ ~IsCommentStart(i) /\ ~AtElse(i)

\* The lexer stands behind the last token: on the same line, or where the next
\* statement begins.
LastToken ==
    tokens # << >> =>
       LET t == tokens[Len(tokens)]
       IN /\ t.next = at
          /\ t.type = "NEWLINE" => bracketDepth = 0 /\ LineBegins(at)
          /\ t.type # "NEWLINE" => \A m \in t.start .. at - 1 : Ch(m) \notin Newlines

\* Where the lexer stands: fewer brackets are open than it has read characters.
Standing == bracketDepth < at /\ pos = Place(at) /\ Clean(at)

\* bracketDepth counts the brackets of the tokens.
Counted == \E g : Counts(g, tokens, Len(tokens)) /\ g[Len(tokens)] = bracketDepth

\* The invariant is these and the properties.
IInv ==
    /\ TypeOK
    /\ Standing
    /\ LastToken
    /\ Counted
    /\ LinesAreSeparated
    /\ NothingLost
    /\ PositionsExact

\* What NextToken adds to the tokens: something to read, or the end of a line.
Lexed(t) ==
    /\ Skips(at, t.start) /\ ~IsCommentStart(t.start)
    /\ Reads(t.start, t) /\ Ch(t.start) \notin Blank
    /\ bracketDepth = 0 /\ t.type # "ELSE" => \A m \in at .. t.start - 1 : Ch(m) \notin Newlines

\* A newline, and what the next line begins with is not else.
LineEnded(t) ==
    /\ t \in Token /\ t.type = "NEWLINE"
    /\ Skips(at, t.start) /\ Skips(t.start, t.next) /\ t.start < t.next
    /\ Ch(t.start) \in Newlines /\ bracketDepth = 0 /\ LineBegins(t.next)

\* What NextToken does.
Adds(t) ==
    /\ Lexed(t) \/ LineEnded(t)
    /\ tokens' = Append(tokens, t)
    /\ at' = t.next
    /\ pos' = Place(t.next)
    /\ t.pos = Place(t.start)
    /\ bracketDepth' = DepthAfter(t.type)
    /\ src' = src

\* The type invariant bounds where the lexer stands.
LEMMA StandsAt ==
    ASSUME TypeOK
    PROVE  /\ Source /\ Len(src) \in Nat /\ at \in Nat /\ at > 0 /\ at <= Len(src) + 2
           /\ bracketDepth \in Nat /\ bracketDepth <= Len(src) /\ pos \in Nat \X Nat
           /\ tokens \in Seq(Token) /\ Len(tokens) \in Nat /\ DOMAIN tokens = 1 .. Len(tokens)
<1>1. src \in Seq(Characters) /\ tokens \in Seq(Token)
  BY DEF TypeOK
<1>2. Len(src) \in Nat /\ Len(tokens) \in Nat /\ DOMAIN tokens = 1 .. Len(tokens)
  BY <1>1, LenProperties
<1>. DEFINE l == Len(src)
<1>3. at \in 1 .. l + 2 /\ bracketDepth \in 0 .. l /\ pos \in Nat \X Nat
  BY DEF TypeOK
<1>4. at \in Nat /\ at > 0 /\ at <= l + 2 /\ bracketDepth \in Nat /\ bracketDepth <= l
  <2>. HIDE DEF l
  <2>. QED
    BY <1>2, <1>3 DEF l
<1>. QED
  BY <1>1, <1>2, <1>3, <1>4 DEF Source

\* A piece that ends where the end of the source is, or before.
LEMMA SkipsEnd ==
    ASSUME Source, NEW i, NEW j, Skips(i, j), i <= Len(src) + 2
    PROVE  j \in Nat /\ j <= Len(src) + 2 /\ i <= j /\ i \in Nat
<1>1. Len(src) \in Nat
  BY ChIs
<1>. QED
  BY <1>1 DEF Skips

\* NextToken, whichever way it goes, adds such a token.
LEMMA NextTokenAdds ==
    ASSUME TypeOK, pos = Place(at), NextToken
    PROVE  \E t : Adds(t)
<1>. DEFINE i == SkipBlank[at]
            j == NextLine[i]
<1>1. /\ Source /\ Len(src) \in Nat /\ at \in Nat /\ at > 0 /\ at <= Len(src) + 2
      /\ bracketDepth \in Nat /\ pos \in Nat \X Nat
  BY StandsAt
<1>2. /\ Skips(at, i) /\ ~IsCommentStart(i) /\ Ch(i) # " "
      /\ Ch(i) \in Newlines => bracketDepth = 0
      /\ bracketDepth = 0 => \A m \in at .. i - 1 : Ch(m) \notin Newlines
  BY <1>1, SkipBlankIs
<1>3. \A k \in Nat : at <= k => Position[k] = Place(k)
  BY <1>1, PositionIs
<1>. HIDE DEF i
<1>4. i \in Nat /\ i <= Len(src) + 2 /\ at <= i
  BY <1>1, <1>2, SkipsEnd
<1>5. Ch(i) \in Newlines => /\ Skips(i, j) /\ Skips(at, j) /\ i < j /\ j \in Nat /\ j <= Len(src) + 2
                            /\ ~IsCommentStart(j) /\ Ch(j) \notin Blank
  <2>. SUFFICES ASSUME Ch(i) \in Newlines
                PROVE  /\ Skips(i, j) /\ Skips(at, j) /\ i < j /\ j \in Nat /\ j <= Len(src) + 2
                       /\ ~IsCommentStart(j) /\ Ch(j) \notin Blank
    OBVIOUS
  <2>1. Skips(i + 1, j) /\ ~IsCommentStart(j) /\ Ch(j) \notin Blank
    BY <1>1, <1>4, NextLineIs
  <2>. HIDE DEF j
  <2>2. Skips(i, i + 1)
    BY <1>1, <1>4, BlankSkips DEF Blank
  <2>3. Skips(i, j)
    BY <1>1, <2>1, <2>2, SkipsOn
  <2>4. Skips(at, j)
    BY <1>1, <1>2, <2>3, SkipsOn
  <2>5. i < j
    BY <1>4, <2>1 DEF Skips
  <2>. QED
    BY <1>1, <2>1, <2>3, <2>4, <2>5, SkipsEnd
<1>. HIDE DEF j
<1>6. ASSUME NEW s, NEW k \in Nat, s = Lexeme(k), Return(s), at <= k, Reads(k, s), Skips(at, k),
             ~IsCommentStart(k), Ch(k) \notin Blank,
             bracketDepth = 0 /\ s.type # "ELSE" => \A m \in at .. k - 1 : Ch(m) \notin Newlines
      PROVE  \E t : Adds(t)
  <2>. DEFINE t == [s EXCEPT !.pos = Place(k)]
  <2>1. s \in Token /\ s.start = k /\ k <= s.next /\ s.next \in Nat /\ at <= s.next
    <3>1. s \in Token /\ s.start = k /\ (s.next = k \/ k < s.next)
      BY <1>6 DEF Reads
    <3>2. s.next \in Nat
      BY <3>1 DEF Token
    <3>. QED
      BY <1>1, <1>6, <3>1, <3>2
  <2>2. Advance(s.start) = Place(k) /\ Advance(s.next) = Place(s.next)
    BY <1>3, <1>6, <2>1 DEF Advance
  <2>3. Place(k) \in Nat \X Nat
    BY <1>1, <1>6, PlaceType
  <2>4. /\ t \in Token /\ t.start = k /\ t.next = s.next /\ t.type = s.type /\ t.pos = Place(k)
    BY <2>1, <2>3 DEF Token
  <2>5. /\ tokens' = Append(tokens, t) /\ at' = t.next /\ pos' = Place(t.next)
        /\ bracketDepth' = DepthAfter(t.type) /\ src' = src
    BY <1>6, <2>2, <2>4 DEF Return
  <2>. HIDE DEF t
  <2>6. Reads(k, t)
    BY <1>6, <2>4 DEF Reads
  <2>7. Lexed(t)
    BY <1>6, <2>4, <2>6 DEF Lexed
  <2>. QED
    BY <2>4, <2>5, <2>7 DEF Adds
<1>7. CASE Ch(i) \notin Newlines /\ Return(Lexeme(i))
  <2>1. Ch(i) \notin Blank
    BY <1>2, <1>7 DEF Blank
  <2>2. Reads(i, Lexeme(i))
    BY <1>1, <1>4, <2>1, LexemeReads
  <2>. QED
    BY <1>2, <1>4, <1>6, <1>7, <2>1, <2>2
<1>8. CASE Ch(i) \in Newlines /\ AtElse(j) /\ Return(Lexeme(j))
  <2>1. Reads(j, Lexeme(j))
    BY <1>1, <1>5, <1>8, LexemeReads
  <2>2. Lexeme(j).type = "ELSE"
    BY <1>8, <2>1 DEF Reads
  <2>3. at <= j
    BY <1>1, <1>4, <1>5, <1>8
  <2>. QED
    BY <1>5, <1>6, <1>8, <2>1, <2>2, <2>3
<1>9. CASE Ch(i) \in Newlines /\ ~AtElse(j) /\ Return(Span("NEWLINE", i, j))
  <2>. DEFINE s == Span("NEWLINE", i, j)
              t == [s EXCEPT !.pos = Place(i)]
  <2>1. at <= j
    BY <1>1, <1>4, <1>5, <1>9
  <2>2. s = [type |-> "NEWLINE", start |-> i, next |-> j, pos |-> pos]
    BY DEF Span
  <2>3. s \in Token /\ s.start = i /\ s.next = j
    <3>1. i \in Nat /\ j \in Nat /\ pos \in Nat \X Nat
      BY <1>1, <1>4, <1>5, <1>9
    <3>2. [type |-> "NEWLINE", start |-> i, next |-> j, pos |-> pos] \in Token
      BY <3>1 DEF Token, TokenTypes
    <3>. QED
      BY <2>2, <3>2
  <2>4. Advance(s.start) = Place(i) /\ Advance(s.next) = Place(j)
    BY <1>3, <1>4, <1>5, <1>9, <2>1, <2>3 DEF Advance
  <2>5. Place(i) \in Nat \X Nat
    <3>1. i > 0
      BY <1>1, <1>4
    <3>. QED
      BY <1>4, <3>1, PlaceType
  <2>6. /\ t \in Token /\ t.start = i /\ t.next = j /\ t.type = "NEWLINE" /\ t.pos = Place(i)
    BY <2>2, <2>3, <2>5 DEF Token
  <2>7. Return(s)
    BY <1>9
  <2>8. s.type = "NEWLINE"
    BY <2>2
  <2>. HIDE DEF s
  <2>9. /\ tokens' = Append(tokens, t) /\ at' = t.next /\ pos' = Place(t.next)
        /\ bracketDepth' = DepthAfter(t.type) /\ src' = src
    BY <2>3, <2>4, <2>6, <2>7, <2>8 DEF Return
  <2>. HIDE DEF t
  <2>10. LineEnded(t)
    BY <1>2, <1>5, <1>9, <2>6 DEF LineEnded, LineBegins
  <2>. QED
    BY <2>6, <2>9, <2>10 DEF Adds
<1>10. \/ Ch(i) \notin Newlines /\ Return(Lexeme(i))
       \/ Ch(i) \in Newlines /\ AtElse(j) /\ Return(Lexeme(j))
       \/ Ch(i) \in Newlines /\ ~AtElse(j) /\ Return(Span("NEWLINE", i, j))
  BY DEF NextToken, Collapse, i, j
<1>. QED
  BY <1>7, <1>8, <1>9, <1>10

\* The source stays, and what is said about it.
LEMMA SameSource ==
    ASSUME src' = src
    PROVE  /\ \A i : Ch(i)' = Ch(i)
           /\ \A i : IsCommentStart(i)' <=> IsCommentStart(i)
           /\ \A i : LineBegins(i)' <=> LineBegins(i)
           /\ \A i : Clean(i)' <=> Clean(i)
           /\ \A i : LineEnds(i)' = LineEnds(i)
           /\ \A c, i : InCommentFrom(c, i)' <=> InCommentFrom(c, i)
           /\ \A i : NoString(i)' <=> NoString(i)
<1>1. \A i : Ch(i)' = Ch(i)
  BY DEF Ch
<1>2. \A i : IsCommentStart(i)' <=> IsCommentStart(i)
  BY <1>1 DEF IsCommentStart
<1>3. \A i : LineBegins(i)' <=> LineBegins(i)
  BY <1>1, <1>2 DEF LineBegins, AtElse
<1>4. \A i : Clean(i)' <=> Clean(i)
  BY <1>1, <1>2 DEF Clean
<1>5. \A i : LineEnds(i)' = LineEnds(i)
  BY <1>1 DEF LineEnds
<1>6. \A c, i : InCommentFrom(c, i)' <=> InCommentFrom(c, i)
  BY <1>1 DEF InCommentFrom
<1>7. \A i : NoString(i)' <=> NoString(i)
  BY <1>1 DEF NoString
<1>. QED
  BY <1>1, <1>2, <1>3, <1>4, <1>5, <1>6, <1>7

\* The last of some line ends.
LastOf(S) == CHOOSE e \in S \cup {0} : \A f \in S : f <= e

\* The tokens with one more, and where the new one is.
LEMMA Added ==
    ASSUME TypeOK, NEW t, Adds(t)
    PROVE  /\ t \in Token /\ t.start \in Nat /\ t.next \in Nat /\ t.start > 0 /\ t.next > 0
           /\ at <= t.start /\ t.start <= t.next /\ t.next <= Len(src) + 2
           /\ t.type # "EOF" => t.start < t.next
           /\ tokens' \in Seq(Token) /\ Len(tokens') = Len(tokens) + 1 /\ tokens' # << >>
           /\ DOMAIN tokens' = 1 .. Len(tokens) + 1
           /\ \A k \in 1 .. Len(tokens) : tokens'[k] = tokens[k]
           /\ tokens'[Len(tokens) + 1] = t
<1>1. /\ Source /\ Len(src) \in Nat /\ at \in Nat /\ at > 0 /\ at <= Len(src) + 2
      /\ tokens \in Seq(Token) /\ Len(tokens) \in Nat
  BY StandsAt
<1>2. t \in Token /\ Skips(at, t.start)
  BY DEF Adds, Lexed, LineEnded, Reads
<1>3. t.start \in Nat /\ t.next \in Nat
  BY <1>2 DEF Token
<1>4. at <= t.start /\ t.start <= Len(src) + 2
  BY <1>1, <1>2, SkipsEnd
<1>5. t.next <= Len(src) + 2 /\ (t.next = t.start \/ t.start < t.next)
      /\ (t.type # "EOF" => t.start < t.next)
  <2>1. CASE Lexed(t)
    BY <2>1 DEF Lexed, Reads
  <2>2. CASE LineEnded(t)
    <3>1. Skips(t.start, t.next) /\ t.start < t.next
      BY <2>2 DEF LineEnded
    <3>. QED
      BY <1>1, <1>4, <3>1, SkipsEnd
  <2>. QED
    BY <2>1, <2>2 DEF Adds
<1>6. t.start > 0 /\ t.start <= t.next /\ t.next > 0
  <2>1. t.start > 0
    BY <1>1, <1>3, <1>4
  <2>2. t.start <= t.next
    BY <1>3, <1>5
  <2>. QED
    BY <1>3, <2>1, <2>2
<1>7. tokens' = Append(tokens, t)
  BY DEF Adds
<1>8. /\ tokens' \in Seq(Token) /\ Len(tokens') = Len(tokens) + 1
      /\ \A k \in 1 .. Len(tokens) : tokens'[k] = tokens[k]
      /\ tokens'[Len(tokens) + 1] = t
  BY <1>1, <1>2, <1>7, AppendProperties
<1>9. DOMAIN tokens' = 1 .. Len(tokens) + 1 /\ tokens' # << >>
  <2>1. Len(tokens') # 0
    BY <1>1, <1>8
  <2>. QED
    BY <1>8, <2>1, LenProperties, EmptySeq
<1>. QED
  BY <1>2, <1>3, <1>4, <1>5, <1>6, <1>8, <1>9

\* The next type.
LEMMA TypeStep ==
    ASSUME TypeOK, Standing, NEW t, Adds(t)
    PROVE  TypeOK' /\ bracketDepth' < at'
<1>1. /\ Len(src) \in Nat /\ at \in Nat /\ at > 0 /\ at <= Len(src) + 2
      /\ bracketDepth \in Nat /\ bracketDepth <= Len(src) /\ src \in Seq(Characters)
  BY StandsAt DEF TypeOK
<1>2. /\ t.start \in Nat /\ t.next \in Nat /\ t.next > 0 /\ at <= t.start /\ t.start <= t.next
      /\ t.next <= Len(src) + 2 /\ tokens' \in Seq(Token)
  BY Added
<1>3. /\ src' = src /\ at' = t.next /\ pos' = Place(t.next) /\ bracketDepth' = DepthAfter(t.type)
  BY DEF Adds
<1>4. pos' \in Nat \X Nat
  BY <1>2, <1>3, PlaceType
<1>5. t.type = "(" => t.next = t.start + 1 /\ t.start <= Len(src)
  BY DEF Adds, Lexed, LineEnded, Reads
<1>6. bracketDepth < at
  BY DEF Standing
<1>. DEFINE l == Len(src)
            d == DepthAfter(t.type)
<1>7. d \in Nat /\ d <= l /\ d < t.next
  <2>1. l \in Nat /\ bracketDepth <= l
    BY <1>1
  <2>2. CASE t.type = "("
    <3>1. d = bracketDepth + 1
      BY <2>2 DEF DepthAfter
    <3>2. t.next = t.start + 1 /\ t.start <= l
      BY <1>5, <2>2
    <3>. HIDE DEF d, l
    <3>. QED
      BY <1>1, <1>2, <1>6, <2>1, <3>1, <3>2
  <2>3. CASE t.type # "("
    <3>1. d = bracketDepth \/ (d = bracketDepth - 1 /\ bracketDepth > 0)
      BY <2>3 DEF DepthAfter
    <3>. HIDE DEF d, l
    <3>2. d \in Nat /\ d <= bracketDepth
      BY <1>1, <3>1
    <3>3. bracketDepth < t.next
      BY <1>1, <1>2, <1>6
    <3>. QED
      BY <1>1, <1>2, <2>1, <3>2, <3>3
  <2>. QED
    BY <2>2, <2>3
<1>8. t.next \in 1 .. l + 2 /\ d \in 0 .. l
  <2>. HIDE DEF d
  <2>1. l \in Nat /\ t.next <= l + 2
    BY <1>1, <1>2
  <2>. HIDE DEF l
  <2>. QED
    BY <1>2, <1>7, <2>1
<1>. QED
  BY <1>1, <1>2, <1>3, <1>4, <1>7, <1>8 DEF TypeOK

\* The next place, if a line begins there, and if it is clean.
LEMMA NextPlace ==
    ASSUME src' = src, NEW n, at' = n
    PROVE  (LineBegins(at)' <=> LineBegins(n)) /\ (Clean(at)' <=> Clean(n))
           /\ Place(at)' = Place(n)
<1>1. /\ \A i : Ch(i)' = Ch(i)
      /\ \A i : IsCommentStart(i)' <=> IsCommentStart(i)
  BY SameSource
<1>2. LineBegins(at)' <=> LineBegins(n)
  BY DEF LineBegins, AtElse, IsCommentStart, Ch
<1>3. Clean(at)' <=> Clean(n)
  BY DEF Clean, IsCommentStart, Ch
<1>4. LineEnds(at)' = LineEnds(n)
  BY DEF LineEnds, Ch
<1>5. LastEnd(at)' = LastOf(LineEnds(at)') /\ LastEnd(n) = LastOf(LineEnds(n))
  BY DEF LastEnd, LastOf
<1>6. Place(at)' = Place(n)
  BY <1>4, <1>5 DEF Place
<1>. QED
  BY <1>2, <1>3, <1>6

\* A place up to the end of the source is in it, unless it is the end.
LEMMA InSource ==
    ASSUME Source, NEW p \in Nat, NEW n \in Nat, Ch(n) # "eof", p > 0, p <= n
    PROVE  Ch(p) # "eof"
<1>1. n \in 1 .. Len(src) /\ Len(src) \in Nat /\ "eof" \notin Characters
      /\ \A i \in 1 .. Len(src) : Ch(i) \in Characters
  BY ChIs
<1>2. p \in 1 .. Len(src)
  BY <1>1
<1>. QED
  BY <1>1, <1>2

\* Between two tokens there are whole comments: none of them goes on to n.
LEMMA SkippedEnds ==
    ASSUME Source, NEW i, NEW j, Skips(i, j), i > 0, NEW n \in Nat, j <= n, Ch(n) # "eof",
           NEW k \in i .. j - 1, IsCommentStart(k)
    PROVE  \E m \in k .. n : Ch(m) \in Newlines
<1>1. PICK p \in k .. j : Ch(p) \in Newlines \cup {"eof"}
  BY DEF Skips
<1>2. i \in Nat /\ j \in Nat
  BY DEF Skips
<1>3. p \in Nat /\ p > 0 /\ p <= n /\ p \in k .. n
  BY <1>1, <1>2
<1>. QED
  BY <1>1, <1>3, InSource

\* What was no comment before stays none.
LEMMA CleanOn ==
    ASSUME TypeOK, Clean(at), NEW n \in Nat, at <= n, Ch(n) # "eof",
           NEW k \in 1 .. at - 1, IsCommentStart(k), \A m \in k .. n : Ch(m) \notin Newlines
    PROVE  \E q \in 1 .. at - 1 : Ch(q) = "quote" /\ \A m \in q .. n : Ch(m) \notin Newlines
<1>1. Source /\ at \in Nat /\ at > 0
  BY StandsAt
<1>2. Ch(at) # "eof"
  BY <1>1, InSource
<1>3. \A m \in k .. at : m \in k .. n
  BY <1>1
<1>4. PICK q \in 1 .. at - 1 : Ch(q) = "quote" /\ \A m \in q .. at : Ch(m) \notin Newlines
  BY <1>2, <1>3 DEF Clean
<1>5. \A m \in q .. n : m \in q .. at \/ m \in k .. n
  BY <1>1, <1>4
<1>. QED
  BY <1>4, <1>5

\* The next place is clean.
LEMMA CleanStep ==
    ASSUME TypeOK, Standing, NEW t, Adds(t)
    PROVE  Clean(t.next)
<1>. DEFINE n == t.next
            s == t.start
<1>1. Source /\ at \in Nat /\ at > 0 /\ Clean(at)
  BY StandsAt DEF Standing
<1>2. n \in Nat /\ s \in Nat /\ at <= s /\ s <= n /\ s > 0 /\ at <= n
  <2>1. n \in Nat /\ s \in Nat /\ at <= s /\ s <= n /\ s > 0
    BY Added
  <2>. QED
    BY <1>1, <2>1
<1>. SUFFICES ASSUME Ch(n) # "eof", NEW k \in 1 .. n - 1, IsCommentStart(k),
                     \A m \in k .. n : Ch(m) \notin Newlines
              PROVE  \E q \in 1 .. n - 1 : Ch(q) = "quote" /\ \A m \in q .. n : Ch(m) \notin Newlines
  BY DEF Clean
<1>. HIDE DEF n, s
<1>3. k \in 1 .. at - 1 \/ k \in at .. s - 1 \/ k \in s .. n - 1
  BY <1>1, <1>2
<1>4. CASE k \in 1 .. at - 1
  <2>1. PICK q \in 1 .. at - 1 : Ch(q) = "quote" /\ \A m \in q .. n : Ch(m) \notin Newlines
    BY <1>1, <1>2, <1>4, CleanOn
  <2>2. q \in 1 .. n - 1
    BY <1>1, <1>2, <2>1
  <2>. QED
    BY <2>1, <2>2
<1>5. CASE k \in at .. s - 1
  <2>1. Skips(at, s)
    BY DEF Adds, Lexed, LineEnded, s
  <2>. QED
    BY <1>1, <1>2, <1>5, <2>1, SkippedEnds
<1>6. CASE k \in s .. n - 1 /\ LineEnded(t)
  <2>1. Skips(s, n)
    BY <1>6 DEF LineEnded, s, n
  <2>. QED
    BY <1>1, <1>2, <1>6, <2>1, SkippedEnds
<1>7. CASE k \in s .. n - 1 /\ Lexed(t)
  <2>1. /\ ~IsCommentStart(s)
        /\ \A m \in s .. n - 1 : Ch(m) \notin Newlines
        /\ \A m \in s + 1 .. n - 1 : Ch(m) = "/" => Ch(s) = "quote"
    BY <1>7 DEF Lexed, Reads, s, n
  <2>2. k # s
    BY <2>1
  <2>3. k \in s + 1 .. n - 1 /\ Ch(k) = "/"
    <3>1. k \in s + 1 .. n - 1
      BY <1>2, <1>7, <2>2
    <3>. QED
      BY <3>1 DEF IsCommentStart
  <2>4. Ch(s) = "quote"
    BY <2>1, <2>3
  <2>5. \A m \in s .. n : m \in s .. n - 1 \/ m \in k .. n
    BY <1>2, <2>3
  <2>6. s \in 1 .. n - 1
    BY <1>2, <2>3
  <2>. QED
    BY <2>1, <2>4, <2>5, <2>6
<1>. QED
  BY <1>3, <1>4, <1>5, <1>6, <1>7 DEF Adds

\* The new token is where the lexer stands behind.
LEMMA LastStep ==
    ASSUME TypeOK, NEW t, Adds(t)
    PROVE  LastToken'
<1>1. /\ Len(tokens') = Len(tokens) + 1 /\ tokens'[Len(tokens) + 1] = t
  BY Added
<1>2. tokens'[Len(tokens')] = t /\ at' = t.next /\ src' = src
  BY <1>1 DEF Adds
<1>3. t.type = "NEWLINE" => LineEnded(t)
  BY DEF Adds, Lexed, Reads
<1>4. t.type = "NEWLINE" => bracketDepth' = 0 /\ LineBegins(at)'
  <2>1. t.type = "NEWLINE" => bracketDepth' = bracketDepth
    BY DEF Adds, DepthAfter
  <2>2. LineBegins(at)' <=> LineBegins(t.next)
    BY <1>2, NextPlace
  <2>. QED
    BY <1>3, <2>1, <2>2 DEF LineEnded
<1>5. t.type # "NEWLINE" => Lexed(t)
  BY DEF Adds, LineEnded
<1>6. t.type # "NEWLINE" => \A m \in t.start .. at' - 1 : Ch(m) \notin Newlines
  BY <1>2, <1>5 DEF Lexed, Reads
<1>7. t.type # "NEWLINE" => \A m \in t.start .. at' - 1 : Ch(m)' \notin Newlines
  BY <1>2, <1>6, SameSource
<1>. QED
  BY <1>2, <1>4, <1>7 DEF LastToken

\* bracketDepth counts the new token.
LEMMA CountedStep ==
    ASSUME TypeOK, NEW g, Counts(g, tokens, Len(tokens)), g[Len(tokens)] = bracketDepth,
           NEW t, Adds(t)
    PROVE  \E h : /\ Counts(h, tokens', Len(tokens'))
                  /\ h[Len(tokens')] = bracketDepth'
                  /\ \A k \in 0 .. Len(tokens) : h[k] = g[k]
<1>1. /\ Len(tokens') = Len(tokens) + 1 /\ tokens'[Len(tokens) + 1] = t
      /\ \A k \in 1 .. Len(tokens) : tokens'[k] = tokens[k]
  BY Added
<1>2. Len(tokens) \in Nat /\ bracketDepth \in Nat
  BY StandsAt
<1>3. PICK h : /\ Counts(h, tokens', Len(tokens) + 1)
               /\ \A k \in 0 .. Len(tokens) : h[k] = g[k]
               /\ h[Len(tokens) + 1] = g[Len(tokens)] + Gain(g[Len(tokens)], t.type)
  BY <1>1, <1>2, CountsOn
<1>4. bracketDepth' = bracketDepth + Gain(bracketDepth, t.type)
  BY <1>2 DEF Adds, DepthAfter, Gain
<1>. QED
  BY <1>1, <1>3, <1>4

\* Where a statement begins there is nothing to skip, no newline and no else.
LEMMA AfterNewline ==
    ASSUME TypeOK, LineBegins(at), NEW t, Adds(t)
    PROVE  t.type \notin {"NEWLINE", "ELSE"}
<1>1. at \in Nat /\ t.start \in Nat /\ at <= t.start
  BY StandsAt, Added
<1>2. Skips(at, t.start)
  BY DEF Adds, Lexed, LineEnded
<1>3. ~InCommentFrom(at, at)
  <2>1. \A k \in at .. at : k = at
    BY <1>1
  <2>. QED
    BY <2>1 DEF InCommentFrom, LineBegins, IsCommentStart
<1>4. t.start = at
  <2>1. at \notin at .. t.start - 1
    BY <1>2, <1>3 DEF Skips, LineBegins
  <2>. QED
    BY <1>1, <2>1
<1>5. ~LineEnded(t)
  BY <1>4 DEF LineEnded, LineBegins, Blank
<1>6. t.type # "NEWLINE" /\ (t.type = "ELSE" <=> AtElse(t.start))
  BY <1>5 DEF Adds, Lexed, Reads
<1>. QED
  BY <1>4, <1>6 DEF LineBegins

\* Outside of brackets the next token is on the line of the last one, unless one
\* of them is a NEWLINE or it is else.
LEMMA SameLine ==
    ASSUME TypeOK, LastToken, bracketDepth = 0, Len(tokens) # 0, NEW t, Adds(t),
           tokens[Len(tokens)].type # "NEWLINE", t.type \notin {"NEWLINE", "ELSE"}
    PROVE  \A i \in tokens[Len(tokens)].start .. t.start : Ch(i) \notin Newlines
<1>. DEFINE u == tokens[Len(tokens)]
<1>1. Len(tokens) \in Nat /\ tokens \in Seq(Token) /\ at \in Nat
  BY StandsAt
<1>2. u \in Token /\ tokens # << >>
  <2>1. Len(tokens) \in 1 .. Len(tokens)
    BY <1>1
  <2>2. u \in Token
    BY <1>1, <2>1, ElementOfSeq
  <2>. QED
    BY <2>2, EmptySeq
<1>3. u.start \in Nat
  BY <1>2 DEF Token
<1>4. \A m \in u.start .. at - 1 : Ch(m) \notin Newlines
  BY <1>2 DEF LastToken
<1>5. Lexed(t)
  BY DEF Adds, LineEnded
<1>6. \A m \in at .. t.start - 1 : Ch(m) \notin Newlines
  BY <1>5 DEF Lexed
<1>7. Ch(t.start) \notin Newlines
  BY <1>5 DEF Lexed, Blank
<1>8. t.start \in Nat /\ at <= t.start
  BY Added
<1>. HIDE DEF u
<1>9. \A i \in u.start .. t.start : i \in u.start .. at - 1 \/ i \in at .. t.start - 1 \/ i = t.start
  BY <1>1, <1>3, <1>8
<1>10. \A i \in u.start .. t.start : Ch(i) \notin Newlines
  BY <1>4, <1>6, <1>7, <1>9
<1>. QED
  BY <1>10 DEF u

\* Lines stay separated.
LEMMA LinesStep ==
    ASSUME TypeOK, LastToken, Counted, LinesAreSeparated, NEW t, Adds(t)
    PROVE  LinesAreSeparated'
<1>. DEFINE n == Len(tokens)
<1>1. /\ Len(tokens') = n + 1 /\ DOMAIN tokens' = 1 .. n + 1 /\ tokens'[n + 1] = t
      /\ \A k \in 1 .. n : tokens'[k] = tokens[k]
  BY Added
<1>2. n \in Nat /\ DOMAIN tokens = 1 .. n /\ bracketDepth \in Nat
  BY StandsAt
<1>3. PICK g : Counts(g, tokens, Len(tokens)) /\ g[Len(tokens)] = bracketDepth
  BY DEF Counted
<1>4. PICK h : /\ Counts(h, tokens', Len(tokens'))
               /\ h[Len(tokens')] = bracketDepth'
               /\ \A k \in 0 .. Len(tokens) : h[k] = g[k]
  BY <1>3, CountedStep
<1>5. \A k \in 0 .. n : Open(k) = g[k]
  BY <1>2, <1>3, OpenInIs, OpenIs
<1>6. \A k \in 0 .. n + 1 : Open(k)' = h[k]
  <2>1. n + 1 \in Nat
    BY <1>2
  <2>2. \A k \in 0 .. n + 1 : OpenIn(tokens', k) = h[k]
    BY <1>1, <1>4, <2>1, OpenIs
  <2>. QED
    BY <2>2, OpenInIs
<1>7. \A k \in 0 .. n : Open(k)' = Open(k)
  <2>1. \A k \in 0 .. n : k \in 0 .. n + 1
    BY <1>2
  <2>. QED
    BY <1>4, <1>5, <1>6, <2>1
<1>8. /\ n \in 0 .. n /\ n + 1 \in 0 .. n + 1
      /\ Open(n) = bracketDepth
      /\ \A k \in 0 .. n + 1 : k = n + 1 => Open(k)' = bracketDepth'
  <2>1. n \in 0 .. n /\ n + 1 \in 0 .. n + 1
    BY <1>2
  <2>2. \A k \in 0 .. n + 1 : k = n + 1 => Open(k)' = bracketDepth'
    BY <1>1, <1>4, <1>6
  <2>. QED
    BY <1>3, <1>5, <2>1, <2>2
<1>9. \A i : Ch(i)' = Ch(i)
  BY SameSource DEF Adds
<1>10. n > 0 /\ tokens[n].type = "NEWLINE" => t.type \notin {"NEWLINE", "ELSE"}
  <2>1. n > 0 => tokens # << >>
    BY EmptySeq
  <2>. QED
    BY <2>1, AfterNewline DEF LastToken
<1>11. t.type = "NEWLINE" => bracketDepth' = 0
  BY DEF Adds, Lexed, Reads, LineEnded, DepthAfter
<1>. HIDE DEF n
<1>12. ASSUME NEW k \in 1 .. n + 1, tokens'[k].type = "NEWLINE"
       PROVE  /\ Open(k)' = 0
              /\ k < n + 1 => tokens'[k + 1].type \notin {"NEWLINE", "ELSE"}
  <2>1. CASE k \in 1 .. n
    <3>1. /\ Open(k) = 0
          /\ k < n => tokens[k + 1].type \notin {"NEWLINE", "ELSE"}
      BY <1>1, <1>2, <1>12, <2>1 DEF LinesAreSeparated, Type, n
    <3>2. Open(k)' = 0
      <4>1. k \in 0 .. n
        BY <2>1
      <4>. QED
        BY <1>7, <3>1, <4>1
    <3>3. CASE k < n
      <4>1. k + 1 \in 1 .. n
        BY <1>2, <2>1, <3>3
      <4>. QED
        BY <1>1, <3>1, <3>2, <3>3, <4>1
    <3>4. CASE k = n
      <4>1. n > 0 /\ tokens[n].type = "NEWLINE"
        BY <1>1, <1>12, <2>1, <3>4
      <4>. QED
        BY <1>1, <1>10, <3>2, <3>4, <4>1
    <3>5. k < n \/ k = n
      BY <1>2, <2>1
    <3>. QED
      BY <3>3, <3>4, <3>5
  <2>2. CASE k = n + 1
    <3>1. ~(k < n + 1) /\ k \in 0 .. n + 1
      BY <1>2, <2>2
    <3>. QED
      BY <1>1, <1>8, <1>11, <1>12, <2>2, <3>1
  <2>3. k \in 1 .. n \/ k = n + 1
    BY <1>2
  <2>. QED
    BY <2>1, <2>2, <2>3
<1>13. ASSUME NEW k \in 1 .. n, Open(k)' = 0,
              \E i \in tokens'[k].start .. tokens'[k + 1].start : Ch(i) \in Newlines
       PROVE  "NEWLINE" \in {tokens'[k].type, tokens'[k + 1].type} \/ tokens'[k + 1].type = "ELSE"
  <2>1. tokens'[k] = tokens[k] /\ Open(k) = 0
    <3>1. k \in 0 .. n
      OBVIOUS
    <3>. QED
      BY <1>1, <1>7, <1>13, <3>1
  <2>2. CASE k \in 1 .. n - 1
    <3>1. k + 1 \in 1 .. n
      BY <1>2, <2>2
    <3>2. tokens'[k + 1] = tokens[k + 1]
      BY <1>1, <3>1
    <3>3. \E i \in tokens[k].start .. tokens[k + 1].start : Ch(i) \in Newlines
      BY <1>13, <2>1, <3>2
    <3>. QED
      BY <2>1, <2>2, <3>2, <3>3 DEF LinesAreSeparated, Type, n
  <2>3. CASE k = n
    <3>1. tokens'[k + 1] = t /\ bracketDepth = 0 /\ n # 0
      BY <1>1, <1>2, <1>8, <2>1, <2>3
    <3>. SUFFICES ASSUME tokens[n].type # "NEWLINE", t.type \notin {"NEWLINE", "ELSE"}
                  PROVE  FALSE
      BY <2>1, <2>3, <3>1
    <3>2. \A i \in tokens[n].start .. t.start : Ch(i) \notin Newlines
      BY <3>1, SameLine DEF n
    <3>. QED
      BY <1>13, <2>1, <2>3, <3>1, <3>2
  <2>4. k \in 1 .. n - 1 \/ k = n
    BY <1>2
  <2>. QED
    BY <2>2, <2>3, <2>4
<1>14. 1 .. Len(tokens') - 1 = 1 .. n
  <2>1. Len(tokens') - 1 = n
    BY <1>1, <1>2
  <2>. QED
    BY <2>1
<1>15. /\ \A k \in DOMAIN tokens' : tokens'[k].type = "NEWLINE" =>
             /\ Open(k)' = 0
             /\ k < Len(tokens') => tokens'[k + 1].type \notin {"NEWLINE", "ELSE"}
  BY <1>1, <1>12
<1>16. \A k \in 1 .. Len(tokens') - 1 :
          (/\ Open(k)' = 0
           /\ \E i \in tokens'[k].start .. tokens'[k + 1].start : Ch(i)' \in Newlines)
          => "NEWLINE" \in {tokens'[k].type, tokens'[k + 1].type} \/ tokens'[k + 1].type = "ELSE"
  BY <1>9, <1>13, <1>14
<1>. QED
  BY <1>15, <1>16 DEF LinesAreSeparated, Type

\* NothingLost after a step that leaves the source.
LEMMA NothingLater ==
    ASSUME src' = src,
           \A k \in DOMAIN tokens' : tokens'[k].type # "EOF" => tokens'[k].start < tokens'[k].next,
           \A k \in 1 .. Len(tokens') - 1 :
              /\ tokens'[k].next <= tokens'[k + 1].start \/ tokens'[k + 1].type = "EOF"
              /\ \A i \in tokens'[k].next .. tokens'[k + 1].start - 1 :
                    Ch(i) \in Newlines \cup {" "} \/ InCommentFrom(tokens'[k].next, i),
           \A k \in DOMAIN tokens' :
              tokens'[k].type # "EOF" /\ NoString(tokens'[k].start)
              => ~InCommentFrom(1, tokens'[k].start)
    PROVE  NothingLost'
<1>1. \A i : Ch(i)' = Ch(i)
  BY SameSource
<1>2. \A a, i : InCommentFrom(a, i) <=>
         \E k \in a .. i : /\ Ch(k)' = "/" /\ Ch(k + 1)' = "/"
                           /\ \A m \in k .. i : Ch(m)' \notin Newlines
  BY <1>1 DEF InCommentFrom
<1>3. \A i : NoString(i) <=>
         \A q \in 1 .. i : Ch(q)' = "quote" => \E k \in q .. i : Ch(k)' \in Newlines
  BY <1>1 DEF NoString
<1>. QED
  BY <1>1, <1>2, <1>3 DEF NothingLost, Type, InCommentFrom, NoString

\* Nothing is lost.
LEMMA NothingStep ==
    ASSUME TypeOK, Standing, LastToken, NothingLost, NEW t, Adds(t)
    PROVE  NothingLost'
<1>. DEFINE n == Len(tokens)
<1>1. /\ Len(tokens') = n + 1 /\ DOMAIN tokens' = 1 .. n + 1 /\ tokens'[n + 1] = t
      /\ \A k \in 1 .. n : tokens'[k] = tokens[k]
      /\ t.type # "EOF" => t.start < t.next
      /\ t.start \in Nat /\ t.start > 0 /\ at <= t.start
  BY Added
<1>2. n \in Nat /\ DOMAIN tokens = 1 .. n /\ Source /\ at \in Nat /\ at > 0 /\ Clean(at)
  BY StandsAt DEF Standing
<1>3. Skips(at, t.start)
  BY DEF Adds, Lexed, LineEnded
<1>4. n > 0 => tokens[n].next = at
  BY EmptySeq DEF LastToken
<1>. HIDE DEF n
<1>5. ASSUME NEW k \in 1 .. n + 1, tokens'[k].type # "EOF"
      PROVE  tokens'[k].start < tokens'[k].next
  <2>1. k \in 1 .. n \/ k = n + 1
    BY <1>2
  <2>. QED
    BY <1>1, <1>2, <1>5, <2>1 DEF NothingLost, Type
<1>6. ASSUME NEW k \in 1 .. n
      PROVE  /\ tokens'[k].next <= tokens'[k + 1].start \/ tokens'[k + 1].type = "EOF"
             /\ \A i \in tokens'[k].next .. tokens'[k + 1].start - 1 :
                   Ch(i) \in Newlines \cup {" "} \/ InCommentFrom(tokens'[k].next, i)
  <2>1. CASE k \in 1 .. n - 1
    <3>1. k + 1 \in 1 .. n
      BY <1>2, <2>1
    <3>. QED
      BY <1>1, <2>1, <3>1 DEF NothingLost, Type, n
  <2>2. CASE k = n
    <3>1. tokens'[k].next = at /\ tokens'[k + 1] = t
      BY <1>1, <1>2, <1>4, <2>2
    <3>. QED
      BY <1>1, <1>3, <3>1 DEF Skips, Blank
  <2>3. k \in 1 .. n - 1 \/ k = n
    BY <1>2
  <2>. QED
    BY <2>1, <2>2, <2>3
<1>7. ASSUME t.type # "EOF", NoString(t.start)
      PROVE  ~InCommentFrom(1, t.start)
  <2>. DEFINE s == t.start
  <2>. SUFFICES ASSUME NEW k \in 1 .. s, IsCommentStart(k), \A m \in k .. s : Ch(m) \notin Newlines
                PROVE  FALSE
    BY DEF InCommentFrom, IsCommentStart
  <2>1. s \in k .. s /\ s \in Nat /\ s > 0 /\ at <= s
    BY <1>1
  <2>2. Lexed(t)
    BY <2>1 DEF Adds, LineEnded
  <2>3. Ch(s) # "eof" /\ ~IsCommentStart(s)
    BY <1>7, <2>2 DEF Lexed, Reads
  <2>. HIDE DEF s
  <2>4. k \in 1 .. at - 1 \/ k \in at .. s - 1 \/ k = s
    BY <1>2, <2>1
  <2>5. CASE k \in 1 .. at - 1
    <3>1. PICK q \in 1 .. at - 1 : Ch(q) = "quote" /\ \A m \in q .. s : Ch(m) \notin Newlines
      BY <1>2, <2>1, <2>3, <2>5, CleanOn
    <3>2. q \in 1 .. s
      BY <1>2, <2>1, <3>1
    <3>. QED
      BY <1>7, <3>1, <3>2 DEF NoString, s
  <2>6. CASE k \in at .. s - 1
    <3>1. s <= s
      BY <2>1
    <3>. QED
      BY <1>2, <1>3, <2>1, <2>3, <2>6, <3>1, SkippedEnds DEF s
  <2>. QED
    BY <2>3, <2>4, <2>5, <2>6
<1>8. ASSUME NEW k \in 1 .. n + 1, tokens'[k].type # "EOF", NoString(tokens'[k].start)
      PROVE  ~InCommentFrom(1, tokens'[k].start)
  <2>1. k \in 1 .. n \/ k = n + 1
    BY <1>2
  <2>. QED
    BY <1>1, <1>2, <1>7, <1>8, <2>1 DEF NothingLost, Type
<1>9. 1 .. Len(tokens') - 1 = 1 .. n
  <2>1. Len(tokens') - 1 = n
    BY <1>1, <1>2
  <2>. QED
    BY <2>1
<1>10. src' = src
  BY DEF Adds
<1>. QED
  BY <1>1, <1>5, <1>6, <1>8, <1>9, <1>10, NothingLater

\* A token's position, by its place.
LEMMA PositionsAre ==
    PositionsExact <=> \A k \in DOMAIN tokens : tokens[k].pos = Place(tokens[k].start)
BY DEF PositionsExact, Place, LastEnd

\* The positions stay exact.
LEMMA PositionsStep ==
    ASSUME TypeOK, PositionsExact, NEW t, Adds(t)
    PROVE  PositionsExact'
<1>. DEFINE n == Len(tokens)
<1>1. /\ DOMAIN tokens' = 1 .. n + 1 /\ tokens'[n + 1] = t
      /\ \A k \in 1 .. n : tokens'[k] = tokens[k]
  BY Added
<1>2. n \in Nat /\ DOMAIN tokens = 1 .. n
  BY StandsAt
<1>3. t.pos = Place(t.start) /\ src' = src
  BY DEF Adds
<1>4. ASSUME NEW k \in 1 .. n + 1
      PROVE  tokens'[k].pos = Place(tokens'[k].start)
  <2>. HIDE DEF n
  <2>1. k \in 1 .. n \/ k = n + 1
    BY <1>2
  <2>. QED
    BY <1>1, <1>2, <1>3, <2>1, PositionsAre
<1>5. \A i : LineEnds(i)' = LineEnds(i)
  BY <1>3, SameSource
<1>6. ASSUME NEW k \in DOMAIN tokens'
      PROVE  (LET ends == LineEnds(tokens[k].start)
                  last == CHOOSE e \in ends \cup {0} : \A f \in ends : f <= e
              IN tokens[k].pos = <<1 + Cardinality(ends), tokens[k].start - last>>)'
  <2>. DEFINE S == LineEnds(tokens'[k].start)
  <2>1. LineEnds(tokens[k].start)' = S
    BY <1>3 DEF LineEnds, Ch
  <2>2. tokens'[k].pos = <<1 + Cardinality(S), tokens'[k].start - LastOf(S)>>
    BY <1>1, <1>4 DEF Place, LastEnd, LastOf
  <2>. HIDE DEF S
  <2>. QED
    BY <2>1, <2>2 DEF LastOf
<1>. QED
  BY <1>6 DEF PositionsExact

\* The lexer begins at the first line and column, with nothing read.
LEMMA InitHolds == Init => IInv
<1>. SUFFICES ASSUME Init
              PROVE  IInv
  OBVIOUS
<1>1. PICK A \in Alphabets, n \in 0 .. MaxLen : src \in [1 .. n -> A]
  BY DEF Init
<1>2. n \in Nat /\ A \subseteq Characters
  BY <1>1, SourceAssumption
<1>3. src \in Seq(Characters)
  <2>1. src \in [1 .. n -> Characters]
    BY <1>1, <1>2
  <2>. QED
    BY <1>2, <2>1, IsASeq
<1>4. at = 1 /\ pos = <<1, 1>> /\ bracketDepth = 0 /\ tokens = << >>
  BY DEF Init
<1>5. Len(src) \in Nat
  BY <1>3, LenProperties
<1>6. Len(tokens) = 0 /\ DOMAIN tokens = {} /\ tokens \in Seq(Token)
  BY <1>4, EmptySeq
<1>7. TypeOK
  BY <1>3, <1>4, <1>5, <1>6 DEF TypeOK
<1>8. Standing
  <2>1. 1 .. 1 - 1 = {} /\ 0 < 1
    OBVIOUS
  <2>2. Clean(1)
    BY <2>1 DEF Clean
  <2>. QED
    BY <1>4, <2>1, <2>2, PlaceFirst DEF Standing
<1>9. LastToken
  BY <1>4 DEF LastToken
<1>10. 1 .. 0 = {} /\ 1 .. 0 - 1 = {}
  OBVIOUS
<1>11. Counted
  <2>1. Counts([k \in {0} |-> 0], tokens, Len(tokens))
    BY <1>6, <1>10 DEF Counts
  <2>2. [k \in {0} |-> 0][0] = 0
    OBVIOUS
  <2>. QED
    BY <1>4, <1>6, <2>1, <2>2 DEF Counted
<1>12. LinesAreSeparated
  BY <1>6, <1>10 DEF LinesAreSeparated
<1>13. NothingLost
  BY <1>6, <1>10 DEF NothingLost
<1>14. PositionsExact
  BY <1>6 DEF PositionsExact
<1>. QED
  BY <1>7, <1>8, <1>9, <1>11, <1>12, <1>13, <1>14 DEF IInv

\* NextToken keeps the invariant,
LEMMA NextTokenKeeps == IInv /\ NextToken => IInv'
<1>. SUFFICES ASSUME IInv, NextToken
              PROVE  IInv'
  OBVIOUS
<1>1. TypeOK /\ Standing /\ LastToken /\ Counted
      /\ LinesAreSeparated /\ NothingLost /\ PositionsExact
  BY DEF IInv
<1>2. PICK t : Adds(t)
  BY <1>1, NextTokenAdds DEF Standing
<1>3. TypeOK' /\ bracketDepth' < at'
  BY <1>1, <1>2, TypeStep
<1>4. Standing'
  <2>1. at' = t.next /\ src' = src /\ pos' = Place(t.next)
    BY <1>2 DEF Adds
  <2>2. Clean(t.next)
    BY <1>1, <1>2, CleanStep
  <2>3. Clean(at)' /\ Place(at)' = Place(t.next)
    BY <2>1, <2>2, NextPlace
  <2>. QED
    BY <1>3, <2>1, <2>3 DEF Standing
<1>5. LastToken'
  BY <1>1, <1>2, LastStep
<1>6. Counted'
  <2>1. PICK g : Counts(g, tokens, Len(tokens)) /\ g[Len(tokens)] = bracketDepth
    BY <1>1 DEF Counted
  <2>2. PICK h : Counts(h, tokens', Len(tokens')) /\ h[Len(tokens')] = bracketDepth'
    BY <1>1, <1>2, <2>1, CountedStep
  <2>. QED
    BY <2>2 DEF Counted, Counts
<1>7. LinesAreSeparated'
  BY <1>1, <1>2, LinesStep
<1>8. NothingLost'
  BY <1>1, <1>2, NothingStep
<1>9. PositionsExact'
  BY <1>1, <1>2, PositionsStep
<1>. QED
  BY <1>3, <1>4, <1>5, <1>6, <1>7, <1>8, <1>9 DEF IInv

\* and at the end nothing happens.
LEMMA StutterKeeps == IInv /\ UNCHANGED vars => IInv'
<1>. SUFFICES ASSUME IInv, UNCHANGED vars
              PROVE  IInv'
  OBVIOUS
<1>1. src' = src /\ at' = at /\ pos' = pos /\ bracketDepth' = bracketDepth /\ tokens' = tokens
  BY DEF vars
<1>2. TypeOK'
  BY <1>1 DEF IInv, TypeOK
<1>3. Standing'
  <2>1. Clean(at)' /\ Place(at)' = Place(at)
    BY <1>1, NextPlace DEF IInv, Standing
  <2>. QED
    BY <1>1, <2>1 DEF IInv, Standing
<1>4. LastToken'
  <2>1. LineBegins(at)' <=> LineBegins(at)
    BY <1>1, NextPlace
  <2>2. \A i : Ch(i)' = Ch(i)
    BY <1>1, SameSource
  <2>. QED
    BY <1>1, <2>1, <2>2 DEF IInv, LastToken
<1>5. Counted'
  BY <1>1 DEF IInv, Counted, Counts
<1>6. LinesAreSeparated'
  <2>1. \A k : Open(k)' = Open(k)
    BY <1>1, OpenInIs
  <2>2. \A i : Ch(i)' = Ch(i)
    BY <1>1, SameSource
  <2>. QED
    BY <1>1, <2>1, <2>2 DEF IInv, LinesAreSeparated, Type
<1>7. NothingLost'
  BY <1>1, NothingLater DEF IInv, NothingLost, Type
<1>8. PositionsExact'
  <2>1. ASSUME NEW k \in DOMAIN tokens
        PROVE  (LET ends == LineEnds(tokens[k].start)
                    last == CHOOSE e \in ends \cup {0} : \A f \in ends : f <= e
                IN tokens[k].pos = <<1 + Cardinality(ends), tokens[k].start - last>>)'
    <3>. DEFINE S == LineEnds(tokens[k].start)
    <3>1. S' = S
      BY <1>1 DEF LineEnds, Ch
    <3>2. tokens[k].pos = <<1 + Cardinality(S), tokens[k].start - LastOf(S)>>
      BY <2>1 DEF IInv, PositionsExact, LastOf
    <3>. HIDE DEF S
    <3>. QED
      BY <1>1, <3>1, <3>2 DEF LastOf, S
  <2>. QED
    BY <1>1, <2>1 DEF PositionsExact
<1>. QED
  BY <1>2, <1>3, <1>4, <1>5, <1>6, <1>7, <1>8 DEF IInv

-----------------------------------------------------------------------------
(* What always holds *)

\* The invariant is inductive.
THEOREM Inductive == Spec => []IInv
<1>1. IInv /\ [Next]_vars => IInv'
  BY NextTokenKeeps, StutterKeeps DEF Next
<1>. QED
  BY <1>1, InitHolds, PTL DEF Spec

\* The lexer stays inside the source, or one past its end after a string that is
\* not closed, and no more brackets are open than there are characters.
THEOREM TypeCorrect == Spec => []TypeOK
<1>1. IInv => TypeOK
  BY DEF IInv
<1>. QED
  BY <1>1, Inductive, PTL

\* For every source: a NEWLINE is alone, never before else and never in brackets,
\* and where there is none the line did not end (SPEC 3.1, parser.go:142).
THEOREM LinesSeparated == Spec => []LinesAreSeparated
<1>1. IInv => LinesAreSeparated
  BY DEF IInv
<1>. QED
  BY <1>1, Inductive, PTL

\* For every source: every token but EOF consumes something, between two tokens are
\* only blanks and comments, and no comment is read as a token (lexer.go:57).
THEOREM NothingIsLost == Spec => []NothingLost
<1>1. IInv => NothingLost
  BY DEF IInv
<1>. QED
  BY <1>1, Inductive, PTL

\* For every source: a token's line and column are where it begins (lexer.go:34).
THEOREM PositionsAreExact == Spec => []PositionsExact
<1>1. IInv => PositionsExact
  BY DEF IInv
<1>. QED
  BY <1>1, Inductive, PTL
=============================================================================
