---------------------------- MODULE Parser_proofs ----------------------------
(***************************************************************************)
(* What the parser guarantees of a source of any length: for every set of  *)
(* tokens and every limit of nesting, errors and open brackets.            *)
(*                                                                         *)
(* A step of a function below Parse is Inner: it reads a token or none, may*)
(* report an error, and moves, calls, becomes another function or returns. *)
(* There is one lemma for each parse function that says so, and it is all  *)
(* the invariants need of the grammar.  Places says where an activation may*)
(* be: under another one it waits, Parse is the first and only the first,  *)
(* an error that one has noticed Parse has noticed, too.  On it rest the   *)
(* four results: Verdict (valid and errCount agree while Parse runs), Kept,*)
(* Recovered, and Depths (an activation is at most two places above twice  *)
(* the number of counted ones under it, give or take what Slack allows).   *)
(***************************************************************************)
EXTENDS Parser, SequenceTheorems, FiniteSetTheorems, TLAPS

-----------------------------------------------------------------------------
(* The stack *)

\* An activation after an error, if there was one.
Dimmed(f, e) == [f EXCEPT !.clean = @ /\ ~e]

\* The lower activations only notice the error.
Below(e) == \A k \in 1 .. Len(stack) - 1 : stack'[k] = Dimmed(stack[k], e)

\* n activations, of which only the innermost have changed.
Pile(n, e) == stack' \in Seq(Activations) /\ Len(stack') = n /\ Below(e)

\* There is an innermost activation.
LEMMA TopIs ==
    ASSUME TypeOK
    PROVE  /\ Len(stack) \in Nat \ {0} /\ DOMAIN stack = 1 .. Len(stack)
           /\ \A k \in 1 .. Len(stack) : stack[k] \in Activations
           /\ Top \in Activations
<1>1. stack \in Seq(Activations) /\ stack # << >>
  BY DEF TypeOK
<1>. QED
  BY <1>1, LenProperties, ElementOfSeq, EmptySeq DEF Top

\* Placed sends the innermost activation to its next place, and no other.
LEMMA PlacedIs ==
    ASSUME TypeOK, NEW e \in BOOLEAN, NEW at \in Points
    PROVE  LET s == Placed(e, at) IN
           /\ s \in Seq(Activations) /\ Len(s) = Len(stack)
           /\ \A k \in 1 .. Len(stack) - 1 : s[k] = Dimmed(stack[k], e)
           /\ s[Len(stack)] = [Dimmed(Top, e) EXCEPT !.at = at]
<1>. DEFINE n == Len(stack)
            s == Noticed(e)
<1>1. n \in Nat \ {0} /\ DOMAIN stack = 1 .. n /\ \A k \in 1 .. n : stack[k] \in Activations
  BY TopIs
<1>2. \A k \in 1 .. n : Dimmed(stack[k], e) \in Activations
  BY <1>1 DEF Activations, Dimmed
<1>3. s = [k \in 1 .. n |-> Dimmed(stack[k], e)]
  BY <1>1 DEF Noticed, Dimmed
<1>4. s \in Seq(Activations) /\ Len(s) = n /\ \A k \in 1 .. n : s[k] = Dimmed(stack[k], e)
  BY <1>1, <1>2, <1>3
<1>. DEFINE f == [s[n] EXCEPT !.at = at]
<1>5. Placed(e, at) = [s EXCEPT ![n] = f]
  BY <1>1, <1>3 DEF Placed
<1>. HIDE DEF s
<1>6. s[n] = Dimmed(stack[n], e) /\ s[n] \in Activations /\ n \in 1 .. n
  BY <1>1, <1>2, <1>4
<1>7. f \in Activations
  BY <1>6 DEF Activations
<1>8. f = [Dimmed(Top, e) EXCEPT !.at = at]
  BY <1>6 DEF Top, Activations, Dimmed
<1>. HIDE DEF f
<1>9. /\ [s EXCEPT ![n] = f] \in Seq(Activations)
      /\ Len([s EXCEPT ![n] = f]) = n
      /\ \A k \in 1 .. n : [s EXCEPT ![n] = f][k] = IF k = n THEN f ELSE s[k]
  BY <1>4, <1>6, <1>7, ExceptSeq
<1>. QED
  BY <1>1, <1>4, <1>5, <1>8, <1>9

\* Without the innermost activation the others are what they were.
LEMMA FrontIs ==
    ASSUME TypeOK, NEW e \in BOOLEAN
    PROVE  LET s == Front(Noticed(e)) IN
           /\ s \in Seq(Activations) /\ Len(s) = Len(stack) - 1
           /\ \A k \in 1 .. Len(stack) - 1 : s[k] = Dimmed(stack[k], e)
<1>. DEFINE n == Len(stack)
            s == Noticed(e)
<1>1. n \in Nat \ {0} /\ DOMAIN stack = 1 .. n /\ \A k \in 1 .. n : stack[k] \in Activations
  BY TopIs
<1>2. \A k \in 1 .. n : Dimmed(stack[k], e) \in Activations
  BY <1>1 DEF Activations, Dimmed
<1>3. s = [k \in 1 .. n |-> Dimmed(stack[k], e)]
  BY <1>1 DEF Noticed, Dimmed
<1>4. s \in Seq(Activations) /\ Len(s) = n /\ \A k \in 1 .. n : s[k] = Dimmed(stack[k], e)
  BY <1>1, <1>2, <1>3
<1>. HIDE DEF s
<1>5. \A k \in 1 .. n - 1 : s[k] \in Activations
  BY <1>1, <1>2, <1>4
<1>6. /\ SubSeq(s, 1, n - 1) \in Seq(Activations)
      /\ Len(SubSeq(s, 1, n - 1)) = IF 1 <= n - 1 THEN n - 1 - 1 + 1 ELSE 0
      /\ \A k \in 1 .. n - 1 - 1 + 1 : SubSeq(s, 1, n - 1)[k] = s[1 + k - 1]
  BY <1>1, <1>5, SubSeqProperties
<1>7. Front(s) = SubSeq(s, 1, n - 1)
  BY <1>4 DEF Front
<1>. QED
  BY <1>1, <1>4, <1>6, <1>7 DEF s

\* What the innermost activation becomes when it goes on.
Onward(f, e, at) ==
    /\ f.fn = Top.fn /\ f.at = at /\ f.clean = (Top.clean /\ ~e)

\* Dimmed and placed, an activation has gone on.
LEMMA OnwardIs ==
    ASSUME TypeOK, NEW e \in BOOLEAN, NEW at
    PROVE  Onward([Dimmed(Top, e) EXCEPT !.at = at], e, at)
<1>1. Top \in Activations
  BY TopIs
<1>. QED
  BY <1>1 DEF Onward, Dimmed, Activations

\* What each of the five ways to go on does to the stack: here, Go;
LEMMA GoIs ==
    ASSUME TypeOK, NEW e \in BOOLEAN, NEW at \in Points, NEW bad \in BOOLEAN, Go(at, e, bad)
    PROVE  /\ Pile(Len(stack), e) /\ Onward(stack'[Len(stack)], e, at)
           /\ AddDiag(e) /\ broken' = (broken \/ bad)
           /\ UNCHANGED <<fnName, program>> /\ result' = ""
<1>1. stack' = Placed(e, at)
  BY DEF Go
<1>. DEFINE s == Placed(e, at)
<1>2. /\ s \in Seq(Activations) /\ Len(s) = Len(stack)
      /\ \A k \in 1 .. Len(stack) - 1 : s[k] = Dimmed(stack[k], e)
      /\ s[Len(stack)] = [Dimmed(Top, e) EXCEPT !.at = at]
  BY PlacedIs
<1>. HIDE DEF s
<1>. QED
  BY <1>1, <1>2, OnwardIs DEF Go, Mark, Pile, Below, s

\* a call, with the new activation on top;
LEMMA CallIs ==
    ASSUME TypeOK, NEW e \in BOOLEAN, NEW at \in Points, NEW bad \in BOOLEAN,
           NEW g \in Activations, Call(at, g, e, bad)
    PROVE  /\ Pile(Len(stack) + 1, e) /\ Onward(stack'[Len(stack)], e, at)
           /\ stack'[Len(stack) + 1] = g
           /\ AddDiag(e) /\ broken' = (broken \/ bad)
           /\ UNCHANGED <<fnName, program>> /\ result' = ""
<1>. DEFINE s == Placed(e, at)
<1>1. stack' = Append(s, g)
  BY DEF Call
<1>2. Top \in Activations /\ Len(stack) \in Nat \ {0}
  BY TopIs
<1>3. /\ s \in Seq(Activations) /\ Len(s) = Len(stack)
      /\ \A k \in 1 .. Len(stack) - 1 : s[k] = Dimmed(stack[k], e)
      /\ s[Len(stack)] = [Dimmed(Top, e) EXCEPT !.at = at]
  BY PlacedIs
<1>. HIDE DEF s
<1>4. /\ Append(s, g) \in Seq(Activations) /\ Len(Append(s, g)) = Len(s) + 1
      /\ \A k \in 1 .. Len(s) : Append(s, g)[k] = s[k]
      /\ Append(s, g)[Len(s) + 1] = g
  BY <1>3, AppendProperties
<1>5. \A k \in 1 .. Len(stack) : stack'[k] = s[k]
  BY <1>1, <1>3, <1>4
<1>6. Pile(Len(stack) + 1, e)
  BY <1>1, <1>2, <1>3, <1>4, <1>5 DEF Pile, Below
<1>7. Onward(stack'[Len(stack)], e, at)
  BY <1>2, <1>3, <1>5, OnwardIs
<1>. QED
  BY <1>1, <1>3, <1>4, <1>6, <1>7 DEF Call, Mark

\* a tail call, with the new activation in place of the old;
LEMMA BecomeIs ==
    ASSUME TypeOK, NEW e \in BOOLEAN, NEW bad \in BOOLEAN,
           NEW g \in Activations, Become(g, e, bad)
    PROVE  /\ Pile(Len(stack), e) /\ stack'[Len(stack)] = g
           /\ AddDiag(e) /\ broken' = (broken \/ bad)
           /\ UNCHANGED <<fnName, program>> /\ result' = ""
<1>. DEFINE s == Front(Noticed(e))
<1>1. stack' = Append(s, g)
  BY DEF Become
<1>2. Len(stack) \in Nat \ {0}
  BY TopIs
<1>3. /\ s \in Seq(Activations) /\ Len(s) = Len(stack) - 1
      /\ \A k \in 1 .. Len(stack) - 1 : s[k] = Dimmed(stack[k], e)
  BY FrontIs
<1>. HIDE DEF s
<1>4. /\ Append(s, g) \in Seq(Activations) /\ Len(Append(s, g)) = Len(s) + 1
      /\ \A k \in 1 .. Len(s) : Append(s, g)[k] = s[k]
      /\ Append(s, g)[Len(s) + 1] = g
  BY <1>3, AppendProperties
<1>5. \A k \in 1 .. Len(stack) - 1 : stack'[k] = s[k]
  BY <1>1, <1>3, <1>4
<1>6. stack'[Len(stack)] = g /\ Pile(Len(stack), e)
  BY <1>1, <1>2, <1>3, <1>4, <1>5 DEF Pile, Below
<1>. QED
  BY <1>6 DEF Become, Mark

\* a return;
LEMMA ReturnIs ==
    ASSUME TypeOK, NEW e \in BOOLEAN, NEW bad \in BOOLEAN, NEW value, Return(value, e, bad)
    PROVE  /\ Pile(Len(stack) - 1, e)
           /\ AddDiag(e) /\ broken' = (broken \/ bad)
           /\ UNCHANGED <<fnName, program>> /\ result' = value
BY FrontIs DEF Return, Mark, Pile, Below

\* and the step of a block that compares errCount anew.
LEMMA BeginIs ==
    ASSUME TypeOK, NEW e \in BOOLEAN, NEW at \in Points, NEW bad \in BOOLEAN,
           NEW g \in Activations, Begin(at, g, e, bad)
    PROVE  /\ Pile(IF e THEN Len(stack) ELSE Len(stack) + 1, e)
           /\ LET f == stack'[Len(stack)] IN
                f.fn = Top.fn /\ f.at = at /\ f.clean = ~e
           /\ ~e => stack'[Len(stack) + 1] = g
           /\ AddDiag(e) /\ broken' = (broken \/ bad)
           /\ UNCHANGED <<fnName, program>> /\ result' = ""
<1>. DEFINE n == Len(stack)
            p == Placed(e, at)
            here == [Top EXCEPT !.at = at, !.clean = ~e, !.mark = TRUE]
            s == [p EXCEPT ![n] = here]
<1>1. stack' = IF e THEN s ELSE Append(s, g)
  BY DEF Begin
<1>2. Top \in Activations /\ n \in Nat \ {0}
  BY TopIs
<1>3. here \in Activations /\ here.fn = Top.fn /\ here.at = at /\ here.clean = ~e
  BY <1>2 DEF Activations
<1>4. /\ p \in Seq(Activations) /\ Len(p) = Len(stack)
      /\ \A k \in 1 .. Len(stack) - 1 : p[k] = Dimmed(stack[k], e)
  <2>. HIDE DEF n
  <2>. QED
    BY PlacedIs
<1>. HIDE DEF p, here
<1>5. /\ s \in Seq(Activations) /\ Len(s) = n
      /\ \A k \in 1 .. n - 1 : s[k] = Dimmed(stack[k], e)
      /\ s[n] = here
  BY <1>2, <1>3, <1>4, ExceptSeq
<1>. HIDE DEF s
<1>6. /\ Append(s, g) \in Seq(Activations) /\ Len(Append(s, g)) = Len(s) + 1
      /\ \A k \in 1 .. Len(s) : Append(s, g)[k] = s[k]
      /\ Append(s, g)[Len(s) + 1] = g
  BY <1>5, AppendProperties
<1>7. \A k \in 1 .. n : stack'[k] = s[k]
  BY <1>1, <1>5, <1>6
<1>8. Pile(IF e THEN n ELSE n + 1, e)
  BY <1>1, <1>2, <1>5, <1>6, <1>7 DEF Pile, Below
<1>9. stack'[n] = here
  BY <1>2, <1>5, <1>7
<1>. QED
  BY <1>1, <1>3, <1>5, <1>6, <1>8, <1>9 DEF Begin, Mark

-----------------------------------------------------------------------------
(* The steps of the functions below Parse *)

Decls   == {"const", "port", "kind", "function"}
Binders == {"const", "let", "kind", "assign"}
Counted == {"expression", "if"}

\* Which function calls which.
Calls == {<<"function", "block">>, <<"block", "let">>, <<"block", "assign">>,
          <<"block", "if">>, <<"assign", "expression">>, <<"expression", "expression">>,
          <<"if", "expression">>, <<"if", "block">>, <<"if", "if">>}

\* What a block relies on at its places.
AtLine(at, c, p, b) ==
    /\ at = "open" => c = "{"
    /\ at = "statement" /\ c \notin {"NEWLINE", "}", "EOF"} => b \in {"NEWLINE", "{"}
    /\ at = "next" => c = "NEWLINE" \/ p \in {"NEWLINE", "}", "EOF"}

\* The innermost activation has gone on.
Stays(f, e) ==
    /\ f.fn = Top.fn /\ f.at # "start"
    /\ \/ f.clean = (Top.clean /\ ~e)
       \/ f.fn = "block" /\ f.clean = ~e
    /\ f.fn \in Counted /\ Top.at = "start" => ~TooDeep
    /\ f.at = "value" => f.fn \in Binders
    /\ f.fn = "if" /\ f.at = "find block" => ~f.clean

\* An activation that has just been called.
Starts(g) ==
    /\ g.clean
    /\ \/ g.fn # "block" /\ g.at = "start"
       \/ g.fn = "block" /\ g.at = "open" /\ cur' = "{"

\* The four shapes of an inner step.
Moved(e) ==
    /\ Pile(Len(stack), e)
    /\ LET f == stack'[Len(stack)] IN
       /\ Stays(f, e)
       /\ f.fn = "block" => AtLine(f.at, cur', peek', before')
Called(e) ==
    /\ Pile(Len(stack) + 1, e)
    /\ LET f == stack'[Len(stack)]
           g == stack'[Len(stack) + 1]
       IN /\ Stays(f, e) /\ Starts(g) /\ <<f.fn, g.fn>> \in Calls
          /\ f.fn = "block" => f.at = "end"
Became(e) ==
    /\ Pile(Len(stack), e)
    /\ LET g == stack'[Len(stack)] IN
       /\ Top.fn \in Binders
       /\ g.fn = "expression" /\ g.at = "start" /\ g.clean
Returned(e) == Pile(Len(stack) - 1, e)

\* At most one token is read.
Reads == NextToken \/ Stay

\* An error is counted, and nothing goes missing without one, or after one.
Notes(e) ==
    /\ AddDiag(e)
    /\ broken' \in BOOLEAN /\ (broken' => broken \/ e \/ ~Top.clean)
    /\ fnName' \in Idents \cup {""}
    /\ fnName' # fnName => e \/ fnName' \in {"", "Init", "Run"}

\* A step of a function below Parse.
Inner ==
    /\ Top.fn # "Parse" /\ ~program.done
    /\ Reads /\ UNCHANGED program /\ result' \in Results
    /\ \E e \in BOOLEAN : Notes(e) /\ (Moved(e) \/ Called(e) \/ Became(e) \/ Returned(e))

\* What the activations rely on, wherever they are.
PlaceOK(k, f) ==
    /\ k = 1 <=> f.fn = "Parse"
    /\ k = 1 => f.at \in {"declaration", "declared", "sync"}
    /\ k = 1 /\ k # Len(stack) => f.at = "declared"
    /\ f.fn = "block" => IF k = Len(stack) THEN AtLine(f.at, cur, peek, before) ELSE f.at = "end"
    /\ f.at = "value" => f.fn \in Binders
    /\ f.fn = "if" /\ f.at = "find block" => ~f.clean
    /\ ~f.clean => ~stack[1].clean

\* Every activation is where it may be, and a source ends once.
Places ==
    /\ \A k \in 1 .. Len(stack) : PlaceOK(k, stack[k])
    /\ cur = "EOF" => peek = "EOF"

\* The activations that the nesting limit counts among the first k.
CountedTo(s, k) == Cardinality({j \in 1 .. k : s[j].fn \in Counted})

\* How far above twice that number an activation may be.
Slack(fn) == IF fn = "Parse" THEN 1
             ELSE IF fn \in {"block", "expression"} THEN 3
             ELSE IF fn \in {"let", "assign"} THEN 4 ELSE 2

\* The limit holds, but for an activation that is about to find out that it does not.
DepthOK(k) ==
    LET n == CountedTo(stack, k) IN
    /\ k <= 2 * n + Slack(stack[k].fn)
    /\ \/ n <= MaxDepth
       \/ /\ n = MaxDepth + 1 /\ k = Len(stack)
          /\ stack[k].fn \in Counted /\ stack[k].at = "start"

\* The strengthening of RecursionBounded.
Depths == \A k \in 1 .. Len(stack) : DepthOK(k)

\* The strengthening of ValidIffClean: the two agree all the time, with what Parse
\* has not yet looked at.
Verdict ==
    /\ program.done => /\ program.valid = (errors = 0)
                       /\ program.valid => program.Run
    /\ ~program.done =>
           (errors = 0) = (program.valid /\ (stack[1].at = "declared" => stack[1].clean))

\* The strengthening of KeptIsWhole.
Kept ==
    stack[1].at = "declared" /\ stack[1].clean => ~broken /\ fnName \in {"", "Init", "Run"}

\* The strengthening of the first part of RecoveryEndsAtLine; Places has the second.
Recovered ==
    stack[1].at = "declaration" /\ cur \notin {"NEWLINE", "EOF"} => before \in {"NEWLINE", ""}

\* New activations are activations,
LEMMA FramesType ==
    /\ \A fn \in ParseFns, at \in Points : Frame(fn, at) \in Activations
    /\ \A p \in 0 .. 8 : Expr(p) \in Activations
    /\ Block \in Activations
<1>1. \A fn \in ParseFns, at \in Points : Frame(fn, at) \in Activations
  BY DEF Activations, Frame
<1>2. \A p \in 0 .. 8 : Expr(p) \in Activations
  <2>. TAKE p \in 0 .. 8
  <2>1. Frame("expression", "start") \in Activations
    BY <1>1 DEF ParseFns, Points
  <2>. QED
    BY <2>1 DEF Expr, Activations
<1>3. Block \in Activations
  <2>1. "block" \in ParseFns /\ "open" \in Points
    BY DEF ParseFns, Points
  <2>. QED
    BY <1>1, <2>1 DEF Block
<1>. QED
  BY <1>1, <1>2, <1>3

\* and they are at the place they say.
LEMMA FramesAre ==
    /\ \A fn, at : Frame(fn, at).fn = fn /\ Frame(fn, at).at = at /\ Frame(fn, at).clean
    /\ \A p : Expr(p).fn = "expression" /\ Expr(p).at = "start" /\ Expr(p).clean
    /\ Block.fn = "block" /\ Block.at = "open" /\ Block.clean
BY DEF Frame, Expr, Block

\* A new expression has just been called.
LEMMA ExprStarts ==
    /\ Starts(Expr(LowestPrec)) /\ Expr(LowestPrec) \in Activations
    /\ Expr(LowestPrec).fn = "expression"
<1>1. Expr(LowestPrec) \in Activations
  BY FramesType DEF LowestPrec
<1>2. LET g == Expr(LowestPrec) IN g.fn = "expression" /\ g.at = "start" /\ g.clean
  BY FramesAre
<1>. QED
  BY <1>1, <1>2 DEF Starts

\* What Places says of the innermost activation.
LEMMA TopPlace ==
    ASSUME TypeOK, Places
    PROVE  /\ Top.at = "value" => Top.fn \in Binders
           /\ Top.fn = "if" /\ Top.at = "find block" => ~Top.clean
           /\ Top.fn = "block" => AtLine(Top.at, cur, peek, before)
           /\ Top.clean \in BOOLEAN
<1>1. Len(stack) \in 1 .. Len(stack) /\ Top \in Activations
  BY TopIs
<1>2. PlaceOK(Len(stack), Top)
  BY <1>1 DEF Places, Top
<1>. QED
  BY <1>1, <1>2 DEF PlaceOK, Activations

\* A step of an inner function, from what Go, Call, Become, Return do.
LEMMA GoesOn ==
    ASSUME TypeOK, Places, NEW e \in BOOLEAN, NEW at \in Points, NEW bad \in BOOLEAN,
           Go(at, e, bad), Reads, ~program.done,
           Top.fn # "Parse", at # "start",
           bad => e \/ ~Top.clean,
           Top.fn \in Counted /\ Top.at = "start" => ~TooDeep,
           at = "value" => Top.fn \in Binders,
           Top.fn = "if" /\ at = "find block" => e \/ ~Top.clean,
           Top.fn = "block" => AtLine(at, cur', peek', before')
    PROVE  Inner
<1>1. /\ Pile(Len(stack), e) /\ Onward(stack'[Len(stack)], e, at)
      /\ AddDiag(e) /\ broken' = (broken \/ bad)
      /\ UNCHANGED <<fnName, program>> /\ result' = ""
  BY GoIs
<1>2. Notes(e)
  BY <1>1 DEF Notes, TypeOK
<1>. DEFINE f == stack'[Len(stack)]
<1>3. f.fn = Top.fn /\ f.at = at /\ f.clean = (Top.clean /\ ~e)
  BY <1>1 DEF Onward
<1>4. f.fn = "if" /\ f.at = "find block" => ~f.clean
  BY <1>3
<1>. HIDE DEF f
<1>5. Stays(f, e)
  BY <1>3, <1>4, Zenon DEF Stays
<1>6. f.fn = "block" => AtLine(f.at, cur', peek', before')
  BY <1>3
<1>7. Moved(e)
  BY <1>1, <1>5, <1>6 DEF Moved, f
<1>. QED
  BY <1>1, <1>2, <1>7 DEF Inner, Results

\* The same for a call,
LEMMA CallsOn ==
    ASSUME TypeOK, Places, NEW e \in BOOLEAN, NEW at \in Points, NEW bad \in BOOLEAN,
           NEW g \in Activations,
           Call(at, g, e, bad), Reads, ~program.done,
           Top.fn # "Parse", at \notin {"start", "value", "find block"},
           bad => e \/ ~Top.clean,
           Top.fn \in Counted /\ Top.at = "start" => ~TooDeep,
           Top.fn = "block" => at = "end",
           Starts(g), <<Top.fn, g.fn>> \in Calls
    PROVE  Inner
<1>1. /\ Pile(Len(stack) + 1, e) /\ Onward(stack'[Len(stack)], e, at)
      /\ stack'[Len(stack) + 1] = g
      /\ AddDiag(e) /\ broken' = (broken \/ bad)
      /\ UNCHANGED <<fnName, program>> /\ result' = ""
  BY CallIs
<1>2. Notes(e)
  BY <1>1 DEF Notes, TypeOK
<1>. DEFINE f == stack'[Len(stack)]
<1>3. f.fn = Top.fn /\ f.at = at /\ f.clean = (Top.clean /\ ~e)
  BY <1>1 DEF Onward
<1>. HIDE DEF f
<1>5. Stays(f, e)
  BY <1>3, Zenon DEF Stays
<1>7. Called(e)
  BY <1>1, <1>3, <1>5 DEF Called, f
<1>. QED
  BY <1>1, <1>2, <1>7 DEF Inner, Results

\* a tail call,
LEMMA BecomesOther ==
    ASSUME TypeOK, Places, NEW e \in BOOLEAN, NEW bad \in BOOLEAN,
           Become(Expr(LowestPrec), e, bad), Reads, ~program.done,
           Top.fn \in Binders, bad => e \/ ~Top.clean
    PROVE  Inner
<1>0. Expr(LowestPrec) \in Activations
  BY FramesType DEF LowestPrec
<1>1. /\ Pile(Len(stack), e) /\ stack'[Len(stack)] = Expr(LowestPrec)
      /\ AddDiag(e) /\ broken' = (broken \/ bad)
      /\ UNCHANGED <<fnName, program>> /\ result' = ""
  BY <1>0, BecomeIs
<1>2. Notes(e)
  BY <1>1 DEF Notes, TypeOK
<1>3. Became(e)
  BY <1>1, FramesAre DEF Became
<1>4. Top.fn # "Parse"
  BY DEF Binders
<1>. QED
  BY <1>1, <1>2, <1>3, <1>4 DEF Inner, Results

\* and a return.
LEMMA ReturnsTo ==
    ASSUME TypeOK, Places, NEW e \in BOOLEAN, NEW bad \in BOOLEAN, NEW value \in Results,
           Return(value, e, bad), Reads, ~program.done,
           Top.fn # "Parse", bad => e \/ ~Top.clean
    PROVE  Inner
<1>1. /\ Pile(Len(stack) - 1, e)
      /\ AddDiag(e) /\ broken' = (broken \/ bad)
      /\ UNCHANGED <<fnName, program>> /\ result' = value
  BY ReturnIs
<1>2. Notes(e)
  BY <1>1 DEF Notes, TypeOK
<1>. QED
  BY <1>1, <1>2 DEF Inner, Returned

-----------------------------------------------------------------------------
(* Each function's steps *)

\* The functions, one by one: constants and let statements,
LEMMA ParseBindingStep == ASSUME TypeOK, Places, ParseBinding PROVE Inner
<1>1. CASE (In("const", "start") \/ In("let", "start")) /\ NextToken /\ peek \in Idents
           /\ Go("assign", FALSE, FALSE)
  BY <1>1, GoesOn DEF In, Reads, Points, Counted
<1>2. CASE (In("const", "start") \/ In("let", "start")) /\ NextToken /\ peek = "="
           /\ Go("value", TRUE, TRUE)
  BY <1>2, GoesOn DEF In, Reads, Points, Counted, Binders
<1>3. ASSUME NEW bad \in BOOLEAN, ParseValue(TRUE, bad), NextToken,
             \/ In("const", "start") \/ In("let", "start")
             \/ In("const", "assign") \/ In("let", "assign")
      PROVE  Inner
  <2>1. CASE Return("", TRUE, TRUE)
    BY <1>3, <2>1, ReturnsTo DEF In, Reads, Results
  <2>2. CASE Become(Expr(LowestPrec), TRUE, bad)
    BY <1>3, <2>2, BecomesOther DEF In, Reads, Binders
  <2>. QED
    BY <1>3, <2>1, <2>2 DEF ParseValue
<1>4. CASE (In("const", "assign") \/ In("let", "assign")) /\ NextToken /\ peek = "="
           /\ Go("value", FALSE, FALSE)
  BY <1>4, GoesOn DEF In, Reads, Points, Counted, Binders
<1>. QED
  BY <1>1, <1>2, <1>3, <1>4 DEF ParseBinding

\* the expression after =,
LEMMA ParseRightStep == ASSUME TypeOK, Places, ParseRight PROVE Inner
BY TopPlace, BecomesOther DEF ParseRight, Reads

\* ports,
LEMMA ParsePortStep == ASSUME TypeOK, Places, ParsePort PROVE Inner
<1>1. ASSUME NEW e \in BOOLEAN, NEW at \in {"colon", "type", "schema"},
             Top.fn = "port", ~program.done, NextToken, Go(at, e, e)
      PROVE  Inner
  BY <1>1, GoesOn DEF Reads, Points, Counted
<1>2. ASSUME NEW e \in BOOLEAN, Top.fn = "port", ~program.done, NextToken, Return("", e, e)
      PROVE  Inner
  BY <1>2, ReturnsTo DEF Reads, Results
<1>. QED
  BY <1>1, <1>2 DEF ParsePort, In, Expect

\* inline types,
LEMMA ParseSchemaStep == ASSUME TypeOK, Places, ParseSchema PROVE Inner
<1>1. ASSUME NEW at \in Points \ {"start", "value"}, Top.fn = "port", ~program.done,
             Reads, Go(at, FALSE, FALSE)
      PROVE  Inner
  BY <1>1, GoesOn DEF Counted
<1>2. ASSUME NEW e \in BOOLEAN, Top.fn = "port", ~program.done, Reads, Return("", e, e)
      PROVE  Inner
  BY <1>2, ReturnsTo DEF Results
<1>3. {"schema", "field", "comma", "fields end", "field colon", "field type", "field end"}
         \subseteq Points \ {"start", "value"}
  BY DEF Points
<1>. QED
  BY <1>1, <1>2, <1>3 DEF ParseSchema, Reads

\* declarations of the host's kinds,
LEMMA ParseKindStep == ASSUME TypeOK, Places, ParseKind PROVE Inner
<1>1. ASSUME NEW at \in {"type or value", "type", "value or not", "value"},
             Top.fn = "kind", ~program.done, NextToken, Go(at, FALSE, FALSE)
      PROVE  Inner
  BY <1>1, GoesOn DEF Reads, Points, Counted, Binders
<1>2. ASSUME NEW e \in BOOLEAN, Top.fn = "kind", ~program.done, Reads, Return("", e, e)
      PROVE  Inner
  BY <1>2, ReturnsTo DEF Results
<1>. QED
  BY <1>1, <1>2 DEF ParseKind, In, Expect, Reads

\* functions,
LEMMA ParseFunctionStep == ASSUME TypeOK, Places, ParseFunction PROVE Inner
<1>. Top.clean \in BOOLEAN
  BY TopPlace
<1>1. ASSUME NEW e \in BOOLEAN, NEW at \in {"name", ")", "{"},
             Top.fn = "function", ~program.done, Reads, Go(at, e, FALSE)
      PROVE  Inner
  BY <1>1, GoesOn DEF Points, Counted
<1>2. CASE In("function", "start") /\ NextToken /\ Go("name", FALSE, FALSE)
  BY <1>1, <1>2 DEF In, Reads
<1>3. ASSUME In("function", "name"), IF cur \in Idents THEN NextToken ELSE Stay,
             stack' = Placed(cur \notin {"Init", "Run"}, "("),
             fnName' = IF cur \in Idents THEN cur ELSE "",
             AddDiag(cur \notin {"Init", "Run"}),
             broken' = (broken \/ ~(cur \in Idents)), UNCHANGED <<result, program>>
      PROVE  Inner
  <2>. DEFINE e == cur \notin {"Init", "Run"}
              bad == ~(cur \in Idents)
  <2>1. e \in BOOLEAN /\ bad \in BOOLEAN /\ "(" \in Points
    BY DEF Points
  <2>2. /\ bad => e
        /\ fnName' \in Idents \cup {""} /\ (e \/ fnName' \in {"", "Init", "Run"})
    BY <1>3 DEF Idents
  <2>. HIDE DEF e, bad
  <2>3. Notes(e)
    BY <1>3, <2>1, <2>2 DEF Notes, TypeOK, e, bad
  <2>4. /\ stack' \in Seq(Activations) /\ Len(stack') = Len(stack) /\ Below(e)
        /\ stack'[Len(stack)] = [Dimmed(Top, e) EXCEPT !.at = "("]
    <3>. DEFINE s == Placed(e, "(")
    <3>1. /\ s \in Seq(Activations) /\ Len(s) = Len(stack)
          /\ \A k \in 1 .. Len(stack) - 1 : s[k] = Dimmed(stack[k], e)
          /\ s[Len(stack)] = [Dimmed(Top, e) EXCEPT !.at = "("]
      BY <2>1, PlacedIs
    <3>2. stack' = s
      BY <1>3 DEF e
    <3>. HIDE DEF s
    <3>. QED
      BY <3>1, <3>2 DEF Below
  <2>. DEFINE f == stack'[Len(stack)]
  <2>5. f.fn = "function" /\ f.at = "(" /\ f.clean = (Top.clean /\ ~e) /\ Top.fn = "function"
    <3>1. Onward([Dimmed(Top, e) EXCEPT !.at = "("], e, "(")
      BY <2>1, OnwardIs
    <3>2. Onward(f, e, "(")
      BY <2>4, <3>1
    <3>. QED
      BY <1>3, <3>2 DEF Onward, In
  <2>. HIDE DEF f
  <2>6. Stays(f, e)
    BY <2>5 DEF Stays, Counted
  <2>7. Moved(e)
    BY <2>4, <2>5, <2>6 DEF Moved, Pile, f
  <2>. QED
    BY <1>3, <2>1, <2>3, <2>7 DEF Inner, In, Reads, TypeOK
<1>4. ASSUME NEW t \in {"(", ")"}, NEW at \in {")", "{"}, In("function", t),
             \/ cur = t /\ NextToken /\ Go(at, FALSE, FALSE)
             \/ cur # t /\ Stay /\ Go(at, Top.clean, FALSE)
      PROVE  Inner
  BY <1>1, <1>4 DEF In, Reads
<1>8. ASSUME NEW header \in {<<"(", ")">>, <<")", "{">>}, In("function", header[1]),
             \/ cur = header[1] /\ NextToken /\ Go(header[2], FALSE, FALSE)
             \/ cur # header[1] /\ Stay /\ Go(header[2], Top.clean, FALSE)
      PROVE  Inner
  <2>1. header[1] \in {"(", ")"} /\ header[2] \in {")", "{"}
    <3>1. header = <<"(", ")">> \/ header = <<")", "{">>
      BY <1>8
    <3>2. CASE header = <<"(", ")">>
      BY <3>2
    <3>3. CASE header = <<")", "{">>
      BY <3>3
    <3>. QED
      BY <3>1, <3>2, <3>3
  <2>. QED
    BY <1>4, <1>8, <2>1
<1>5. CASE In("function", "{") /\ Stay /\ cur = "{" /\ Call("end", Block, FALSE, FALSE)
  <2>1. Starts(Block) /\ Block \in Activations /\ <<"function", Block.fn>> \in Calls
    BY <1>5, FramesAre, FramesType DEF Starts, Stay, source, Calls
  <2>. QED
    BY <1>5, <2>1, CallsOn DEF In, Reads, Points, Counted
<1>6. CASE In("function", "{") /\ Stay /\ cur # "{" /\ Return("", Top.clean, TRUE)
  BY <1>6, ReturnsTo DEF In, Reads, Results
<1>7. CASE In("function", "end") /\ Stay
           /\ Return("", result = "empty" /\ Top.clean /\ fnName # "Init", FALSE)
  BY <1>7, ReturnsTo DEF In, Reads, Results
<1>. QED
  BY <1>2, <1>3, <1>5, <1>6, <1>7, <1>8 DEF ParseFunction

\* blocks,
LEMMA ParseBlockStep == ASSUME TypeOK, Places, ParseBlock PROVE Inner
<1>. Top.clean \in BOOLEAN
  BY TopPlace
<1>1. ASSUME NEW e \in BOOLEAN, NEW at \in {"statement", "next", "sync"},
             Top.fn = "block", ~program.done, Reads, Go(at, e, FALSE),
             AtLine(at, cur', peek', before')
      PROVE  Inner
  BY <1>1, GoesOn DEF Points, Counted
<1>2. CASE In("block", "open") /\ NextToken /\ Go("statement", FALSE, FALSE)
  <2>1. cur = "{"
    BY <1>2, TopPlace DEF In, AtLine
  <2>2. AtLine("statement", cur', peek', before')
    BY <1>2, <2>1 DEF NextToken, AtLine
  <2>. QED
    BY <1>1, <1>2, <2>2 DEF In, Reads
<1>3. CASE In("block", "statement") /\ cur = "NEWLINE" /\ NextToken /\ Go("statement", FALSE, FALSE)
  <2>1. AtLine("statement", cur', peek', before')
    BY <1>3 DEF NextToken, AtLine
  <2>. QED
    BY <1>1, <1>3, <2>1 DEF In, Reads
<1>4. CASE In("block", "statement") /\ Stay
           /\ Return(IF Top.mark THEN "statements" ELSE "empty", cur = "EOF", FALSE)
  BY <1>4, ReturnsTo DEF In, Reads, Results
<1>5. ASSUME In("block", "statement"), Stay,
             LET misplaced == cur \in {"const", "port"}
             IN Begin("end", Statement(cur), misplaced, misplaced)
      PROVE  Inner
  <2>. DEFINE g == Statement(cur)
              f == stack'[Len(stack)]
              e == cur \in {"const", "port"}
  <2>0. e \in BOOLEAN /\ Begin("end", Statement(cur), e, e)
    BY <1>5
  <2>. HIDE DEF e
  <2>1. /\ g \in Activations /\ g.clean /\ g.at = "start" /\ g.fn \in {"let", "if", "assign"}
    BY FramesType, FramesAre DEF Statement, ParseFns, Points
  <2>2. Starts(g) /\ <<"block", g.fn>> \in Calls
    BY <2>1 DEF Starts, Calls
  <2>. HIDE DEF g
  <2>3. /\ Pile(IF e THEN Len(stack) ELSE Len(stack) + 1, e)
        /\ f.fn = Top.fn /\ f.at = "end" /\ f.clean = ~e
        /\ ~e => stack'[Len(stack) + 1] = g
        /\ AddDiag(e) /\ broken' = (broken \/ e)
        /\ UNCHANGED <<fnName, program>> /\ result' = ""
    <3>1. "end" \in Points
      BY DEF Points
    <3>. QED
      BY <2>0, <2>1, <3>1, BeginIs DEF g
  <2>. HIDE DEF f
  <2>4. Notes(e)
    BY <2>0, <2>3 DEF Notes, TypeOK
  <2>5. Top.fn = "block"
    BY <1>5 DEF In
  <2>6. Stays(f, e) /\ AtLine(f.at, cur', peek', before')
    BY <2>3, <2>5 DEF Stays, Counted, AtLine
  <2>7. e => Moved(e)
    BY <2>3, <2>6 DEF Moved, f
  <2>8. ~e => Called(e)
    BY <2>2, <2>3, <2>5, <2>6 DEF Called, f
  <2>9. Moved(e) \/ Called(e)
    BY <2>7, <2>8
  <2>. QED
    BY <1>5, <2>0, <2>3, <2>4, <2>5, <2>9 DEF Inner, In, Reads, Results
<1>6. ASSUME In("block", "end"), Stay,
             LET stray == peek \notin {"NEWLINE", "}", "EOF"}
             IN Go(IF Top.clean /\ ~stray THEN "next" ELSE "sync", Top.clean /\ stray, FALSE)
      PROVE  Inner
  <2>. DEFINE stray == peek \notin {"NEWLINE", "}", "EOF"}
              at == IF Top.clean /\ ~stray THEN "next" ELSE "sync"
  <2>1. AtLine(at, cur', peek', before')
    BY <1>6 DEF AtLine, Stay, source
  <2>2. at \in {"statement", "next", "sync"} /\ (Top.clean /\ stray) \in BOOLEAN
    OBVIOUS
  <2>. QED
    BY <1>1, <1>6, <2>1, <2>2 DEF In, Reads
<1>7. CASE In("block", "next") /\ NextToken /\ Go("statement", FALSE, FALSE)
  <2>1. cur = "NEWLINE" \/ peek \in {"NEWLINE", "}", "EOF"}
    BY <1>7, TopPlace DEF In, AtLine
  <2>2. AtLine("statement", cur', peek', before')
    BY <1>7, <2>1 DEF NextToken, AtLine
  <2>. QED
    BY <1>1, <1>7, <2>2 DEF In, Reads
<1>. QED
  BY <1>2, <1>3, <1>4, <1>5, <1>6, <1>7 DEF ParseBlock

\* the recovery in them,
LEMMA SyncToStmtEndStep == ASSUME TypeOK, Places, SyncToStmtEnd PROVE Inner
<1>1. ASSUME Top.fn = "block", ~program.done, Reads, Go("next", FALSE, FALSE),
             AtLine("next", cur', peek', before')
      PROVE  Inner
  BY <1>1, GoesOn DEF Points, Counted
<1>2. CASE In("block", "sync") /\ AtStmtEnd(Top.prec) /\ Stay /\ Go("next", FALSE, FALSE)
  <2>1. AtLine("next", cur', peek', before')
    BY <1>2 DEF AtLine, AtStmtEnd, Stay, source, Places
  <2>. QED
    BY <1>1, <1>2, <2>1 DEF In, Reads
<1>3. CASE In("block", "sync") /\ peek = "NEWLINE" /\ NextToken /\ Go("next", FALSE, FALSE)
  <2>1. AtLine("next", cur', peek', before')
    BY <1>3 DEF AtLine, NextToken
  <2>. QED
    BY <1>1, <1>3, <2>1 DEF In, Reads
<1>4. ASSUME In("block", "sync"), ~AtStmtEnd(Top.prec), NextToken,
             stack' = [stack EXCEPT ![Len(stack)].prec =
                          IF peek = "{" THEN @ + 1 ELSE IF peek = "}" THEN @ - 1 ELSE @],
             result' = "", UNCHANGED <<errors, fnName, broken, program>>
      PROVE  Inner
  <2>. DEFINE n == Len(stack)
              p == IF peek = "{" THEN Top.prec + 1
                   ELSE IF peek = "}" THEN Top.prec - 1 ELSE Top.prec
              f == [Top EXCEPT !.prec = p]
  <2>1. /\ n \in Nat \ {0} /\ DOMAIN stack = 1 .. n /\ Top \in Activations
        /\ \A k \in 1 .. n : stack[k] \in Activations
    BY TopIs
  <2>2. Top.prec \in Nat /\ (peek = "}" => Top.prec # 0)
    BY <1>4, <2>1 DEF AtStmtEnd, Activations
  <2>3. p \in Nat
    <3>1. \A q \in Nat : q + 1 \in Nat /\ (q # 0 => q - 1 \in Nat)
      OBVIOUS
    <3>. QED
      BY <2>2, <3>1, Zenon
  <2>4. stack' = [stack EXCEPT ![n] = f]
    BY <1>4, <2>1 DEF Top
  <2>. HIDE DEF p
  <2>5. f \in Activations /\ f.fn = Top.fn /\ f.at = Top.at /\ f.clean = Top.clean
    BY <2>1, <2>3 DEF Activations
  <2>. HIDE DEF f
  <2>6. /\ stack' \in Seq(Activations) /\ Len(stack') = n
        /\ \A k \in 1 .. n : stack'[k] = IF k = n THEN f ELSE stack[k]
    <3>0. stack \in Seq(Activations)
      BY DEF TypeOK
    <3>1. n \in 1 .. n
      BY <2>1
    <3>2. /\ [stack EXCEPT ![n] = f] \in Seq(Activations)
          /\ Len([stack EXCEPT ![n] = f]) = n
          /\ \A k \in 1 .. n : [stack EXCEPT ![n] = f][k] = IF k = n THEN f ELSE stack[k]
      BY <2>5, <3>0, <3>1, ExceptSeq
    <3>. QED
      BY <2>4, <3>2
  <2>7. \A k \in 1 .. n : stack[k] = Dimmed(stack[k], FALSE)
    BY <2>1 DEF Dimmed, Activations
  <2>8. Pile(n, FALSE) /\ stack'[n] = f
    <3>1. n \in 1 .. n /\ \A k \in 1 .. n - 1 : k \in 1 .. n /\ k # n
      <4>1. n \in Nat \ {0}
        BY <2>1
      <4>. HIDE DEF n
      <4>. QED
        BY <4>1
    <3>2. \A k \in 1 .. n - 1 : stack'[k] = Dimmed(stack[k], FALSE)
      BY <2>6, <2>7, <3>1
    <3>. QED
      BY <2>6, <3>1, <3>2 DEF Pile, Below
  <2>9. Top.fn = "block" /\ Top.at = "sync" /\ ~program.done
    BY <1>4 DEF In
  <2>10. Stays(f, FALSE) /\ AtLine(f.at, cur', peek', before')
    BY <2>1, <2>5, <2>9 DEF Stays, Counted, AtLine, Activations
  <2>11. Moved(FALSE)
    BY <2>8, <2>10 DEF Moved
  <2>12. Notes(FALSE)
    BY <1>4 DEF Notes, AddDiag, TypeOK
  <2>. QED
    BY <1>4, <2>9, <2>11, <2>12 DEF Inner, Reads, Results
<1>. QED
  BY <1>2, <1>3, <1>4 DEF SyncToStmtEnd

\* assignments,
LEMMA ParseExprOrAssignStep == ASSUME TypeOK, Places, ParseExprOrAssign PROVE Inner
<1>1. CASE In("assign", "start") /\ Stay /\ Call("target", Expr(LowestPrec), FALSE, FALSE)
  <2>1. Starts(Expr(LowestPrec)) /\ Expr(LowestPrec) \in Activations
        /\ <<"assign", Expr(LowestPrec).fn>> \in Calls
    BY ExprStarts DEF Calls
  <2>. QED
    BY <1>1, <2>1, CallsOn DEF In, Reads, Points, Counted
<1>2. CASE In("assign", "target") /\ NextToken /\ Go("value", FALSE, FALSE)
  BY <1>2, GoesOn DEF In, Reads, Points, Counted, Binders
<1>3. CASE In("assign", "target") /\ Stay /\ Return("", FALSE, FALSE)
  BY <1>3, ReturnsTo DEF In, Reads, Results
<1>. QED
  BY <1>1, <1>2, <1>3 DEF ParseExprOrAssign

\* if statements,
LEMMA ParseIfStep == ASSUME TypeOK, Places, ParseIf PROVE Inner
<1>. Top.clean \in BOOLEAN
  BY TopPlace
<1>. DEFINE Going == Top.fn = "if" /\ ~program.done /\ Reads /\ (Top.at = "start" => ~TooDeep)
<1>1. ASSUME NEW e \in BOOLEAN, NEW at \in {"condition", "block", ")", "else", "find else"},
             NEW bad \in BOOLEAN, bad => e, Going, Go(at, e, bad)
      PROVE  Inner
  BY <1>1, GoesOn DEF Points
<1>2. ASSUME NEW e \in BOOLEAN, e \/ ~Top.clean, Going, Go("find block", e, FALSE)
      PROVE  Inner
  BY <1>2, GoesOn DEF Points
<1>3. ASSUME NEW e \in BOOLEAN, NEW bad \in BOOLEAN, bad => e \/ ~Top.clean,
             Top.fn = "if", ~program.done, Reads, Return("", e, bad)
      PROVE  Inner
  BY <1>3, ReturnsTo DEF Results
<1>4. ASSUME NEW at \in {"else?", "end"}, Going, Call(at, Block, FALSE, FALSE), cur' = "{"
      PROVE  Inner
  <2>1. Starts(Block) /\ Block \in Activations /\ <<"if", Block.fn>> \in Calls
    BY <1>4, FramesAre, FramesType DEF Starts, Calls
  <2>. QED
    BY <1>4, <2>1, CallsOn DEF Points
<1>5. ASSUME Going, Call("end", Frame("if", "start"), FALSE, FALSE)
      PROVE  Inner
  <2>. DEFINE g == Frame("if", "start")
  <2>1. g \in Activations
    BY FramesType DEF ParseFns, Points
  <2>2. g.fn = "if" /\ g.at = "start" /\ g.clean
    BY FramesAre
  <2>3. Call("end", g, FALSE, FALSE)
    BY <1>5
  <2>. HIDE DEF g
  <2>4. Starts(g) /\ <<"if", g.fn>> \in Calls
    BY <2>2 DEF Starts, Calls
  <2>. QED
    BY <1>5, <2>1, <2>3, <2>4, CallsOn DEF Points
<1>6. ASSUME Going, Call(")", Expr(LowestPrec), FALSE, FALSE)
      PROVE  Inner
  <2>1. <<"if", Expr(LowestPrec).fn>> \in Calls
    BY ExprStarts DEF Calls
  <2>. QED
    BY <1>6, <2>1, ExprStarts, CallsOn DEF Points
<1>7. CASE In("if", "start") /\ ~TooDeep /\ Reads
           /\ (Go("condition", FALSE, FALSE) \/ Go("block", TRUE, TRUE))
  BY <1>1, <1>7 DEF In
<1>8. CASE In("if", "condition") /\ NextToken /\ Call(")", Expr(LowestPrec), FALSE, FALSE)
  BY <1>6, <1>8 DEF In, Reads
<1>9. CASE In("if", ")") /\ Reads /\ (Go("block", FALSE, FALSE) \/ Go("block", Top.clean, FALSE))
  BY <1>1, <1>9 DEF In
<1>10. CASE In("if", "block") /\ peek = "{" /\ NextToken /\ Call("else?", Block, FALSE, FALSE)
  BY <1>4, <1>10 DEF In, Reads, NextToken
<1>11. CASE In("if", "block") /\ Stay /\ Go("find block", Top.clean, FALSE)
  BY <1>2, <1>11 DEF In, Reads
<1>12. CASE In("if", "find block") /\ AdvanceToLBrace("else?", TRUE)
  <2>1. ~Top.clean
    BY <1>12, TopPlace DEF In
  <2>2. CASE cur = "{" /\ Stay /\ Call("else?", Block, FALSE, FALSE)
    BY <1>4, <1>12, <2>2 DEF In, Reads, Stay, source
  <2>3. CASE Stay /\ Return("", FALSE, TRUE)
    BY <1>3, <1>12, <2>1, <2>3 DEF In, Reads
  <2>4. CASE NextToken /\ Go(Top.at, FALSE, FALSE)
    BY <1>2, <1>12, <2>1, <2>4 DEF In, Reads
  <2>. QED
    BY <1>12, <2>2, <2>3, <2>4 DEF AdvanceToLBrace
<1>13. CASE In("if", "else?") /\ Reads /\ (Go("else", FALSE, FALSE) \/ Return("", FALSE, FALSE))
  BY <1>1, <1>3, <1>13 DEF In
<1>14. CASE In("if", "else") /\ NextToken /\ Call("end", Frame("if", "start"), FALSE, FALSE)
  BY <1>5, <1>14 DEF In, Reads
<1>15. CASE In("if", "else") /\ peek = "{" /\ NextToken /\ Call("end", Block, FALSE, FALSE)
  BY <1>4, <1>15 DEF In, Reads, NextToken
<1>16. CASE In("if", "else") /\ Stay /\ Go("find else", TRUE, FALSE)
  BY <1>1, <1>16 DEF In, Reads
<1>17. CASE In("if", "find else") /\ AdvanceToLBrace("end", FALSE)
  <2>2. CASE cur = "{" /\ Stay /\ Call("end", Block, FALSE, FALSE)
    BY <1>4, <1>17, <2>2 DEF In, Reads, Stay, source
  <2>3. CASE Stay /\ Return("", FALSE, FALSE)
    BY <1>3, <1>17, <2>3 DEF In, Reads
  <2>4. CASE NextToken /\ Go(Top.at, FALSE, FALSE)
    BY <1>1, <1>17, <2>4 DEF In, Reads
  <2>. QED
    BY <1>17, <2>2, <2>3, <2>4 DEF AdvanceToLBrace
<1>18. CASE In("if", "end") /\ Stay /\ Return("", FALSE, FALSE)
  BY <1>3, <1>18 DEF In, Reads
<1>19. CASE In("if", "start") /\ Stay /\ Return("", TRUE, TRUE)
  BY <1>3, <1>19 DEF In, Reads
<1>. HIDE DEF Going
<1>. QED
  BY <1>7, <1>8, <1>9, <1>10, <1>11, <1>12, <1>13, <1>14, <1>15, <1>16, <1>17, <1>18, <1>19
  DEF ParseIf, Reads

\* LowestPrec is a precedence.
LEMMA LowestIs == LowestPrec \in 0 .. 8
BY DEF LowestPrec

\* The steps inside an expression.
LEMMA ExpressionSteps ==
    ASSUME TypeOK, Places, Top.fn = "expression", ~program.done, Reads,
           Top.at = "start" => ~TooDeep
    PROVE  /\ \A e \in BOOLEAN, at \in Points \ {"start", "value"} :
                 Go(at, e, e) => Inner
           /\ \A at \in Points \ {"start", "value", "find block"}, p \in 0 .. 8 :
                 Call(at, Expr(p), FALSE, FALSE) => Inner
           /\ \A e \in BOOLEAN, value \in Results : Return(value, e, e) => Inner
<1>1. ASSUME NEW e \in BOOLEAN, NEW at \in Points \ {"start", "value"}, Go(at, e, e)
      PROVE  Inner
  BY <1>1, GoesOn
<1>2. ASSUME NEW at \in Points \ {"start", "value", "find block"}, NEW p \in 0 .. 8,
             Call(at, Expr(p), FALSE, FALSE)
      PROVE  Inner
  <2>. DEFINE g == Expr(p)
  <2>1. g \in Activations /\ g.fn = "expression" /\ g.at = "start" /\ g.clean
    BY FramesType, FramesAre
  <2>. HIDE DEF g
  <2>2. Starts(g) /\ <<"expression", g.fn>> \in Calls
    BY <2>1 DEF Starts, Calls
  <2>3. Call(at, g, FALSE, FALSE)
    BY <1>2 DEF g
  <2>. QED
    BY <2>1, <2>2, <2>3, CallsOn
<1>3. ASSUME NEW e \in BOOLEAN, NEW value \in Results, Return(value, e, e)
      PROVE  Inner
  BY <1>3, ReturnsTo
<1>. QED
  BY <1>1, <1>2, <1>3

\* the operand of an operator,
LEMMA OperandStep ==
    ASSUME TypeOK, Places, Top.fn = "expression", ~program.done,
           Top.at = "start" => ~TooDeep,
           NEW p \in 0 .. 8, Operand(p)
    PROVE  Inner
<1>1. CASE Stay /\ Go("infix", TRUE, TRUE)
  BY <1>1, ExpressionSteps DEF Reads, Points
<1>2. CASE NextToken /\ Call("infix", Expr(p), FALSE, FALSE)
  BY <1>2, ExpressionSteps DEF Reads, Points
<1>. QED
  BY <1>1, <1>2 DEF Operand

\* expressions,
LEMMA ParseExpressionStep == ASSUME TypeOK, Places, ParseExpression PROVE Inner
<1>. Top.fn = "expression" /\ Top.at = "start" /\ ~program.done
  BY DEF ParseExpression, In
<1>1. CASE Stay /\ Return("bad", TRUE, TRUE)
  BY <1>1, ReturnsTo DEF Reads, Results
<1>2. CASE ~TooDeep /\ Stay /\ Go("infix", FALSE, FALSE)
  BY <1>2, ExpressionSteps DEF Reads, Points
<1>3. CASE ~TooDeep /\ Operand(PrefixPrec)
  BY <1>3, OperandStep DEF PrefixPrec
<1>4. CASE ~TooDeep /\ NextToken /\ Call(")", Expr(LowestPrec), FALSE, FALSE)
  BY <1>4, ExpressionSteps, LowestIs DEF Reads, Points
<1>. QED
  BY <1>1, <1>2, <1>3, <1>4 DEF ParseExpression

\* what ends with a bracket,
LEMMA ParseClosingStep == ASSUME TypeOK, Places, ParseClosing PROVE Inner
<1>. PICK closing \in {")", "]"} :
        /\ In("expression", closing)
        /\ \/ Stay /\ Return("bad", FALSE, FALSE)
           \/ NextToken /\ Go("infix", FALSE, FALSE)
           \/ Stay /\ Return("bad", TRUE, TRUE)
  BY DEF ParseClosing
<1>1. Top.fn = "expression" /\ Top.at # "start" /\ ~program.done
  BY DEF In
<1>2. CASE Stay /\ Return("bad", FALSE, FALSE)
  BY <1>1, <1>2, ExpressionSteps DEF Reads, Results
<1>3. CASE NextToken /\ Go("infix", FALSE, FALSE)
  BY <1>1, <1>3, ExpressionSteps DEF Reads, Points
<1>4. CASE Stay /\ Return("bad", TRUE, TRUE)
  BY <1>1, <1>4, ExpressionSteps DEF Reads, Results
<1>. QED
  BY <1>2, <1>3, <1>4

\* A precedence is a number.
LEMMA PrecedenceIs ==
    \A t : /\ Precedence(t) \in 0 .. 8
           /\ Precedence(t) > 0 => t \in {"-", "*", "(", ".", "["}
BY DEF Precedence

\* operators, members and indexing,
LEMMA ParseInfixStep == ASSUME TypeOK, Places, ParseInfix PROVE Inner
<1>1. CASE In("expression", "infix") /\ Top.prec < Precedence(peek) /\ NextToken
           /\ Go(peek, FALSE, FALSE)
  <2>1. Top.prec \in Nat
    BY TopIs DEF Activations
  <2>2. Precedence(peek) > 0
    BY <1>1, <2>1, PrecedenceIs
  <2>3. peek \in Points \ {"start", "value"}
    BY <2>2, PrecedenceIs DEF Points
  <2>. QED
    BY <1>1, <2>3, ExpressionSteps DEF In, Reads
<1>2. CASE In("expression", "infix") /\ Stay /\ Return("expression", FALSE, FALSE)
  BY <1>2, ExpressionSteps DEF In, Reads, Results
<1>3. ASSUME NEW op \in {"-", "*"}, In("expression", op), Operand(Precedence(cur))
      PROVE  Inner
  BY <1>3, PrecedenceIs, OperandStep DEF In
<1>4. CASE In("expression", ".") /\ NextToken
           /\ (Go("infix", FALSE, FALSE) \/ Return("bad", TRUE, TRUE))
  BY <1>4, ExpressionSteps DEF In, Reads, Results, Points
<1>5. CASE In("expression", "[") /\ NextToken /\ Call("]", Expr(LowestPrec), FALSE, FALSE)
  BY <1>5, ExpressionSteps, LowestIs DEF In, Reads, Points
<1>. QED
  BY <1>1, <1>2, <1>3, <1>4, <1>5 DEF ParseInfix

\* and calls.
LEMMA ParseCallStep == ASSUME TypeOK, Places, ParseCall PROVE Inner
<1>1. ASSUME NEW at \in {"argument", "keyword"}, NEW m \in BOOLEAN,
             Top.fn = "expression", Top.at # "start", ~program.done, NextToken,
             stack' = [stack EXCEPT ![Len(stack)].at = at, ![Len(stack)].mark = m],
             result' = "", UNCHANGED <<errors, fnName, broken, program>>
      PROVE  Inner
  <2>. DEFINE n == Len(stack)
              f == [Top EXCEPT !.at = at, !.mark = m]
  <2>1. /\ n \in Nat \ {0} /\ DOMAIN stack = 1 .. n /\ Top \in Activations
        /\ \A k \in 1 .. n : stack[k] \in Activations
    BY TopIs
  <2>2. stack' = [stack EXCEPT ![n] = f]
    BY <1>1, <2>1 DEF Top
  <2>3. f \in Activations /\ f.fn = Top.fn /\ f.at = at /\ f.clean = Top.clean
    BY <2>1 DEF Activations, Points
  <2>. HIDE DEF f
  <2>4. n \in 1 .. n /\ \A k \in 1 .. n - 1 : k \in 1 .. n /\ k # n
    <3>1. n \in Nat \ {0}
      BY <2>1
    <3>. HIDE DEF n
    <3>. QED
      BY <3>1
  <2>5. /\ [stack EXCEPT ![n] = f] \in Seq(Activations)
        /\ Len([stack EXCEPT ![n] = f]) = n
        /\ \A k \in 1 .. n : [stack EXCEPT ![n] = f][k] = IF k = n THEN f ELSE stack[k]
    <3>1. stack \in Seq(Activations)
      BY DEF TypeOK
    <3>. QED
      BY <2>3, <2>4, <3>1, ExceptSeq
  <2>6. \A k \in 1 .. n : stack[k] = Dimmed(stack[k], FALSE)
    BY <2>1 DEF Dimmed, Activations
  <2>7. \A k \in 1 .. n - 1 : stack'[k] = Dimmed(stack[k], FALSE)
    BY <2>2, <2>4, <2>5, <2>6
  <2>8. Pile(n, FALSE) /\ stack'[n] = f
    BY <2>2, <2>4, <2>5, <2>7 DEF Pile, Below
  <2>9. Stays(f, FALSE) /\ f.fn # "block"
    BY <1>1, <2>1, <2>3 DEF Stays, Counted, Activations
  <2>10. Moved(FALSE)
    BY <2>8, <2>9 DEF Moved
  <2>11. Notes(FALSE)
    BY <1>1 DEF Notes, AddDiag, TypeOK
  <2>. QED
    BY <1>1, <2>10, <2>11 DEF Inner, Reads, Results
<1>2. ASSUME NEW e \in BOOLEAN, NEW at \in {"infix", "call end", "comma", "argument"},
             Top.fn = "expression", Top.at # "start", ~program.done, Reads, Go(at, e, e)
      PROVE  Inner
  BY <1>2, ExpressionSteps DEF Points
<1>3. ASSUME Top.fn = "expression", Top.at # "start", ~program.done, Reads,
             Call("argument end", Expr(LowestPrec), FALSE, FALSE)
      PROVE  Inner
  BY <1>3, ExpressionSteps, LowestIs DEF Points
<1>4. ASSUME Top.fn = "expression", Top.at # "start", ~program.done, Reads,
             Return("bad", TRUE, TRUE)
      PROVE  Inner
  BY <1>4, ExpressionSteps DEF Results
<1>5. CASE In("expression", "(")
  BY <1>1, <1>2, <1>5 DEF ParseCall, In, Reads
<1>7. CASE In("expression", "argument")
  BY <1>1, <1>2, <1>3, <1>7 DEF ParseCall, In, Reads
<1>6. CASE \E at \in {"keyword", "argument end", "comma", "call end"} : In("expression", at)
  BY <1>2, <1>3, <1>4, <1>6 DEF ParseCall, In, Reads
<1>. QED
  BY <1>5, <1>6, <1>7 DEF ParseCall

-----------------------------------------------------------------------------
(* Types and places *)

\* The steps of Parse itself.
Outer == NextDecl \/ DeclEnds \/ SyncToNewLine

\* Every step is one or the other.
LEMMA StepIs == ASSUME TypeOK, Places, Step PROVE Inner \/ Outer
BY ParseBindingStep, ParseRightStep, ParsePortStep, ParseSchemaStep, ParseKindStep,
   ParseFunctionStep, ParseBlockStep, SyncToStmtEndStep, ParseIfStep, ParseExprOrAssignStep,
   ParseExpressionStep, ParseClosingStep, ParseInfixStep, ParseCallStep
DEF Step, Outer

\* The depth of brackets is never negative.
LEMMA DepthAfterIs ==
    ASSUME NEW n \in Nat, NEW t
    PROVE  DepthAfter(n, t) \in Nat
BY DEF DepthAfter

\* Reading keeps to the tokens and to the bound on open brackets.
LEMMA ReadsTokens ==
    ASSUME TypeOK, Reads
    PROVE  /\ {cur', peek'} \subseteq Tokens /\ before' \in {"NEWLINE", "{", "other", ""}
           /\ brackets' \in 0 .. MaxOpen
           /\ (cur = "EOF" => peek = "EOF") => (cur' = "EOF" => peek' = "EOF")
<1>0. /\ {cur, peek} \subseteq Tokens /\ before \in {"NEWLINE", "{", "other", ""}
     /\ brackets \in 0 .. MaxOpen /\ MaxOpen \in Nat
  BY TokenAssumption DEF TypeOK
<1>1. CASE Stay
  BY <1>0, <1>1 DEF Stay, source
<1>2. CASE NextToken
  <2>. PICK t \in Tokens : MayFollow(t) /\ peek' = t /\ brackets' = DepthAfter(brackets, t)
    BY <1>2 DEF NextToken
  <2>1. (peek = "EOF" => t = "EOF") /\ DepthAfter(brackets, t) <= MaxOpen
    BY DEF MayFollow
  <2>2. brackets' \in 0 .. MaxOpen
    <3>0. brackets \in Nat /\ MaxOpen \in Nat
      <4>1. brackets \in 0 .. MaxOpen /\ MaxOpen \in Nat
        BY <1>0
      <4>. QED
        BY <4>1
    <3>1. DepthAfter(brackets, t) \in Nat
      BY <3>0, DepthAfterIs
    <3>. QED
      BY <2>1, <3>0, <3>1
  <2>3. cur' = peek /\ before' \in {"NEWLINE", "{", "other", ""}
    BY <1>0, <1>2 DEF NextToken
  <2>. QED
    BY <1>0, <2>1, <2>2, <2>3
<1>. QED
  BY <1>1, <1>2 DEF Reads

\* No error is forgotten: the count is zero only if there was none.
LEMMA AddDiagIs ==
    ASSUME TypeOK, NEW e \in BOOLEAN, AddDiag(e)
    PROVE  /\ errors' \in 0 .. MaxErrors
           /\ (errors' = 0) = (errors = 0 /\ ~e)
<1>. errors \in 0 .. MaxErrors /\ MaxErrors \in Nat \ {0}
  BY TokenAssumption DEF TypeOK
<1>1. CASE e /\ errors < MaxErrors
  BY <1>1 DEF AddDiag
<1>2. CASE e /\ ~(errors < MaxErrors)
  BY <1>2 DEF AddDiag
<1>3. CASE ~e
  BY <1>3 DEF AddDiag
<1>. QED
  BY <1>1, <1>2, <1>3

\* In the functions below Parse there are two activations at least.
LEMMA InnerLen ==
    ASSUME TypeOK, Places, Top.fn # "Parse"
    PROVE  Len(stack) \in Nat /\ Len(stack) > 1
<1>1. Len(stack) \in Nat \ {0} /\ stack[1].fn = "Parse"
  BY TopIs DEF TypeOK
<1>. QED
  BY <1>1 DEF Top

\* A step of Parse finds it alone.
LEMMA OuterLen ==
    ASSUME TypeOK, Places, Top.fn = "Parse"
    PROVE  Len(stack) = 1 /\ Top = stack[1]
<1>1. Len(stack) \in 1 .. Len(stack)
  BY TopIs
<1>2. PlaceOK(Len(stack), Top)
  BY <1>1 DEF Places, Top
<1>. QED
  BY <1>2 DEF PlaceOK, Top

\* What an inner step does to the stack, whichever it is.
LEMMA InnerPile ==
    ASSUME TypeOK, Places, Top.fn # "Parse",
           NEW e \in BOOLEAN, Moved(e) \/ Called(e) \/ Became(e) \/ Returned(e)
    PROVE  /\ stack' \in Seq(Activations) /\ stack' # << >>
           /\ Below(e)
           /\ stack'[1] = Dimmed(stack[1], e)
           /\ stack'[1].fn = "Parse" /\ stack'[1].at = stack[1].at
           /\ stack'[1].clean = (stack[1].clean /\ ~e)
<1>. DEFINE n == Len(stack)
<1>1. n \in Nat /\ n > 1
  BY InnerLen
<1>. HIDE DEF n
<1>2. stack' \in Seq(Activations) /\ Len(stack') \in {n - 1, n, n + 1} /\ Below(e)
  BY DEF Moved, Called, Became, Returned, Pile, n
<1>3. stack' # << >>
  BY <1>1, <1>2
<1>4. 1 \in 1 .. n - 1
  BY <1>1
<1>5. stack'[1] = Dimmed(stack[1], e)
  BY <1>2, <1>4 DEF Below, n
<1>6. stack[1] \in Activations /\ stack[1].fn = "Parse"
  <2>1. 1 \in 1 .. n
    BY <1>1
  <2>. QED
    BY <2>1, TopIs DEF TypeOK, n
<1>. QED
  BY <1>2, <1>3, <1>5, <1>6 DEF Dimmed, Activations

\* An inner step keeps the types;
LEMMA InnerTypes == ASSUME TypeOK, Places, Inner PROVE TypeOK'
<1>. PICK e \in BOOLEAN : Notes(e) /\ (Moved(e) \/ Called(e) \/ Became(e) \/ Returned(e))
  BY DEF Inner
<1>1. stack' \in Seq(Activations) /\ stack' # << >> /\ stack'[1].fn = "Parse"
  BY InnerPile DEF Inner
<1>2. errors' \in 0 .. MaxErrors
  BY AddDiagIs DEF Notes
<1>3. fnName' \in Idents \cup {""} /\ broken' \in BOOLEAN
  BY DEF Notes
<1>. QED
  BY <1>1, <1>2, <1>3, ReadsTokens DEF TypeOK, Inner

\* and it keeps every activation where it may be.
LEMMA InnerPlaces == ASSUME TypeOK, Places, Inner PROVE Places'
<1>. PICK e \in BOOLEAN : Moved(e) \/ Called(e) \/ Became(e) \/ Returned(e)
  BY DEF Inner
<1>. DEFINE n == Len(stack)
<1>1. /\ n \in Nat /\ n > 1
  BY InnerLen DEF Inner
<1>2. /\ \A k \in 1 .. n : stack[k] \in Activations /\ PlaceOK(k, stack[k])
      /\ Below(e) /\ stack'[1].clean = (stack[1].clean /\ ~e)
      /\ stack'[1].at = stack[1].at /\ stack'[1].fn = "Parse"
  BY TopIs, InnerPile DEF Places, Inner
<1>3. cur' = "EOF" => peek' = "EOF"
  BY ReadsTokens DEF Inner, Places
<1>4. stack[1].at = "declared"
  <2>1. 1 \in 1 .. n /\ 1 # n
    BY <1>1
  <2>2. PlaceOK(1, stack[1])
    BY <1>2, <2>1
  <2>. QED
    BY <2>1, <2>2 DEF PlaceOK
\* Lower activations.
<1>5. ASSUME NEW k \in 1 .. n - 1
      PROVE  LET f == stack'[k] IN
             /\ k = 1 <=> f.fn = "Parse"
             /\ k = 1 => f.at = "declared"
             /\ f.fn = "block" => f.at = "end"
             /\ f.at = "value" => f.fn \in Binders
             /\ f.fn = "if" /\ f.at = "find block" => ~f.clean
             /\ ~f.clean => ~stack'[1].clean
  <2>1. k \in 1 .. n /\ k # n
    BY <1>1
  <2>2. stack'[k] = Dimmed(stack[k], e)
    BY <1>2 DEF Below
  <2>3. stack[k] \in Activations /\ PlaceOK(k, stack[k])
    BY <1>2, <2>1
  <2>4. stack'[k].fn = stack[k].fn /\ stack'[k].at = stack[k].at
        /\ stack'[k].clean = (stack[k].clean /\ ~e)
    BY <2>2, <2>3 DEF Dimmed, Activations
  <2>. QED
    BY <1>2, <1>4, <2>1, <2>3, <2>4 DEF PlaceOK
<1>6. ~Top.clean => ~stack[1].clean
  <2>1. n \in 1 .. n
    BY <1>1
  <2>2. PlaceOK(n, Top)
    BY <1>2, <2>1 DEF Top
  <2>. QED
    BY <2>2 DEF PlaceOK
<1>7. Top.clean \in BOOLEAN /\ stack[1].clean \in BOOLEAN
  <2>1. 1 \in 1 .. n /\ n \in 1 .. n
    BY <1>1
  <2>. QED
    BY <1>2, <2>1 DEF Top, Activations
\* The activation that went on.
<1>8. ASSUME NEW f, Stays(f, e), Top.fn # "Parse"
      PROVE  /\ f.fn # "Parse"
             /\ f.at = "value" => f.fn \in Binders
             /\ f.fn = "if" /\ f.at = "find block" => ~f.clean
             /\ ~f.clean => ~stack'[1].clean
  BY <1>2, <1>6, <1>7, <1>8 DEF Stays
<1>9. Top.fn # "Parse"
  BY DEF Inner
<1>. DEFINE last == Len(stack')
<1>10. CASE Moved(e)
  <2>. DEFINE f == stack'[n]
  <2>1. last = n /\ Stays(f, e) /\ (f.fn = "block" => AtLine(f.at, cur', peek', before'))
    BY <1>10 DEF Moved, Pile
  <2>2. ASSUME NEW k \in 1 .. last PROVE PlaceOK(k, stack[k])'
    <3>1. CASE k = n
      <4>1. k # 1 /\ k = last
        BY <1>1, <2>1, <3>1
      <4>. QED
        BY <1>8, <1>9, <2>1, <3>1, <4>1 DEF PlaceOK
    <3>2. CASE k # n
      <4>1. k \in 1 .. n - 1 /\ k # last
        BY <1>1, <2>1, <3>2
      <4>. QED
        BY <1>5, <4>1 DEF PlaceOK
    <3>. QED
      BY <3>1, <3>2
  <2>. QED
    BY <1>3, <2>2 DEF Places
<1>11. CASE Called(e)
  <2>. DEFINE f == stack'[n]
              g == stack'[n + 1]
  <2>1. /\ last = n + 1 /\ Stays(f, e) /\ Starts(g) /\ <<f.fn, g.fn>> \in Calls
        /\ f.fn = "block" => f.at = "end"
    BY <1>11 DEF Called, Pile
  <2>2. g.fn # "Parse"
    BY <2>1 DEF Calls
  <2>3. /\ g.at # "value" /\ g.at # "find block" /\ g.clean
        /\ g.fn = "block" => AtLine(g.at, cur', peek', before')
    BY <2>1 DEF Starts, AtLine
  <2>4. ASSUME NEW k \in 1 .. last PROVE PlaceOK(k, stack[k])'
    <3>1. CASE k = n + 1
      <4>1. k # 1 /\ k = last
        BY <1>1, <2>1, <3>1
      <4>. QED
        BY <2>2, <2>3, <3>1, <4>1 DEF PlaceOK
    <3>2. CASE k = n
      <4>1. k # 1 /\ k # last
        BY <1>1, <2>1, <3>2
      <4>. QED
        BY <1>8, <1>9, <2>1, <3>2, <4>1 DEF PlaceOK
    <3>3. CASE k # n /\ k # n + 1
      <4>1. k \in 1 .. n - 1 /\ k # last
        BY <1>1, <2>1, <3>3
      <4>. QED
        BY <1>5, <4>1 DEF PlaceOK
    <3>. QED
      BY <3>1, <3>2, <3>3
  <2>. QED
    BY <1>3, <2>4 DEF Places
<1>12. CASE Became(e)
  <2>. DEFINE g == stack'[n]
  <2>1. last = n /\ g.fn = "expression" /\ g.at = "start" /\ g.clean
    BY <1>12 DEF Became, Pile
  <2>2. ASSUME NEW k \in 1 .. last PROVE PlaceOK(k, stack[k])'
    <3>1. CASE k = n
      <4>1. k # 1 /\ k = last
        BY <1>1, <2>1, <3>1
      <4>. QED
        BY <2>1, <3>1, <4>1 DEF PlaceOK
    <3>2. CASE k # n
      <4>1. k \in 1 .. n - 1 /\ k # last
        BY <1>1, <2>1, <3>2
      <4>. QED
        BY <1>5, <4>1 DEF PlaceOK
    <3>. QED
      BY <3>1, <3>2
  <2>. QED
    BY <1>3, <2>2 DEF Places
<1>13. CASE Returned(e)
  <2>1. last = n - 1
    BY <1>13 DEF Returned, Pile
  <2>2. ASSUME NEW k \in 1 .. last PROVE PlaceOK(k, stack[k])'
    <3>1. k \in 1 .. n - 1
      BY <2>1
    <3>2. stack'[k].fn = "block" => AtLine(stack'[k].at, cur', peek', before')
      BY <1>5, <3>1 DEF AtLine
    <3>3. (k = 1 <=> stack'[k].fn = "Parse") /\ (k = 1 => stack'[k].at = "declared")
      BY <1>5, <3>1
    <3>4. /\ stack'[k].at = "value" => stack'[k].fn \in Binders
          /\ stack'[k].fn = "if" /\ stack'[k].at = "find block" => ~stack'[k].clean
          /\ ~stack'[k].clean => ~stack'[1].clean
          /\ stack'[k].fn = "block" => stack'[k].at = "end"
      BY <1>5, <3>1
    <3>5. CASE k = last
      BY <3>2, <3>3, <3>4, <3>5 DEF PlaceOK
    <3>6. CASE k # last
      <4>1. k \in 1 .. n - 1 /\ k # last
        BY <3>1, <3>6
      <4>. QED
        BY <1>5, <4>1 DEF PlaceOK
    <3>. QED
      BY <3>5, <3>6
  <2>. QED
    BY <1>3, <2>2 DEF Places
<1>. QED
  BY <1>10, <1>11, <1>12, <1>13

-----------------------------------------------------------------------------
(* The steps of Parse *)

\* What Parse leaves behind: itself, and the declaration it has called.
Outward ==
    /\ stack' \in Seq(Activations) /\ (Len(stack') = 1 \/ Len(stack') = 2)
    /\ stack'[1].fn = "Parse" /\ stack'[1].at \in {"declaration", "declared", "sync"}
    /\ Len(stack') = 2 => /\ stack'[1].at = "declared" /\ stack'[1].clean
                          /\ stack'[2].fn \in Decls
                          /\ stack'[2].at = "start" /\ stack'[2].clean

\* Parse alone is one of these.
LEMMA SingleIs ==
    ASSUME NEW f \in Activations, f.fn = "Parse", stack' = <<f>>,
           f.at \in {"declaration", "declared", "sync"}
    PROVE  Outward /\ stack'[1] = f
BY DEF Outward

\* Parse goes on.
LEMMA GoParse ==
    ASSUME TypeOK, Places, Top.fn = "Parse",
           NEW at \in {"declaration", "declared", "sync"}, Go(at, FALSE, FALSE)
    PROVE  /\ Outward /\ stack'[1].at = at
           /\ UNCHANGED <<errors, broken, fnName, program>> /\ result' = ""
<1>1. Len(stack) = 1 /\ Top = stack[1] /\ at \in Points
  BY OuterLen DEF Points
<1>2. /\ Pile(1, FALSE) /\ Onward(stack'[1], FALSE, at)
      /\ AddDiag(FALSE) /\ broken' = (broken \/ FALSE)
      /\ UNCHANGED <<fnName, program>> /\ result' = ""
  BY <1>1, GoIs
<1>3. Outward /\ stack'[1].at = at
  <2>1. stack'[1].fn = "Parse" /\ stack'[1].at = at
    BY <1>2 DEF Onward
  <2>2. stack' \in Seq(Activations) /\ Len(stack') = 1
    BY <1>2 DEF Pile
  <2>. QED
    BY <2>1, <2>2 DEF Outward
<1>4. UNCHANGED <<errors, broken>>
  BY <1>2 DEF AddDiag, TypeOK
<1>. QED
  BY <1>2, <1>3, <1>4

\* A declaration, or an error and the rest of the line.
LEMMA BeginsDeclaration ==
    ASSUME stack' = <<[Frame("Parse", "declared") EXCEPT !.clean = DeclStarts]>>
                    \o (IF DeclStarts THEN <<Declaration(cur)>> ELSE << >>)
    PROVE  Outward /\ stack'[1].at = "declared" /\ stack'[1].clean = DeclStarts
<1>. DEFINE f == [Frame("Parse", "declared") EXCEPT !.clean = DeclStarts]
            g == Declaration(cur)
<1>0. DeclStarts \in BOOLEAN
  BY DEF DeclStarts
<1>1. /\ f \in Activations /\ f.fn = "Parse" /\ f.at = "declared" /\ f.clean = DeclStarts
  <2>1. "Parse" \in ParseFns /\ "declared" \in Points
    BY DEF ParseFns, Points
  <2>. QED
    BY <1>0, <2>1 DEF Frame, Activations
<1>2. g \in Activations /\ g.fn \in Decls /\ g.at = "start" /\ g.clean
  <2>1. Decls \subseteq ParseFns /\ "start" \in Points
    BY DEF Decls, ParseFns, Points
  <2>2. \E fn \in Decls : g = Frame(fn, "start")
    BY DEF Declaration, Decls
  <2>. QED
    BY <2>1, <2>2 DEF Frame, Activations
<1>. HIDE DEF f, g
<1>3. CASE DeclStarts
  <2>1. stack' = <<f>> \o <<g>>
    BY <1>3 DEF f, g
  <2>2. /\ <<f>> \in Seq(Activations) /\ Len(<<f>>) = 1 /\ <<f>>[1] = f
        /\ <<g>> \in Seq(Activations) /\ Len(<<g>>) = 1 /\ <<g>>[1] = g
    BY <1>1, <1>2
  <2>. DEFINE s == <<f>>
              t == <<g>>
  <2>. HIDE DEF s, t
  <2>3. /\ s \o t \in Seq(Activations) /\ Len(s \o t) = Len(s) + Len(t)
        /\ \A i \in 1 .. Len(s) + Len(t) : (s \o t)[i] =
              IF i <= Len(s) THEN s[i] ELSE t[i - Len(s)]
    BY <2>2, ConcatProperties DEF s, t
  <2>4. Len(s) = 1 /\ Len(t) = 1 /\ s[1] = f /\ t[1] = g /\ stack' = s \o t
    BY <2>1, <2>2 DEF s, t
  <2>5. 1 \in 1 .. 1 + 1 /\ 2 \in 1 .. 1 + 1
    OBVIOUS
  <2>6. /\ stack' \in Seq(Activations) /\ Len(stack') = 2
        /\ stack'[1] = f /\ stack'[2] = g
    BY <2>3, <2>4, <2>5
  <2>. QED
    BY <1>1, <1>2, <1>3, <2>6 DEF Outward
<1>4. CASE ~DeclStarts
  <2>1. stack' = <<f>>
    BY <1>4 DEF f
  <2>. QED
    BY <1>1, <2>1, SingleIs
<1>. QED
  BY <1>3, <1>4

\* The end of a declaration.
LEMMA EndsDeclaration ==
    ASSUME NEW ok \in BOOLEAN,
           stack' = <<Frame("Parse", IF ok THEN "declaration" ELSE "sync")>>
    PROVE  Outward /\ stack'[1].at = IF ok THEN "declaration" ELSE "sync"
<1>. DEFINE at == IF ok THEN "declaration" ELSE "sync"
            f == Frame("Parse", at)
<1>1. f \in Activations
  BY FramesType DEF ParseFns, Points
<1>2. f.fn = "Parse" /\ f.at = at
  BY FramesAre
<1>. QED
  BY <1>1, <1>2, SingleIs

\* Parse returns: the stack stays as it is.
LEMMA StaysOutward ==
    ASSUME TypeOK, Places, Top.fn = "Parse", UNCHANGED stack
    PROVE  Outward
<1>1. Len(stack) = 1 /\ stack \in Seq(Activations) /\ stack[1].fn = "Parse"
  BY OuterLen DEF TypeOK
<1>2. 1 \in 1 .. Len(stack)
  BY <1>1
<1>3. PlaceOK(1, stack[1])
  BY <1>2 DEF Places
<1>. QED
  BY <1>1, <1>3 DEF PlaceOK, Outward

\* What the steps of Parse have in common.
LEMMA OuterIs ==
    ASSUME TypeOK, Places, Outer
    PROVE  /\ Outward /\ Reads /\ Top = stack[1] /\ Len(stack) = 1
           /\ result' \in Results /\ errors' \in 0 .. MaxErrors
           /\ fnName' \in Idents \cup {""} /\ broken' \in BOOLEAN
           /\ program' \in [valid : BOOLEAN, Init : BOOLEAN, Run : BOOLEAN, done : BOOLEAN]
<1>. USE DEF Results
<1>1. Top.fn = "Parse"
  BY DEF Outer, NextDecl, DeclEnds, SyncToNewLine, In
<1>2. Top = stack[1] /\ Len(stack) = 1
  BY <1>1, OuterLen
<1>0. /\ result \in Results /\ errors \in 0 .. MaxErrors
      /\ fnName \in Idents \cup {""} /\ broken \in BOOLEAN
      /\ program \in [valid : BOOLEAN, Init : BOOLEAN, Run : BOOLEAN, done : BOOLEAN]
      /\ Top.clean \in BOOLEAN
  BY TopPlace DEF TypeOK
<1>3. ASSUME NEW at \in {"declaration", "declared", "sync"}, Go(at, FALSE, FALSE), NextToken
      PROVE  /\ Outward /\ Reads
             /\ result' = "" /\ UNCHANGED <<errors, broken, fnName, program>>
  BY <1>1, <1>3, GoParse DEF Reads
<1>4. CASE NextDecl
  <2>1. CASE cur = "NEWLINE" /\ NextToken /\ Go("declaration", FALSE, FALSE)
    BY <1>0, <1>2, <1>3, <2>1
  <2>2. CASE /\ stack' = <<[Frame("Parse", "declared") EXCEPT !.clean = DeclStarts]>>
                      \o (IF DeclStarts THEN <<Declaration(cur)>> ELSE << >>)
             /\ AddDiag(~DeclStarts)
             /\ fnName' = "" /\ broken' = ~DeclStarts
             /\ Stay /\ UNCHANGED <<result, program>>
    <3>1. Outward
      BY <2>2, BeginsDeclaration
    <3>2. errors' \in 0 .. MaxErrors
      BY <2>2, AddDiagIs
    <3>. QED
      BY <1>0, <1>2, <2>2, <3>1, <3>2 DEF Reads
  <2>3. CASE /\ program' = [program EXCEPT !.done = TRUE, !.valid = @ /\ ~MissingRun]
             /\ AddDiag(MissingRun)
             /\ Stay /\ UNCHANGED <<stack, result, fnName, broken>>
    <3>1. Outward
      BY <1>1, <2>3, StaysOutward
    <3>2. errors' \in 0 .. MaxErrors
      <4>1. MissingRun \in BOOLEAN
        BY DEF MissingRun
      <4>. QED
        BY <2>3, <4>1, AddDiagIs
    <3>3. program' \in [valid : BOOLEAN, Init : BOOLEAN, Run : BOOLEAN, done : BOOLEAN]
      BY <1>0, <2>3
    <3>. QED
      BY <1>0, <1>2, <2>3, <3>1, <3>2, <3>3 DEF Reads
  <2>. QED
    BY <1>4, <2>1, <2>2, <2>3 DEF NextDecl
<1>5. CASE DeclEnds
  <2>. DEFINE kept == Top.clean /\ ~Repeated
              err  == Top.clean /\ (Repeated \/ Stray)
              ok   == kept /\ ~Stray
              cap  == ~ok /\ errors + (IF err THEN 1 ELSE 0) >= MaxErrors
  <2>1. /\ AddDiag(err)
        /\ program' = [n \in DOMAIN program |->
                         IF n = "valid" THEN program.valid /\ ok
                         ELSE IF n = "done" THEN cap
                         ELSE program[n] \/ (kept /\ n = fnName)]
        /\ stack' = <<Frame("Parse", IF ok THEN "declaration" ELSE "sync")>>
        /\ IF ok THEN NextToken ELSE Stay
        /\ UNCHANGED <<result, fnName, broken>>
    BY <1>5 DEF DeclEnds
  <2>2. ok \in BOOLEAN /\ err \in BOOLEAN /\ kept \in BOOLEAN /\ cap \in BOOLEAN
    BY <1>0
  <2>. HIDE DEF ok, err, kept, cap
  <2>3. Outward
    BY <2>1, <2>2, EndsDeclaration
  <2>4. errors' \in 0 .. MaxErrors
    BY <2>1, <2>2, AddDiagIs
  <2>5. program' \in [valid : BOOLEAN, Init : BOOLEAN, Run : BOOLEAN, done : BOOLEAN]
    BY <1>0, <2>1, <2>2
  <2>6. Reads
    BY <2>1 DEF Reads
  <2>. QED
    BY <1>0, <1>2, <2>1, <2>3, <2>4, <2>5, <2>6
<1>6. CASE SyncToNewLine
  BY <1>0, <1>2, <1>3, <1>6 DEF SyncToNewLine
<1>. QED
  BY <1>4, <1>5, <1>6 DEF Outer

\* A step of Parse keeps the types;
LEMMA OuterTypes == ASSUME TypeOK, Places, Outer PROVE TypeOK'
<1>1. stack' # << >>
  <2>1. Len(stack') = 1 \/ Len(stack') = 2
    BY OuterIs, Zenon DEF Outward
  <2>. QED
    BY <2>1, EmptySeq
<1>. QED
  BY <1>1, OuterIs, ReadsTokens DEF TypeOK, Outward

\* and the places.
LEMMA OuterPlaces == ASSUME TypeOK, Places, Outer PROVE Places'
<1>1. Outward /\ Reads
  BY OuterIs
<1>2. cur' = "EOF" => peek' = "EOF"
  BY <1>1, ReadsTokens DEF Places
<1>3. ASSUME NEW k \in 1 .. Len(stack') PROVE PlaceOK(k, stack[k])'
  <2>0. Len(stack') = 1 \/ Len(stack') = 2
    BY <1>1, Zenon DEF Outward
  <2>1. k = 1 \/ (k = 2 /\ Len(stack') = 2)
    <3>. DEFINE n == Len(stack')
    <3>1. k \in 1 .. n /\ (n = 1 \/ n = 2)
      BY <2>0
    <3>. HIDE DEF n
    <3>2. k = 1 \/ (k = 2 /\ n = 2)
      BY <3>1
    <3>. QED
      BY <3>2 DEF n
  <2>2. CASE k = 1
    BY <1>1, <2>2 DEF Outward, PlaceOK
  <2>3. CASE k = 2 /\ Len(stack') = 2
    BY <1>1, <2>3 DEF Outward, PlaceOK, Decls
  <2>. QED
    BY <2>1, <2>2, <2>3
<1>. QED
  BY <1>2, <1>3 DEF Places

-----------------------------------------------------------------------------
(* The first activations, and a step that changes nothing *)

\* The first state.
LEMMA InitIs == ASSUME Init PROVE TypeOK /\ Places
<1>. DEFINE f == Frame("Parse", "declaration")
<1>1. f \in Activations
  BY FramesType DEF ParseFns, Points
<1>2. f.fn = "Parse" /\ f.at = "declaration" /\ f.clean
  BY FramesAre
<1>3. stack = <<f>>
  BY DEF Init
<1>. HIDE DEF f
<1>4. stack \in Seq(Activations) /\ stack # << >> /\ Len(stack) = 1 /\ stack[1] = f
  BY <1>1, <1>3
<1>5. PICK s, t \in Tokens :
          /\ s = "EOF" => t = "EOF"
          /\ cur = s /\ peek = t
          /\ brackets = DepthAfter(DepthAfter(0, s), t) /\ brackets <= MaxOpen
  BY DEF Init
<1>6. brackets \in Nat
  BY <1>5, DepthAfterIs
<1>7. MaxOpen \in Nat /\ MaxErrors \in Nat
  BY TokenAssumption
<1>8. brackets \in 0 .. MaxOpen
  BY <1>5, <1>6, <1>7
<1>9. 0 \in 0 .. MaxErrors
  BY <1>7
<1>10. TypeOK
  BY <1>2, <1>4, <1>5, <1>8, <1>9 DEF Init, TypeOK, Results
<1>11. Places
  <2>1. ASSUME NEW k \in 1 .. Len(stack) PROVE PlaceOK(k, stack[k])
    <3>1. k = 1
      BY <1>4
    <3>. QED
      BY <1>2, <1>4, <3>1 DEF PlaceOK
  <2>. QED
    BY <1>5, <2>1 DEF Places
<1>. QED
  BY <1>10, <1>11

\* A step that changes nothing.
LEMMA Unchanged == ASSUME TypeOK, Places, UNCHANGED vars PROVE TypeOK' /\ Places'
<1>. USE DEF vars, source, control
<1>1. TypeOK'
  BY DEF TypeOK
<1>2. Places'
  BY DEF Places, PlaceOK
<1>. QED
  BY <1>1, <1>2

\* Any step.
LEMMA NextIs == ASSUME TypeOK, Places, [Next]_vars PROVE Inner \/ Outer \/ UNCHANGED vars
BY StepIs DEF Next

\* The inductive invariant that the four results start from.
IInv == TypeOK /\ Places

\* It holds throughout.
LEMMA Invariant == Spec => []IInv
<1>1. Init => IInv
  BY InitIs DEF IInv
<1>2. IInv /\ [Next]_vars => IInv'
  BY NextIs, InnerTypes, InnerPlaces, OuterTypes, OuterPlaces, Unchanged DEF IInv
<1>. QED
  BY <1>1, <1>2, PTL DEF Spec

\* The variables of the parser stay what they are, an activation among the
\* functions and places there are.
THEOREM Typing == Spec => []TypeOK
BY Invariant, PTL DEF IInv

-----------------------------------------------------------------------------
(* The verdict, and what is kept *)

\* In an inner step Parse waits for the declaration it has called.
LEMMA InnerDeclared ==
    ASSUME TypeOK, Places, Inner
    PROVE  /\ stack[1].at = "declared" /\ stack'[1].at = "declared"
           /\ ~Top.clean => ~stack[1].clean
           /\ stack[1].clean \in BOOLEAN
           /\ \E e \in BOOLEAN : Notes(e) /\ stack'[1].clean = (stack[1].clean /\ ~e)
<1>. PICK e \in BOOLEAN : Notes(e) /\ (Moved(e) \/ Called(e) \/ Became(e) \/ Returned(e))
  BY DEF Inner
<1>1. stack'[1].at = stack[1].at /\ stack'[1].clean = (stack[1].clean /\ ~e)
  BY InnerPile DEF Inner
<1>2. Len(stack) \in Nat /\ Len(stack) > 1
  BY InnerLen DEF Inner
<1>3. 1 \in 1 .. Len(stack) /\ 1 # Len(stack) /\ Len(stack) \in 1 .. Len(stack)
  <2>. DEFINE n == Len(stack)
  <2>1. n \in Nat /\ n > 1
    BY <1>2
  <2>. HIDE DEF n
  <2>2. 1 \in 1 .. n /\ 1 # n /\ n \in 1 .. n
    BY <2>1
  <2>. QED
    BY <2>2 DEF n
<1>4. PlaceOK(1, stack[1]) /\ PlaceOK(Len(stack), Top)
  BY <1>3 DEF Places, Top
<1>5. stack[1].at = "declared" /\ (~Top.clean => ~stack[1].clean)
  BY <1>3, <1>4 DEF PlaceOK
<1>6. stack[1].clean \in BOOLEAN
  BY <1>3, TopIs DEF Activations
<1>. QED
  BY <1>1, <1>5, <1>6

\* The verdict: an error makes errCount positive and is noticed by Parse at once.
LEMMA VerdictInner == ASSUME TypeOK, Places, Verdict, Inner PROVE Verdict'
<1>. PICK e \in BOOLEAN : Notes(e) /\ stack'[1].clean = (stack[1].clean /\ ~e)
  BY InnerDeclared
<1>1. stack[1].at = "declared" /\ stack'[1].at = "declared" /\ stack[1].clean \in BOOLEAN
  BY InnerDeclared
<1>2. ~program.done /\ program' = program
  BY DEF Inner
<1>3. (errors' = 0) <=> (errors = 0 /\ ~e)
  BY AddDiagIs DEF Notes
<1>4. (errors = 0) <=> (program.valid /\ stack[1].clean)
  BY <1>1, <1>2 DEF Verdict
<1>5. (errors' = 0) <=> (program'.valid /\ stack'[1].clean)
  BY <1>2, <1>3, <1>4
<1>6. program'.valid \in BOOLEAN
  BY <1>2 DEF TypeOK
<1>. QED
  BY <1>1, <1>2, <1>5, <1>6 DEF Verdict

\* Parse takes what it noticed into valid, and reports what it finds out itself.
LEMMA VerdictOuter == ASSUME TypeOK, Places, Verdict, Outer PROVE Verdict'
<1>1. /\ program \in [valid : BOOLEAN, Init : BOOLEAN, Run : BOOLEAN, done : BOOLEAN]
      /\ errors \in 0 .. MaxErrors /\ MaxErrors \in Nat \ {0} /\ Top.clean \in BOOLEAN
  BY TopPlace, TokenAssumption DEF TypeOK
<1>2. Top = stack[1] /\ Top.fn = "Parse" /\ ~program.done
  BY OuterIs DEF Outer, NextDecl, DeclEnds, SyncToNewLine, In
<1>3. (errors = 0) <=> (program.valid /\ (Top.at = "declared" => Top.clean))
  BY <1>2 DEF Verdict
<1>4. ASSUME NEW at \in {"declaration", "declared", "sync"}, Go(at, FALSE, FALSE),
             at # "declared", Top.at # "declared"
      PROVE  Verdict'
  <2>1. stack'[1].at = at /\ UNCHANGED <<errors, program>>
    BY <1>2, <1>4, GoParse
  <2>2. (errors' = 0) = program'.valid
    BY <1>1, <1>3, <1>4, <2>1
  <2>. QED
    BY <1>1, <1>2, <1>4, <2>1, <2>2 DEF Verdict
<1>5. CASE NextDecl
  <2>0. Top.at = "declaration"
    BY <1>5 DEF NextDecl, In
  <2>1. CASE Go("declaration", FALSE, FALSE)
    BY <1>4, <2>0, <2>1
  <2>2. CASE /\ stack' = <<[Frame("Parse", "declared") EXCEPT !.clean = DeclStarts]>>
                      \o (IF DeclStarts THEN <<Declaration(cur)>> ELSE << >>)
             /\ AddDiag(~DeclStarts) /\ UNCHANGED program
    <3>1. stack'[1].at = "declared" /\ stack'[1].clean = DeclStarts
      BY <2>2, BeginsDeclaration
    <3>2. (errors' = 0) <=> (errors = 0 /\ DeclStarts)
      BY <2>2, AddDiagIs
    <3>3. (errors' = 0) <=> (program'.valid /\ stack'[1].clean)
      BY <1>3, <2>0, <2>2, <3>1, <3>2
    <3>4. stack'[1].clean \in BOOLEAN /\ program'.valid \in BOOLEAN
      BY <1>1, <2>2, <3>1 DEF DeclStarts
    <3>. QED
      BY <1>2, <2>2, <3>1, <3>3, <3>4 DEF Verdict
  <2>3. CASE /\ program' = [program EXCEPT !.done = TRUE, !.valid = @ /\ ~MissingRun]
             /\ AddDiag(MissingRun)
    <3>1. MissingRun \in BOOLEAN /\ (MissingRun <=> ~program.Run /\ errors = 0)
      BY DEF MissingRun
    <3>2. (errors' = 0) <=> (errors = 0 /\ ~MissingRun)
      BY <2>3, <3>1, AddDiagIs
    <3>3. /\ program'.done /\ program'.valid \in BOOLEAN /\ program'.Run = program.Run
          /\ program'.valid <=> (program.valid /\ ~MissingRun)
      BY <1>1, <2>3, <3>1
    <3>4. (errors = 0) <=> program.valid
      BY <1>3, <2>0
    <3>5. (errors' = 0) <=> program'.valid
      BY <3>2, <3>3, <3>4
    <3>6. program'.valid => program'.Run
      BY <1>1, <3>1, <3>3, <3>4
    <3>. QED
      BY <3>3, <3>5, <3>6 DEF Verdict
  <2>. QED
    BY <1>5, <2>1, <2>2, <2>3 DEF NextDecl
<1>6. CASE DeclEnds
  <2>. DEFINE kept == Top.clean /\ ~Repeated
              err  == Top.clean /\ (Repeated \/ Stray)
              ok   == kept /\ ~Stray
              sum  == errors + (IF err THEN 1 ELSE 0)
              cap  == ~ok /\ sum >= MaxErrors
  <2>1. /\ AddDiag(err)
        /\ program' = [n \in DOMAIN program |->
                         IF n = "valid" THEN program.valid /\ ok
                         ELSE IF n = "done" THEN cap
                         ELSE program[n] \/ (kept /\ n = fnName)]
        /\ stack' = <<Frame("Parse", IF ok THEN "declaration" ELSE "sync")>>
    BY <1>6 DEF DeclEnds
  <2>2. /\ ok \in BOOLEAN /\ err \in BOOLEAN /\ kept \in BOOLEAN /\ cap \in BOOLEAN
        /\ ok <=> Top.clean /\ ~err
        /\ errors = 0 /\ ~err => ~cap
    BY <1>1
  <2>3. (errors = 0) <=> (program.valid /\ Top.clean)
    BY <1>3, <1>6 DEF DeclEnds, In
  <2>. HIDE DEF ok, err, kept, cap
  <2>4. (errors' = 0) <=> (errors = 0 /\ ~err)
    BY <2>1, <2>2, AddDiagIs
  <2>5. /\ program'.valid <=> (program.valid /\ ok)
        /\ program'.done = cap /\ program'.valid \in BOOLEAN
    BY <1>1, <2>1, <2>2
  <2>6. (errors' = 0) <=> program'.valid
    BY <2>2, <2>3, <2>4, <2>5
  <2>7. stack'[1].at # "declared"
    BY <2>1, <2>2, EndsDeclaration
  <2>8. program'.done => ~program'.valid
    BY <2>2, <2>4, <2>5, <2>6
  <2>. QED
    BY <2>5, <2>6, <2>7, <2>8 DEF Verdict
<1>7. CASE SyncToNewLine
  BY <1>4, <1>7 DEF SyncToNewLine, In
<1>. QED
  BY <1>5, <1>6, <1>7 DEF Outer

\* The verdict of Parse: a program is valid if and only if no error has been
\* reported, and then it has a Run function - for a source of any length.
THEOREM ValidityIsCleanliness == Spec => []ValidIffClean
<1>1. Init => Verdict
  <2>. SUFFICES ASSUME Init PROVE Verdict
    OBVIOUS
  <2>1. stack = <<Frame("Parse", "declaration")>> /\ errors = 0
        /\ program = [valid |-> TRUE, Init |-> FALSE, Run |-> FALSE, done |-> FALSE]
    BY DEF Init
  <2>2. stack[1].at = "declaration"
    BY <2>1, FramesAre
  <2>. QED
    BY <2>1, <2>2 DEF Verdict
<1>2. IInv /\ Verdict /\ [Next]_vars => Verdict'
  <2>. SUFFICES ASSUME IInv, Verdict, [Next]_vars PROVE Verdict'
    OBVIOUS
  <2>1. TypeOK /\ Places
    BY DEF IInv
  <2>2. CASE UNCHANGED vars
    BY <2>2 DEF Verdict, vars, source, control
  <2>. QED
    BY <2>1, <2>2, NextIs, VerdictInner, VerdictOuter
<1>3. Verdict => ValidIffClean
  BY DEF Verdict, ValidIffClean
<1>. QED
  BY <1>1, <1>2, <1>3, Invariant, PTL DEF Spec

\* A part goes missing with an error, or under one.
LEMMA KeptInner == ASSUME TypeOK, Places, Kept, Inner PROVE Kept'
<1>. PICK e \in BOOLEAN : Notes(e) /\ stack'[1].clean = (stack[1].clean /\ ~e)
  BY InnerDeclared
<1>1. /\ stack[1].at = "declared" /\ stack[1].clean \in BOOLEAN
      /\ ~Top.clean => ~stack[1].clean
  BY InnerDeclared
<1>2. /\ broken' => broken \/ e \/ ~Top.clean
      /\ fnName' # fnName => e \/ fnName' \in {"", "Init", "Run"}
  BY DEF Notes
<1>3. ASSUME stack'[1].clean PROVE ~broken' /\ fnName' \in {"", "Init", "Run"}
  <2>1. stack[1].clean /\ ~e
    BY <1>1, <1>3
  <2>2. ~broken /\ fnName \in {"", "Init", "Run"}
    BY <1>1, <2>1 DEF Kept
  <2>. QED
    BY <1>1, <1>2, <2>1, <2>2
<1>. QED
  BY <1>3 DEF Kept

\* Parse begins each declaration whole, or with an error.
LEMMA KeptOuter == ASSUME TypeOK, Places, Kept, Outer PROVE Kept'
<1>2. Top.fn = "Parse"
  BY DEF Outer, NextDecl, DeclEnds, SyncToNewLine, In
<1>4. ASSUME NEW at \in {"declaration", "declared", "sync"}, Go(at, FALSE, FALSE),
             at # "declared"
      PROVE  Kept'
  <2>1. stack'[1].at = at
    BY <1>2, <1>4, GoParse
  <2>. QED
    BY <1>4, <2>1 DEF Kept
<1>5. CASE NextDecl
  <2>1. CASE Go("declaration", FALSE, FALSE)
    BY <1>4, <2>1
  <2>2. CASE /\ stack' = <<[Frame("Parse", "declared") EXCEPT !.clean = DeclStarts]>>
                      \o (IF DeclStarts THEN <<Declaration(cur)>> ELSE << >>)
             /\ fnName' = "" /\ broken' = ~DeclStarts
    <3>1. stack'[1].clean = DeclStarts
      BY <2>2, BeginsDeclaration
    <3>. QED
      BY <2>2, <3>1 DEF Kept
  <2>3. CASE UNCHANGED <<stack, fnName, broken>>
    BY <2>3 DEF Kept
  <2>. QED
    BY <1>5, <2>1, <2>2, <2>3 DEF NextDecl
<1>6. CASE DeclEnds
  <2>. DEFINE ok == Top.clean /\ ~Repeated /\ ~Stray
  <2>1. stack' = <<Frame("Parse", IF ok THEN "declaration" ELSE "sync")>>
    BY <1>6 DEF DeclEnds
  <2>2. ok \in BOOLEAN
    BY TopPlace
  <2>. HIDE DEF ok
  <2>3. stack'[1].at # "declared"
    BY <2>1, <2>2, EndsDeclaration
  <2>. QED
    BY <2>3 DEF Kept
<1>7. CASE SyncToNewLine
  BY <1>4, <1>7 DEF SyncToNewLine
<1>. QED
  BY <1>5, <1>6, <1>7 DEF Outer

\* What Parse keeps is whole: an error under a declaration reaches the activation
\* that drops it, and nothing goes missing without one.
THEOREM NothingKeptIsBroken == Spec => []KeptIsWhole
<1>1. Init => Kept
  <2>. SUFFICES ASSUME Init PROVE Kept
    OBVIOUS
  <2>1. stack = <<Frame("Parse", "declaration")>>
    BY DEF Init
  <2>2. stack[1].at = "declaration"
    BY <2>1, FramesAre
  <2>. QED
    BY <2>2 DEF Kept
<1>2. IInv /\ Kept /\ [Next]_vars => Kept'
  <2>. SUFFICES ASSUME IInv, Kept, [Next]_vars PROVE Kept'
    OBVIOUS
  <2>1. TypeOK /\ Places
    BY DEF IInv
  <2>2. CASE UNCHANGED vars
    BY <2>2 DEF Kept, vars, control
  <2>. QED
    BY <2>1, <2>2, NextIs, KeptInner, KeptOuter
<1>3. IInv /\ Kept => KeptIsWhole
  <2>. SUFFICES ASSUME IInv, Kept, In("Parse", "declared"), Top.clean
                PROVE  ~broken /\ fnName \in {"", "Init", "Run"}
    BY DEF KeptIsWhole
  <2>1. Top = stack[1]
    BY OuterLen DEF IInv, In
  <2>. QED
    BY <2>1 DEF Kept, In
<1>. QED
  BY <1>1, <1>2, <1>3, Invariant, PTL DEF Spec

\* Parse looks at a new line only.
LEMMA RecoveredOuter == ASSUME TypeOK, Places, Recovered, Outer PROVE Recovered'
<1>2. Top.fn = "Parse"
  BY DEF Outer, NextDecl, DeclEnds, SyncToNewLine, In
<1>4. ASSUME NEW at \in {"declaration", "declared", "sync"}, Go(at, FALSE, FALSE), NextToken,
             at = "declaration" => cur = "NEWLINE" \/ peek = "EOF"
      PROVE  Recovered'
  <2>1. stack'[1].at = at
    BY <1>2, <1>4, GoParse
  <2>2. cur' = peek /\ (cur = "NEWLINE" => before' = "NEWLINE")
    BY <1>4 DEF NextToken
  <2>. QED
    BY <1>4, <2>1, <2>2 DEF Recovered
<1>5. CASE NextDecl
  <2>1. CASE cur = "NEWLINE" /\ NextToken /\ Go("declaration", FALSE, FALSE)
    BY <1>4, <2>1
  <2>2. CASE stack' = <<[Frame("Parse", "declared") EXCEPT !.clean = DeclStarts]>>
                      \o (IF DeclStarts THEN <<Declaration(cur)>> ELSE << >>)
    <3>1. stack'[1].at = "declared"
      BY <2>2, BeginsDeclaration
    <3>. QED
      BY <3>1 DEF Recovered
  <2>3. CASE Stay /\ UNCHANGED stack
    BY <2>3 DEF Recovered, Stay, source
  <2>. QED
    BY <1>5, <2>1, <2>2, <2>3 DEF NextDecl
<1>6. CASE DeclEnds
  <2>. DEFINE ok == Top.clean /\ ~Repeated /\ ~Stray
  <2>1. /\ stack' = <<Frame("Parse", IF ok THEN "declaration" ELSE "sync")>>
        /\ ok => NextToken
    BY <1>6 DEF DeclEnds
  <2>2. ok \in BOOLEAN /\ (ok => ~Stray)
    BY TopPlace
  <2>. HIDE DEF ok
  <2>3. stack'[1].at = IF ok THEN "declaration" ELSE "sync"
    BY <2>1, <2>2, EndsDeclaration
  <2>4. ok => cur' \in {"NEWLINE", "EOF"}
    BY <2>1, <2>2 DEF Stray, NextToken
  <2>. QED
    BY <2>2, <2>3, <2>4 DEF Recovered
<1>7. CASE SyncToNewLine
  <2>1. CASE cur = "NEWLINE" \/ peek = "EOF"
    BY <1>4, <1>7, <2>1 DEF SyncToNewLine
  <2>2. CASE ~(cur = "NEWLINE" \/ peek = "EOF")
    BY <1>4, <1>7, <2>2 DEF SyncToNewLine
  <2>. QED
    BY <2>1, <2>2
<1>. QED
  BY <1>5, <1>6, <1>7 DEF Outer

\* Recovery gives up lines as a whole: after an error neither a declaration nor a
\* statement begins in the middle of one.
THEOREM RecoveryIsByLine == Spec => []RecoveryEndsAtLine
<1>1. Init => Recovered
  BY DEF Init, Recovered
<1>2. IInv /\ Recovered /\ [Next]_vars => Recovered'
  <2>. SUFFICES ASSUME IInv, Recovered, [Next]_vars PROVE Recovered'
    OBVIOUS
  <2>1. TypeOK /\ Places
    BY DEF IInv
  <2>2. CASE UNCHANGED vars
    BY <2>2 DEF Recovered, vars, control, source
  <2>3. CASE Inner
    <3>1. stack'[1].at = "declared"
      BY <2>1, <2>3, InnerDeclared
    <3>. QED
      BY <3>1 DEF Recovered
  <2>. QED
    BY <2>1, <2>2, <2>3, NextIs, RecoveredOuter
<1>3. IInv /\ Recovered => RecoveryEndsAtLine
  <2>. SUFFICES ASSUME IInv, Recovered PROVE RecoveryEndsAtLine
    OBVIOUS
  <2>1. In("Parse", "declaration") => Top = stack[1]
    BY OuterLen DEF IInv, In
  <2>2. In("block", "statement") => AtLine("statement", cur, peek, before)
    BY TopPlace DEF IInv, In
  <2>. QED
    BY <2>1, <2>2 DEF Recovered, RecoveryEndsAtLine, AtLine, In
<1>. QED
  BY <1>1, <1>2, <1>3, Invariant, PTL DEF Spec

-----------------------------------------------------------------------------
(* The depth of the recursion *)

\* A count is a number;
LEMMA CountedIs ==
    ASSUME NEW s, NEW k \in Nat
    PROVE  CountedTo(s, k) \in Nat
<1>. DEFINE S == {j \in 1 .. k : s[j].fn \in Counted}
<1>1. IsFiniteSet(1 .. k)
  BY FS_Interval
<1>2. IsFiniteSet(S)
  BY <1>1, FS_Subset
<1>. HIDE DEF S
<1>3. Cardinality(S) \in Nat
  BY <1>2, FS_CardinalityType
<1>. QED
  BY <1>3 DEF CountedTo, S

\* it grows by one at a counted activation;
LEMMA CountedNext ==
    ASSUME NEW s, NEW k \in Nat
    PROVE  CountedTo(s, k + 1) = CountedTo(s, k) + (IF s[k + 1].fn \in Counted THEN 1 ELSE 0)
<1>. DEFINE S == {j \in 1 .. k : s[j].fn \in Counted}
            T == {j \in 1 .. k + 1 : s[j].fn \in Counted}
<1>1. IsFiniteSet(S)
  <2>1. IsFiniteSet(1 .. k)
    BY FS_Interval
  <2>. QED
    BY <2>1, FS_Subset
<1>2. k + 1 \notin S
  OBVIOUS
<1>3. CASE s[k + 1].fn \in Counted
  <2>1. T = S \cup {k + 1}
    BY <1>3
  <2>. HIDE DEF S, T
  <2>2. Cardinality(T) = Cardinality(S) + 1
    BY <1>1, <1>2, <2>1, FS_AddElement
  <2>. QED
    BY <1>3, <2>2 DEF CountedTo, S, T
<1>4. CASE s[k + 1].fn \notin Counted
  <2>1. T = S
    BY <1>4
  <2>2. CountedTo(s, k + 1) = CountedTo(s, k)
    BY <2>1 DEF CountedTo
  <2>. QED
    BY <1>4, <2>2, CountedIs
<1>. QED
  BY <1>3, <1>4

\* it depends on the functions only;
LEMMA CountedSame ==
    ASSUME NEW s, NEW t, NEW k \in Nat, \A j \in 1 .. k : s[j].fn = t[j].fn
    PROVE  CountedTo(s, k) = CountedTo(t, k)
<1>1. {j \in 1 .. k : s[j].fn \in Counted} = {j \in 1 .. k : t[j].fn \in Counted}
  OBVIOUS
<1>. QED
  BY <1>1 DEF CountedTo

\* of nothing it is zero;
LEMMA CountedNone == ASSUME NEW s PROVE CountedTo(s, 0) = 0
<1>1. {j \in 1 .. 0 : s[j].fn \in Counted} = {}
  OBVIOUS
<1>. QED
  BY <1>1, FS_EmptySet DEF CountedTo

\* and of everything it is the nesting the parser compares with its limit.
LEMMA NestingIs == ASSUME TypeOK PROVE Nesting = CountedTo(stack, Len(stack))
<1>1. DOMAIN stack = 1 .. Len(stack)
  BY TopIs
<1>. QED
  BY <1>1 DEF Nesting, CountedTo, Counted

\* The slack is small.
LEMMA SlackType == \A fn : Slack(fn) \in 1 .. 4
BY DEF Slack

\* A call takes no more places than the depth it adds makes up for.
LEMMA CallsFit ==
    ASSUME NEW f, NEW g, <<f, g>> \in Calls
    PROVE  Slack(f) + 1 <= (IF g \in Counted THEN 2 ELSE 0) + Slack(g)
<1>. USE DEF Slack, Counted
<1>1. CASE f = "function" /\ g = "block"
  BY <1>1
<1>2. CASE f = "block" /\ g \in {"let", "assign", "if"}
  BY <1>2
<1>3. CASE f \in {"assign", "expression"} /\ g = "expression"
  BY <1>3
<1>4. CASE f = "if" /\ g \in {"expression", "block", "if"}
  BY <1>4
<1>. QED
  BY <1>1, <1>2, <1>3, <1>4 DEF Calls

\* Only an activation that looked at the depth calls another that counts.
LEMMA DepthsInner == ASSUME TypeOK, Places, Depths, Inner PROVE Depths'
<1>. PICK e \in BOOLEAN : Moved(e) \/ Called(e) \/ Became(e) \/ Returned(e)
  BY DEF Inner
<1>. DEFINE n == Len(stack)
            c == CountedTo(stack, n)
            last == Len(stack')
<1>1. n \in Nat /\ n > 1
  BY InnerLen DEF Inner
<1>2. MaxDepth \in Nat
  BY TokenAssumption
<1>3. \A k \in 1 .. n : stack[k] \in Activations /\ DepthOK(k)
  BY TopIs DEF Depths
<1>4. \A k \in 1 .. n - 1 : stack'[k] = Dimmed(stack[k], e)
  BY InnerPile DEF Inner, Below
<1>5. \A k \in 1 .. n - 1 : stack'[k].fn = stack[k].fn
  <2>. SUFFICES ASSUME NEW k \in 1 .. n - 1 PROVE stack'[k].fn = stack[k].fn
    OBVIOUS
  <2>1. k \in 1 .. n
    BY <1>1
  <2>. QED
    BY <1>3, <1>4, <2>1 DEF Dimmed, Activations
\* Lower activations are as deep as they were.
<1>6. ASSUME NEW k \in 1 .. n - 1 PROVE DepthOK(k)'
  <2>1. k \in Nat /\ k \in 1 .. n /\ k # n /\ 1 .. k \subseteq 1 .. n - 1
    BY <1>1
  <2>2. CountedTo(stack', k) = CountedTo(stack, k)
    BY <1>5, <2>1, CountedSame
  <2>3. DepthOK(k)
    BY <1>3, <2>1
  <2>4. k <= 2 * CountedTo(stack, k) + Slack(stack[k].fn) /\ CountedTo(stack, k) <= MaxDepth
    BY <2>1, <2>3 DEF DepthOK
  <2>5. stack'[k].fn = stack[k].fn
    BY <1>5
  <2>. QED
    BY <2>2, <2>4, <2>5 DEF DepthOK
<1>7. c \in Nat /\ DepthOK(n) /\ Slack(Top.fn) \in 1 .. 4
  BY <1>1, <1>3, CountedIs, SlackType
<1>8. n <= 2 * c + Slack(Top.fn)
  BY <1>7 DEF DepthOK, Top
<1>9. c <= MaxDepth \/ (Top.fn \in Counted /\ Top.at = "start")
  BY <1>7 DEF DepthOK, Top
<1>10. c = Nesting
  BY NestingIs
\* The one that goes on was not too deep.
<1>11. ASSUME Stays(stack'[n], e)
       PROVE  /\ stack'[n].fn = Top.fn /\ c <= MaxDepth
              /\ CountedTo(stack', n) = c /\ \A k \in {n} : DepthOK(k)'
  <2>1. stack'[n].fn = Top.fn
    BY <1>11 DEF Stays
  <2>2. c <= MaxDepth
    <3>1. CASE Top.fn \in Counted /\ Top.at = "start"
      <4>1. ~TooDeep
        BY <1>11, <2>1, <3>1 DEF Stays
      <4>. HIDE DEF c
      <4>. QED
        BY <1>2, <1>7, <1>10, <4>1 DEF TooDeep
    <3>. QED
      BY <1>9, <3>1
  <2>3. \A j \in 1 .. n : stack'[j].fn = stack[j].fn
    <3>. SUFFICES ASSUME NEW j \in 1 .. n PROVE stack'[j].fn = stack[j].fn
      OBVIOUS
    <3>1. CASE j = n
      BY <2>1, <3>1 DEF Top
    <3>2. CASE j # n
      <4>1. j \in 1 .. n - 1
        BY <1>1, <3>2
      <4>. QED
        BY <1>5, <4>1
    <3>. QED
      BY <3>1, <3>2
  <2>4. CountedTo(stack', n) = c
    BY <1>1, <2>3, CountedSame
  <2>5. n <= 2 * CountedTo(stack', n) + Slack(stack'[n].fn)
    BY <1>8, <2>1, <2>4
  <2>6. ASSUME NEW k \in {n} PROVE DepthOK(k)'
    <3>1. k = n
      OBVIOUS
    <3>. QED
      BY <2>2, <2>4, <2>5, <3>1 DEF DepthOK
  <2>. QED
    BY <2>1, <2>2, <2>4, <2>6
<1>12. CASE Moved(e)
  <2>1. last = n /\ Stays(stack'[n], e)
    BY <1>12 DEF Moved, Pile
  <2>2. ASSUME NEW k \in 1 .. last PROVE DepthOK(k)'
    <3>1. CASE k = n
      BY <1>11, <2>1, <3>1
    <3>2. CASE k # n
      <4>1. k \in 1 .. n - 1
        BY <1>1, <2>1, <3>2
      <4>. QED
        BY <1>6, <4>1
    <3>. QED
      BY <3>1, <3>2
  <2>. QED
    BY <2>2 DEF Depths
<1>13. CASE Called(e)
  <2>. DEFINE f == stack'[n]
              g == stack'[n + 1]
              d == CountedTo(stack', n + 1)
  <2>1. last = n + 1 /\ Stays(f, e) /\ Starts(g) /\ <<f.fn, g.fn>> \in Calls
    BY <1>13 DEF Called, Pile
  <2>2. f.fn = Top.fn /\ c <= MaxDepth /\ CountedTo(stack', n) = c /\ \A k \in {n} : DepthOK(k)'
    BY <1>11, <2>1
  <2>3. d = c + (IF g.fn \in Counted THEN 1 ELSE 0)
    BY <1>1, <2>2, CountedNext
  <2>4. Slack(Top.fn) + 1 <= (IF g.fn \in Counted THEN 2 ELSE 0) + Slack(g.fn)
    BY <2>1, <2>2, CallsFit
  <2>5. g.fn \in Counted => g.at = "start"
    BY <2>1 DEF Starts, Counted
  <2>6. ASSUME NEW k \in {n + 1} PROVE DepthOK(k)'
    <3>1. Slack(g.fn) \in 1 .. 4
      BY SlackType
    <3>2. n + 1 <= 2 * d + Slack(g.fn)
      <4>. DEFINE a == Slack(Top.fn)
                  b == Slack(g.fn)
      <4>1. n \in Nat /\ c \in Nat /\ a \in Nat /\ b \in Nat
        BY <1>1, <1>7, <3>1
      <4>2. n <= 2 * c + a
        BY <1>8
      <4>. HIDE DEF a, b, c, d, n
      <4>3. CASE g.fn \in Counted
        <5>1. d = c + 1 /\ a + 1 <= 2 + b
          BY <2>3, <2>4, <4>3 DEF a, b
        <5>2. n + 1 <= 2 * d + b
          BY <4>1, <4>2, <5>1
        <5>. QED
          BY <5>2 DEF b
      <4>4. CASE g.fn \notin Counted
        <5>1. d = c + 0 /\ a + 1 <= 0 + b
          BY <2>3, <2>4, <4>4 DEF a, b
        <5>2. n + 1 <= 2 * d + b
          BY <4>1, <4>2, <5>1
        <5>. QED
          BY <5>2 DEF b
      <4>. QED
        BY <4>3, <4>4
    <3>3. d <= MaxDepth \/ (d = MaxDepth + 1 /\ g.fn \in Counted)
      <4>. HIDE DEF c, d, n
      <4>1. CASE g.fn \in Counted
        BY <1>2, <1>7, <2>2, <2>3, <4>1
      <4>2. CASE g.fn \notin Counted
        BY <1>2, <1>7, <2>2, <2>3, <4>2
      <4>. QED
        BY <4>1, <4>2
    <3>4. k = n + 1
      OBVIOUS
    <3>. QED
      BY <2>1, <2>5, <3>2, <3>3, <3>4 DEF DepthOK
  <2>7. ASSUME NEW k \in 1 .. last PROVE DepthOK(k)'
    <3>1. CASE k = n + 1
      BY <2>6, <3>1
    <3>2. CASE k = n
      BY <2>2, <3>2
    <3>3. CASE k # n /\ k # n + 1
      <4>1. k \in 1 .. n - 1
        BY <1>1, <2>1, <3>3
      <4>. QED
        BY <1>6, <4>1
    <3>. QED
      BY <3>1, <3>2, <3>3
  <2>. QED
    BY <2>7 DEF Depths
<1>14. CASE Became(e)
  <2>. DEFINE g == stack'[n]
              d == CountedTo(stack', n)
  <2>1. last = n /\ Top.fn \in Binders /\ g.fn = "expression" /\ g.at = "start"
    BY <1>14 DEF Became, Pile
  <2>2. Top.fn \notin Counted /\ g.fn \in Counted
    BY <2>1 DEF Binders, Counted
  <2>3. n - 1 \in Nat /\ n - 1 + 1 = n
    BY <1>1
  <2>4. CountedTo(stack', n - 1) = CountedTo(stack, n - 1)
    BY <1>5, <2>3, CountedSame
  <2>5. c = CountedTo(stack, n - 1) + 0
    <3>1. CountedTo(stack, n - 1 + 1) = CountedTo(stack, n - 1)
             + (IF stack[n - 1 + 1].fn \in Counted THEN 1 ELSE 0)
      BY <2>3, CountedNext
    <3>. QED
      BY <2>2, <2>3, <3>1 DEF Top
  <2>6. d = CountedTo(stack', n - 1) + 1
    <3>1. CountedTo(stack', n - 1 + 1) = CountedTo(stack', n - 1)
             + (IF stack'[n - 1 + 1].fn \in Counted THEN 1 ELSE 0)
      BY <2>3, CountedNext
    <3>. QED
      BY <2>2, <2>3, <3>1
  <2>7. d = c + 1
    BY <2>3, <2>4, <2>5, <2>6, CountedIs
  <2>8. ASSUME NEW k \in {n} PROVE DepthOK(k)'
    <3>1. c <= MaxDepth
      BY <1>9, <2>2
    <3>2. Slack(g.fn) = 3
      BY <2>1 DEF Slack
    <3>. HIDE DEF c, d
    <3>3. n <= 2 * d + Slack(g.fn) /\ (d <= MaxDepth \/ d = MaxDepth + 1)
      BY <1>1, <1>2, <1>7, <1>8, <2>7, <3>1, <3>2
    <3>4. k = n
      OBVIOUS
    <3>. QED
      BY <2>1, <2>2, <3>3, <3>4 DEF DepthOK, d
  <2>9. ASSUME NEW k \in 1 .. last PROVE DepthOK(k)'
    <3>1. CASE k = n
      BY <2>8, <3>1
    <3>2. CASE k # n
      <4>1. k \in 1 .. n - 1
        BY <1>1, <2>1, <3>2
      <4>. QED
        BY <1>6, <4>1
    <3>. QED
      BY <3>1, <3>2
  <2>. QED
    BY <2>9 DEF Depths
<1>15. CASE Returned(e)
  <2>1. last = n - 1
    BY <1>15 DEF Returned, Pile
  <2>. QED
    BY <1>6, <2>1 DEF Depths
<1>. QED
  BY <1>12, <1>13, <1>14, <1>15

\* Nothing that Parse calls is counted.
LEMMA DepthsOuter == ASSUME TypeOK, Places, Outer PROVE Depths'
<1>1. Outward /\ MaxDepth \in Nat
  BY OuterIs, TokenAssumption
<1>2. stack'[1].fn = "Parse" /\ "Parse" \notin Counted /\ Decls \cap Counted = {}
  BY <1>1 DEF Outward, Counted, Decls
<1>3. CountedTo(stack', 1) = 0
  <2>1. CountedTo(stack', 0 + 1)
          = CountedTo(stack', 0) + (IF stack'[0 + 1].fn \in Counted THEN 1 ELSE 0)
    BY CountedNext
  <2>. QED
    BY <1>2, <2>1, CountedNone
<1>4. DepthOK(1)'
  BY <1>1, <1>2, <1>3 DEF DepthOK, Slack
<1>5. CASE Len(stack') = 1
  BY <1>4, <1>5 DEF Depths
<1>6. CASE Len(stack') = 2
  <2>1. stack'[2].fn \in Decls
    BY <1>1, <1>6 DEF Outward
  <2>2. CountedTo(stack', 1 + 1)
          = CountedTo(stack', 1) + (IF stack'[1 + 1].fn \in Counted THEN 1 ELSE 0)
    BY CountedNext
  <2>3. CountedTo(stack', 2) = 0
    BY <1>2, <1>3, <2>1, <2>2
  <2>4. Slack(stack'[2].fn) = 2
    BY <2>1 DEF Slack, Decls
  <2>5. DepthOK(2)'
    BY <1>1, <2>3, <2>4 DEF DepthOK
  <2>6. ASSUME NEW k \in 1 .. 2 PROVE DepthOK(k)'
    <3>1. k = 1 \/ k = 2
      OBVIOUS
    <3>. QED
      BY <1>4, <2>5, <3>1
  <2>. QED
    BY <1>6, <2>6 DEF Depths
<1>. QED
  BY <1>1, <1>5, <1>6, Zenon DEF Outward

\* The recursion of the parser is bounded by its nesting limit, however long the
\* source is and however deep it nests.
THEOREM RecursionIsBounded == Spec => []RecursionBounded
<1>1. Init => Depths
  <2>. SUFFICES ASSUME Init PROVE Depths
    OBVIOUS
  <2>1. stack = <<Frame("Parse", "declaration")>> /\ MaxDepth \in Nat
    BY TokenAssumption DEF Init
  <2>2. Len(stack) = 1 /\ stack[1].fn = "Parse"
    BY <2>1, FramesAre
  <2>3. CountedTo(stack, 0 + 1)
          = CountedTo(stack, 0) + (IF stack[0 + 1].fn \in Counted THEN 1 ELSE 0)
    BY CountedNext
  <2>4. CountedTo(stack, 1) = 0
    BY <2>2, <2>3, CountedNone DEF Counted
  <2>5. DepthOK(1)
    BY <2>1, <2>2, <2>4 DEF DepthOK, Slack
  <2>. QED
    BY <2>2, <2>5 DEF Depths
<1>2. IInv /\ Depths /\ [Next]_vars => Depths'
  <2>. SUFFICES ASSUME IInv, Depths, [Next]_vars PROVE Depths'
    OBVIOUS
  <2>1. TypeOK /\ Places
    BY DEF IInv
  <2>2. CASE UNCHANGED vars
    BY <2>2 DEF Depths, DepthOK, vars, control
  <2>. QED
    BY <2>1, <2>2, NextIs, DepthsInner, DepthsOuter
<1>3. IInv /\ Depths => RecursionBounded
  <2>. SUFFICES ASSUME IInv, Depths PROVE Len(stack) <= 2 * MaxDepth + 5
    BY DEF RecursionBounded
  <2>. DEFINE n == Len(stack)
              c == CountedTo(stack, n)
  <2>1. n \in Nat \ {0} /\ MaxDepth \in Nat
    BY TopIs, TokenAssumption DEF IInv
  <2>2. DepthOK(n)
    <3>1. n \in 1 .. n
      BY <2>1
    <3>. QED
      BY <3>1 DEF Depths
  <2>3. c \in Nat /\ Slack(Top.fn) \in 1 .. 4
    BY <2>1, CountedIs, SlackType
  <2>4. /\ n <= 2 * c + Slack(Top.fn)
        /\ c <= MaxDepth \/ (c = MaxDepth + 1 /\ Top.fn \in Counted)
    BY <2>2 DEF DepthOK, Top
  <2>5. Top.fn \in Counted => Slack(Top.fn) <= 3
    BY DEF Counted, Slack
  <2>. HIDE DEF n, c
  <2>6. n <= 2 * MaxDepth + 5
    BY <2>1, <2>3, <2>4, <2>5
  <2>. QED
    BY <2>6 DEF n
<1>. QED
  BY <1>1, <1>2, <1>3, Invariant, PTL DEF Spec
=============================================================================
