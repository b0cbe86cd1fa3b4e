---------------------------- MODULE Resolver_proofs ----------------------------
(***************************************************************************)
(* What name resolution guarantees of every script, for every registry and *)
(* every set of rules.                                                     *)
(*                                                                         *)
(* There are two kinds of steps.  Resolves(n): the last n items on the     *)
(* stack become one; the environments stay.  Turns: a declaration or a     *)
(* statement begins or ends; then the environments change in at most one   *)
(* of two ways, Reshapes(n) (the n outermost scopes stay, with perhaps an  *)
(* empty one on top) and Binds(s, b) (the innermost scope binds a symbol   *)
(* that no scope has bound).  One lemma per action says of which kind it   *)
(* is, and the invariant is kept by the two kinds.                         *)
(*                                                                         *)
(* BindingsOK is why an accepted program does not panic: it says of a      *)
(* binding where the evaluator will have a variable of that name, scope by *)
(* scope.  ItemOK says of an operand that what is wrong with it was        *)
(* reported, and CallOK that the arguments which had a parameter had one   *)
(* each, so that their number decides whether one is missing.              *)
(***************************************************************************)
EXTENDS Resolver, SequenceTheorems, FiniteSetTheorems, WellFoundedInduction, TLAPS

-----------------------------------------------------------------------------
(* The inductive invariant *)

\* A scope: the bindings of some symbols.
Scope == UNION {[D -> Binding] : D \in SUBSET Symbol}

\* What waits on the stack.
Item  == Operand \cup OpenCall

\* The types; scope by scope, TypeOK says the same.
Typed ==
    /\ todo \in Seq(Decl) /\ declared \in SUBSET Symbol
    /\ fn \in {"", "Init", "Run", "done"}
    /\ scopes \in Seq(Scope)
    /\ slotCount \in Nat
    /\ stmt \in Statement
    /\ work \in Seq(Item)
    /\ failed \in BOOLEAN
    /\ live \in Seq(SUBSET Ident)
    /\ crash \in SUBSET Panic

\* The two environments go together, scope by scope.
Levels ==
    /\ Len(live) = Len(scopes) /\ Len(scopes) > 0
    /\ fn = "" => Len(scopes) = 1
    /\ fn \in {"Init", "Run"} => Len(scopes) > 1

\* What a binding under the symbol s in the k-th scope tells about the evaluator.
BindingOK(k, s, b) ==
    /\ b.kind \in {"let", "const"} => \E n \in live[k] : s = <<n>>
    /\ b.kind = "module" => \A n \in Ident : s = <<n>> => n \in live[1]
    /\ b.kind = "input" => /\ k = 1 /\ \E n \in Ident : s = <<n>>
                           /\ fn = "Run" => \E n \in live[2] : s = <<n>>
    /\ b.kind = "slot" => b.slot # 0
    /\ b.assignable => b.kind = "let" \/ b.slot # 0
    /\ b.kind = "declaration keyword" => \E w \in DeclWords : s = <<w>>
    /\ ~failed => b.type # ErrorType

\* So it is for every binding of every scope.
BindingsOK == \A k \in 1 .. Len(scopes) : \A s \in DOMAIN scopes[k] : BindingOK(k, s, scopes[k][s])

\* An open call: every argument so far has a parameter of its own, or was refused.
CallOK(c) ==
    /\ Len(c.rest) <= Len(c.params) /\ c.seen \subseteq 1 .. Len(c.params)
    /\ c.ok => Cardinality(c.seen) + Len(c.rest) = Len(c.params)

\* What is wrong with an item was reported.
ItemOK(i) ==
    /\ ~failed => i.type # ErrorType /\ i.clean
    /\ i.tag = "call" => CallOK(i) /\ (~failed => i.ok)

\* A call under another item waits for that argument.
WorkOK ==
    /\ \A k \in 1 .. Len(work) : ItemOK(work[k])
    /\ \A k \in 1 .. Len(work) - 1 : work[k].tag = "call" => WantsArgument(work[k])

\* What was found out when the statement at hand began still holds.
StmtOK ==
    /\ stmt.kind = "decl" => /\ fn = "" /\ todo # << >> /\ stmt.decl = Head(todo)
                             /\ ~Taken(stmt.decl)
                             /\ stmt.decl.word \in {"const"} \cup DOMAIN Kinds
                             /\ stmt.decl.word \in DOMAIN Kinds /\ stmt.decl.type = "unknown" => failed
    /\ stmt.kind = "let" => fn \in {"Init", "Run"} /\ ~Bound(<<stmt.name>>)
    /\ stmt.kind = "let taken" => failed
    /\ stmt.kind \in {"let taken", "assign", "expression", "if", "emit"} => fn \in {"Init", "Run"}

\* No port without a type is left to resolve.
PortsTyped ==
    \A k \in 1 .. Len(todo) : todo[k].word \in {"input", "output"} => todo[k].type # "absent"

\* No type, and no module, has the name of a slot.
NoDots == \A t \in RegType, w \in DeclWords, n \in Ident : Spelling[t] # <<w, n>>

\* What is written like a slot is one.
QualifiedOK ==
    \A k \in 1 .. Len(scopes) : \A w \in DeclWords, n \in Ident :
        <<w, n>> \in DOMAIN scopes[k] => scopes[k][<<w, n>>].slot # 0

-----------------------------------------------------------------------------
(* Operands and open calls *)

\* An item is an operand or an open call.
LEMMA ItemIs ==
    ASSUME NEW i \in Item
    PROVE  /\ i.type \in TypeId /\ i.clean \in BOOLEAN /\ i.tag \in {"value", "call"}
           /\ i.tag = "value" => i \in Operand
           /\ i.tag = "call" => i \in OpenCall
BY DEF Item, Operand, OpenCall

\* The values of expressions are operands.
LEMMA ValueIs ==
    ASSUME NEW t \in TypeId, NEW clean \in BOOLEAN
    PROVE  /\ Value(t, clean) \in Item
           /\ Value(t, clean).type = t /\ Value(t, clean).tag = "value"
           /\ Value(t, clean).clean = clean
           /\ [Value(t, clean) EXCEPT !.module = TRUE] \in Item
           /\ [Value(t, clean) EXCEPT !.module = TRUE].type = t
           /\ [Value(t, clean) EXCEPT !.module = TRUE].tag = "value"
           /\ [Value(t, clean) EXCEPT !.module = TRUE].clean = clean
BY DEF Value, Item, Operand

\* The stack of items.
LEMMA WorkIs ==
    ASSUME Typed
    PROVE  /\ Len(work) \in Nat /\ DOMAIN work = 1 .. Len(work)
           /\ \A k \in 1 .. Len(work) : work[k] \in Item
           /\ work # << >> <=> Len(work) > 0
           /\ work # << >> => Top \in Item /\ Len(work) \in 1 .. Len(work)
           /\ Len(work) > 1 => Under \in Item /\ Len(work) - 1 \in 1 .. Len(work)
<1>1. work \in Seq(Item)
  BY DEF Typed
<1>2. /\ Len(work) \in Nat /\ DOMAIN work = 1 .. Len(work)
      /\ \A k \in 1 .. Len(work) : work[k] \in Item
      /\ work # << >> <=> Len(work) > 0
  BY <1>1, LenProperties, ElementOfSeq, EmptySeq
<1>. QED
  BY <1>2 DEF Top, Under

\* A set of numbers has a least one.
LEMMA LeastIs ==
    ASSUME NEW S \in SUBSET Nat, S # {}
    PROVE  \E n \in S : \A m \in S : n <= m
<1>. DEFINE R == {p \in Nat \X Nat : p[1] < p[2]}
<1>1. OpToRel(<, Nat) = R
  BY Zenon DEF OpToRel
<1>2. IsWellFoundedOn(R, Nat)
  BY <1>1, NatLessThanWellFounded, Zenon
<1>. HIDE DEF R
<1>3. \E x \in S : \A y \in S : ~(<<y, x>> \in R)
  BY <1>2, WFMin
<1>4. \A x, y \in Nat : ~(<<y, x>> \in R) => x <= y
  BY DEF R
<1>. QED
  BY <1>3, <1>4

\* The parameter of the next argument is one of the call's, or there is none.
LEMMA ParamAtIs ==
    ASSUME NEW c \in OpenCall, c.rest # << >>, Len(c.rest) <= Len(c.params)
    PROVE  ParamAt(c) \in 0 .. Len(c.params)
<1>. DEFINE named == {k \in DOMAIN c.params : c.params[k].name = Head(c.rest)}
            n == Len(c.params)
            m == Len(c.rest)
<1>1. c.params \in Seq(Param) /\ c.rest \in Seq(Field \cup {""})
  BY DEF OpenCall
<1>2. n \in Nat /\ DOMAIN c.params = 1 .. n /\ m \in Nat \ {0}
  BY <1>1, LenProperties, EmptySeq
<1>3. m <= n
  OBVIOUS
<1>4. CASE Head(c.rest) = ""
  <2>1. ParamAt(c) = n - m + 1
    BY <1>4 DEF ParamAt
  <2>. HIDE DEF n, m
  <2>2. n - m + 1 \in 0 .. n
    BY <1>2, <1>3
  <2>. QED
    BY <2>1, <2>2 DEF n
<1>5. CASE Head(c.rest) # "" /\ named = {}
  <2>1. ParamAt(c) = 0
    BY <1>5 DEF ParamAt
  <2>. HIDE DEF n
  <2>2. 0 \in 0 .. n
    BY <1>2
  <2>. QED
    BY <2>1, <2>2 DEF n
<1>6. CASE Head(c.rest) # "" /\ named # {}
  <2>. DEFINE least == CHOOSE k \in named : \A j \in named : k <= j
  <2>1. ParamAt(c) = least
    BY <1>6 DEF ParamAt
  <2>. HIDE DEF n
  <2>2. named \subseteq 0 .. n
    BY <1>2
  <2>3. named \in SUBSET Nat
    BY <1>2
  <2>. HIDE DEF named
  <2>4. \E k \in named : \A j \in named : k <= j
    BY <2>3, <1>6, LeastIs
  <2>5. least \in named
    BY <2>4
  <2>. HIDE DEF least
  <2>. QED
    BY <2>1, <2>2, <2>5 DEF n
<1>. QED
  BY <1>4, <1>5, <1>6

\* An operand that takes the place of an argument takes that of one without.
LEMMA ArgumentFits ==
    ASSUME NEW c \in OpenCall, CallOK(c), WantsArgument(c), NEW ok \in BOOLEAN, ok => c.ok,
           NEW clean \in BOOLEAN
    PROVE  LET d == [c EXCEPT !.rest = Tail(@), !.seen = @ \cup {ParamAt(c)},
                              !.ok = ok, !.clean = clean]
           IN d \in OpenCall /\ CallOK(d)
<1>. DEFINE d == [c EXCEPT !.rest = Tail(@), !.seen = @ \cup {ParamAt(c)},
                           !.ok = ok, !.clean = clean]
            n == Len(c.params)
            m == Len(c.rest)
            at == ParamAt(c)
            seen == c.seen
<1>1. /\ c.params \in Seq(Param) /\ c.rest \in Seq(Field \cup {""}) /\ c.rest # << >>
      /\ seen \in SUBSET Nat /\ c.ok \in BOOLEAN
  BY DEF OpenCall, WantsArgument
<1>2. Tail(c.rest) \in Seq(Field \cup {""}) /\ Len(Tail(c.rest)) = m - 1
  BY <1>1, HeadTailProperties
<1>n. n \in Nat /\ m \in Nat \ {0}
  BY <1>1, LenProperties, EmptySeq
<1>3. m <= n /\ seen \subseteq 1 .. n /\ (c.ok => Cardinality(seen) + m = n)
  BY DEF CallOK
<1>4. at \in 0 .. n /\ at # 0 /\ at \notin seen
  BY <1>1, <1>3, ParamAtIs DEF WantsArgument, UselessKeyword
<1>5. /\ d.params = c.params /\ d.rest = Tail(c.rest) /\ d.seen = seen \cup {at}
      /\ d.ok = ok
  BY DEF OpenCall
<1>6. at \in 1 .. n
  <2>. HIDE DEF n, at
  <2>. QED
    BY <1>n, <1>4
<1>7. IsFiniteSet(seen) /\ Cardinality(seen) \in Nat
  <2>. HIDE DEF n, seen
  <2>1. IsFiniteSet(1 .. n)
    BY <1>n, FS_Interval
  <2>2. IsFiniteSet(seen)
    BY <1>3, <2>1, FS_Subset
  <2>. QED
    BY <2>2, FS_CardinalityType
<1>8. Cardinality(seen \cup {at}) = Cardinality(seen) + 1
  <2>. HIDE DEF at, seen
  <2>. QED
    BY <1>7, <1>4, FS_AddElement
<1>9. d \in OpenCall
  <2>1. seen \cup {at} \in SUBSET Nat
    <3>1. seen \in SUBSET Nat
      BY <1>1
    <3>. HIDE DEF n, at, seen
    <3>. QED
      BY <3>1, <1>n, <1>6
  <2>. QED
    BY <1>1, <1>2, <2>1 DEF OpenCall
<1>. HIDE DEF d
<1>l. Len(d.rest) = m - 1 /\ d.seen = seen \cup {at}
  BY <1>2, <1>5
<1>o. d.ok => c.ok
  BY <1>5
<1>10. CallOK(d)
  <2>1. Len(d.rest) <= n /\ d.seen \subseteq 1 .. n
    <3>. HIDE DEF n, m, at, seen
    <3>. QED
      BY <1>l, <1>n, <1>3, <1>6
  <2>2. d.ok => Cardinality(d.seen) + Len(d.rest) = n
    <3>. HIDE DEF n, m, at, seen
    <3>. QED
      BY <1>l, <1>o, <1>n, <1>3, <1>7, <1>8
  <2>. QED
    BY <2>1, <2>2, <1>5 DEF CallOK
<1>. QED
  BY <1>9, <1>10 DEF d

\* An argument that is refused leaves the call without one.
LEMMA ArgumentRefused ==
    ASSUME NEW c \in OpenCall, CallOK(c), c.rest # << >>
    PROVE  LET d == [c EXCEPT !.rest = Tail(@), !.ok = FALSE, !.clean = FALSE]
           IN d \in OpenCall /\ CallOK(d) /\ d.tag = "call" /\ d.ok = FALSE
<1>. DEFINE d == [c EXCEPT !.rest = Tail(@), !.ok = FALSE, !.clean = FALSE]
            n == Len(c.params)
            m == Len(c.rest)
<1>1. c.params \in Seq(Param) /\ c.rest \in Seq(Field \cup {""})
  BY DEF OpenCall
<1>2. Tail(c.rest) \in Seq(Field \cup {""}) /\ Len(Tail(c.rest)) = m - 1
  BY <1>1, HeadTailProperties
<1>n. n \in Nat /\ m \in Nat \ {0}
  BY <1>1, LenProperties, EmptySeq
<1>3. m <= n /\ c.seen \subseteq 1 .. n
  BY DEF CallOK
<1>4. /\ d.params = c.params /\ d.rest = Tail(c.rest) /\ d.seen = c.seen
      /\ d.ok = FALSE /\ d.tag = "call" /\ d \in OpenCall
  BY <1>1, <1>2 DEF OpenCall
<1>. HIDE DEF d
<1>5. Len(d.rest) <= n
  <2>1. Len(d.rest) = m - 1
    BY <1>2, <1>4
  <2>. HIDE DEF n, m
  <2>. QED
    BY <2>1, <1>n, <1>3
<1>6. CallOK(d)
  BY <1>3, <1>4, <1>5 DEF CallOK
<1>. QED
  BY <1>4, <1>6 DEF d

\* Counting is enough: a call that has all its arguments has one for each
\* parameter, unless one was refused.
LEMMA CountingIsEnough ==
    ASSUME NEW c \in OpenCall, CallOK(c), c.ok, c.rest = << >>
    PROVE  Unfilled(c) = {}
<1>1. c.params \in Seq(Param)
  BY DEF OpenCall
<1>2. Len(c.params) \in Nat /\ DOMAIN c.params = 1 .. Len(c.params) /\ Len(c.rest) = 0
  BY <1>1, LenProperties
<1>3. c.seen \subseteq 1 .. Len(c.params) /\ Cardinality(c.seen) + Len(c.rest) = Len(c.params)
  BY DEF CallOK
<1>4. IsFiniteSet(1 .. Len(c.params)) /\ Cardinality(1 .. Len(c.params)) = Len(c.params)
  <2>1. 1 <= Len(c.params) \/ Len(c.params) = 0
    BY <1>2
  <2>. QED
    BY <2>1, <1>2, FS_Interval
<1>5. IsFiniteSet(c.seen) /\ Cardinality(c.seen) \in Nat
  BY <1>3, <1>4, FS_Subset, FS_CardinalityType
<1>6. Cardinality(c.seen) = Cardinality(1 .. Len(c.params))
  BY <1>2, <1>3, <1>4, <1>5
<1>7. c.seen = 1 .. Len(c.params)
  BY <1>3, <1>4, <1>6, FS_Subset
<1>. QED
  BY <1>7, <1>2 DEF Unfilled

\* A call that was opened with as many arguments as it has parameters.
LEMMA CallIs ==
    ASSUME NEW rule, rule.params \in Seq(Param), rule.type \in TypeId, NEW args \in ArgLists,
           NEW clean \in BOOLEAN, Len(args) = Len(rule.params)
    PROVE  LET c == Call(rule, args, clean) IN
           /\ c \in Item /\ c.tag = "call" /\ CallOK(c) /\ c.ok
           /\ c.type = rule.type /\ c.clean = clean
<1>. DEFINE c == Call(rule, args, clean)
<1>1. args \in Seq(Field \cup {""})
  BY RuleAssumption
<1>2. /\ c.params = rule.params /\ c.rest = args /\ c.seen = {} /\ c.ok = TRUE
      /\ c.tag = "call" /\ c.type = rule.type /\ c.clean = clean /\ c \in OpenCall
  BY <1>1 DEF Call, OpenCall
<1>3. Cardinality({}) = 0 /\ Len(args) \in Nat /\ Len(rule.params) \in Nat
  BY <1>1, FS_EmptySet, LenProperties
<1>. HIDE DEF c
<1>4. CallOK(c)
  BY <1>2, <1>3 DEF CallOK
<1>. QED
  BY <1>2, <1>4 DEF Item, c

-----------------------------------------------------------------------------
(* The steps that resolve an expression *)

\* What is known before every step of the operands at hand, and of the names.
Known == Typed /\ Levels /\ NoShadowing /\ BindingsOK /\ WorkOK

\* The last n items become one, that is all right unless it was reported.
Resolves(n) ==
    /\ n <= Len(work)
    /\ work' \in Seq(Item) /\ Len(work') = Len(work) - n + 1
    /\ \A k \in 1 .. Len(work) - n : work'[k] = work[k]
    /\ LET i == work'[Len(work) - n + 1] IN
       /\ ~failed' => i.type # ErrorType /\ i.clean
       /\ i.tag = "call" => CallOK(i) /\ (~failed' => i.ok)
    /\ n = 0 /\ work # << >> /\ Top.tag = "call" => WantsArgument(Top)
    /\ UNCHANGED <<position, env, stmt>>
    /\ failed' = (failed \/ report' # {})
    /\ crash' \in SUBSET Panic
    /\ NoDots /\ QualifiedOK /\ crash = {} /\ ~failed' => crash' = {}
    /\ \A d \in report' : d[1] = "ARG_MISSING" => ~Top.ok
    /\ n > 0 /\ report' # {} /\ IsValue(Len(work)) =>
          \E k \in Len(work) - n + 1 .. Len(work) : IsValue(k) /\ work[k].type # ErrorType

\* The stack after Reduce.
LEMMA ReduceIs ==
    ASSUME Typed, NEW n \in 0 .. 2, n <= Len(work), NEW item \in Item, NEW codes, NEW what,
           Reduce(n, item, codes, what)
    PROVE  /\ work' \in Seq(Item) /\ Len(work') = Len(work) - n + 1
           /\ \A k \in 1 .. Len(work) - n : work'[k] = work[k]
           /\ work'[Len(work) - n + 1] = item
<1>. DEFINE l == Len(work)
            s == SubSeq(work, 1, l - n)
<1>1. l \in Nat /\ \A k \in 1 .. l : work[k] \in Item
  BY WorkIs
<1>2. l - n \in Nat /\ n <= l
  <2>. HIDE DEF l
  <2>1. n <= l
    BY DEF l
  <2>. QED
    BY <1>1, <2>1
<1>3. \A k \in 1 .. l - n : work[k] \in Item
  <2>. HIDE DEF l
  <2>. QED
    BY <1>1, <1>2
<1>4. /\ s \in Seq(Item) /\ Len(s) = l - n /\ \A k \in 1 .. l - n : s[k] = work[k]
  <2>. DEFINE m == l - n
  <2>1. m \in Nat /\ \A k \in 1 .. m : work[k] \in Item
    BY <1>2, <1>3
  <2>. HIDE DEF m
  <2>2. /\ SubSeq(work, 1, m) \in Seq(Item)
        /\ Len(SubSeq(work, 1, m)) = IF 1 <= m THEN m - 1 + 1 ELSE 0
        /\ \A k \in 1 .. m - 1 + 1 : SubSeq(work, 1, m)[k] = work[1 + k - 1]
    BY <2>1, SubSeqProperties
  <2>3. Len(SubSeq(work, 1, m)) = m /\ \A k \in 1 .. m : SubSeq(work, 1, m)[k] = work[k]
    BY <2>1, <2>2
  <2>. QED
    BY <2>2, <2>3 DEF m
<1>5. work' = Append(s, item)
  BY DEF Reduce
<1>. HIDE DEF s
<1>6. /\ Append(s, item) \in Seq(Item) /\ Len(Append(s, item)) = Len(s) + 1
      /\ \A k \in 1 .. Len(s) : Append(s, item)[k] = s[k]
      /\ Append(s, item)[Len(s) + 1] = item
  BY <1>4, AppendProperties
<1>. QED
  BY <1>4, <1>5, <1>6

\* A reduction to an item that is all right, or reported.
LEMMA Reduces ==
    ASSUME Typed, NEW n \in 0 .. 2, n <= Len(work), NEW item \in Item, NEW codes,
           NEW what \in SUBSET Panic, Reduce(n, item, codes, what),
           ~failed /\ codes = {} => item.type # ErrorType /\ item.clean,
           item.tag = "call" => CallOK(item) /\ (~failed /\ codes = {} => item.ok),
           NoDots /\ QualifiedOK /\ ~failed /\ codes = {} => what = {},
           n = 0 /\ work # << >> /\ Top.tag = "call" => WantsArgument(Top),
           \A d \in codes : d[1] = "ARG_MISSING" => ~Top.ok,
           n > 0 /\ codes # {} /\ IsValue(Len(work)) =>
              \E k \in Len(work) - n + 1 .. Len(work) : IsValue(k) /\ work[k].type # ErrorType
    PROVE  Resolves(n)
<1>1. /\ work' \in Seq(Item) /\ Len(work') = Len(work) - n + 1
      /\ \A k \in 1 .. Len(work) - n : work'[k] = work[k]
      /\ work'[Len(work) - n + 1] = item
  BY ReduceIs
<1>2. /\ report' = codes /\ (failed' <=> failed \/ codes # {})
      /\ UNCHANGED <<position, env, stmt>>
  BY DEF Reduce, Report
<1>3. failed' = (failed \/ report' # {})
  BY <1>2 DEF Reduce, Report
<1>4. crash \in SUBSET Panic /\ crash' = IF failed' THEN {} ELSE crash \cup what
  BY DEF Reduce, Panics, Typed
<1>5. crash' \in SUBSET Panic
  BY <1>4
<1>6. NoDots /\ QualifiedOK /\ crash = {} /\ ~failed' => crash' = {}
  BY <1>2, <1>4
<1>. QED
  BY <1>1, <1>2, <1>3, <1>5, <1>6 DEF Resolves

\* A good node.
LEMMA Nodes ==
    ASSUME Typed, NEW n \in 0 .. 2, n <= Len(work), NEW t \in TypeId, NEW clean \in BOOLEAN,
           Node(n, t, clean), ~failed => t # ErrorType /\ clean,
           n = 0 /\ work # << >> /\ Top.tag = "call" => WantsArgument(Top)
    PROVE  Resolves(n)
<1>1. /\ Value(t, clean) \in Item /\ Value(t, clean).tag # "call"
      /\ Value(t, clean).type = t /\ Value(t, clean).clean = clean
  BY ValueIs
<1>2. Reduce(n, Value(t, clean), {}, {})
  BY DEF Node
<1>. QED
  BY <1>1, <1>2, Reduces

\* A bad expression.
LEMMA BadExprs ==
    ASSUME Typed, NEW n \in 0 .. 2, n <= Len(work), NEW clean \in BOOLEAN, NEW codes,
           BadExpr(n, clean, codes), failed \/ codes # {},
           n = 0 /\ work # << >> /\ Top.tag = "call" => WantsArgument(Top),
           \A d \in codes : d[1] = "ARG_MISSING" => ~Top.ok,
           n > 0 /\ codes # {} /\ IsValue(Len(work)) =>
              \E k \in Len(work) - n + 1 .. Len(work) : IsValue(k) /\ work[k].type # ErrorType
    PROVE  Resolves(n)
<1>. DEFINE c == clean /\ codes = {}
            i == Value(ErrorType, c)
<1>1. c \in BOOLEAN /\ ErrorType \in TypeId
  BY DEF TypeId
<1>. HIDE DEF c
<1>2. i \in Item /\ i.tag # "call"
  BY <1>1, ValueIs
<1>3. Reduce(n, i, codes, {"bad node"})
  BY DEF BadExpr, c
<1>4. {"bad node"} \in SUBSET Panic
  BY DEF Panic
<1>. HIDE DEF i
<1>. QED
  BY <1>2, <1>3, <1>4, Reduces

\* The error type once more, of an operand of which it was reported.
LEMMA ErrorExprs ==
    ASSUME Typed, NEW n \in 1 .. 2, n <= Len(work), NEW clean \in BOOLEAN,
           ErrorExpr(n, clean), failed
    PROVE  Resolves(n)
<1>1. /\ Value(ErrorType, clean) \in Item /\ Value(ErrorType, clean).tag # "call"
  BY ValueIs DEF TypeId
<1>. DEFINE what == {"bad node"} \cup IF failed THEN {} ELSE {"error type not reported"}
<1>2. Reduce(n, Value(ErrorType, clean), {}, what)
  BY DEF ErrorExpr
<1>3. what \in SUBSET Panic
  BY DEF Panic
<1>. HIDE DEF what
<1>4. n \in 0 .. 2 /\ n # 0
  OBVIOUS
<1>. QED
  BY <1>1, <1>2, <1>3, <1>4, Reduces

-----------------------------------------------------------------------------
(* Names *)

\* The scopes.
LEMMA ScopesAre ==
    ASSUME Typed
    PROVE  /\ Len(scopes) \in Nat /\ DOMAIN scopes = 1 .. Len(scopes)
           /\ Len(live) \in Nat /\ DOMAIN live = 1 .. Len(live)
           /\ \A k \in 1 .. Len(live) : live[k] \in SUBSET Ident
           /\ \A k \in 1 .. Len(scopes) :
                 /\ scopes[k] \in Scope /\ DOMAIN scopes[k] \subseteq Symbol
                 /\ \A s \in DOMAIN scopes[k] : scopes[k][s] \in Binding
<1>1. /\ Len(scopes) \in Nat /\ DOMAIN scopes = 1 .. Len(scopes)
      /\ \A k \in 1 .. Len(scopes) : scopes[k] \in Scope
  BY LenProperties, ElementOfSeq DEF Typed
<1>2. /\ Len(live) \in Nat /\ DOMAIN live = 1 .. Len(live)
      /\ \A k \in 1 .. Len(live) : live[k] \in SUBSET Ident
  BY LenProperties, ElementOfSeq DEF Typed
<1>3. \A m \in Scope : DOMAIN m \subseteq Symbol /\ \A s \in DOMAIN m : m[s] \in Binding
  BY DEF Scope
<1>. QED
  BY <1>1, <1>2, <1>3

\* Env.Get finds the one binding there is.
LEMMA GetIs ==
    ASSUME Typed, NoShadowing, NEW s, Bound(s)
    PROVE  \E k \in 1 .. Len(scopes) : s \in DOMAIN scopes[k] /\ Get(s) = scopes[k][s]
<1>1. DOMAIN scopes = 1 .. Len(scopes) /\ Len(scopes) \in Nat
  BY ScopesAre
<1>2. PICK k \in DOMAIN scopes : s \in DOMAIN scopes[k]
  BY DEF Bound
<1>3. \A l \in DOMAIN scopes : s \in DOMAIN scopes[l] => l = k
  BY <1>2 DEF NoShadowing
<1>. DEFINE c == CHOOSE j \in DOMAIN scopes :
                    /\ s \in DOMAIN scopes[j]
                    /\ \A l \in DOMAIN scopes : s \in DOMAIN scopes[l] => l <= j
<1>4. k <= k
  BY <1>1
<1>5. c \in DOMAIN scopes /\ s \in DOMAIN scopes[c]
  BY <1>2, <1>3, <1>4
<1>6. c = k
  BY <1>3, <1>5
<1>7. Get(s) = scopes[c][s]
  BY DEF Get
<1>. QED
  BY <1>1, <1>2, <1>6, <1>7

\* What Get finds is a binding, and as it should be.
LEMMA GetOK ==
    ASSUME Typed, NoShadowing, BindingsOK, NEW s, Bound(s)
    PROVE  Get(s) \in Binding /\ \E k \in 1 .. Len(scopes) : BindingOK(k, s, Get(s))
<1>1. PICK k \in 1 .. Len(scopes) : s \in DOMAIN scopes[k] /\ Get(s) = scopes[k][s]
  BY GetIs
<1>. QED
  BY <1>1, ScopesAre DEF BindingsOK

\* The evaluator finds a name that may be read.
LEMMA NameIsLive ==
    ASSUME Typed, Levels, NEW n \in Ident, NEW k \in 1 .. Len(scopes), NEW b, BindingOK(k, <<n>>, b),
           \/ b.kind \in {"let", "const", "slot", "module"} \/ (b.kind = "input" /\ fn = "Run")
    PROVE  b.slot # 0 \/ InLive(n)
<1>1. Len(scopes) \in Nat /\ DOMAIN live = 1 .. Len(live) /\ Len(live) = Len(scopes)
  BY ScopesAre DEF Levels
<1>2. CASE b.kind = "slot"
  BY <1>2 DEF BindingOK
<1>3. CASE b.kind \in {"let", "const"}
  BY <1>3, <1>1 DEF BindingOK, InLive
<1>4. CASE b.kind = "module"
  <2>1. n \in live[1]
    BY <1>4 DEF BindingOK
  <2>2. 1 \in 1 .. Len(scopes)
    BY <1>1
  <2>. QED
    BY <2>1, <2>2, <1>1 DEF InLive
<1>5. CASE b.kind = "input" /\ fn = "Run"
  <2>1. n \in live[2]
    <3>1. \E m \in live[2] : <<n>> = <<m>>
      BY <1>5 DEF BindingOK
    <3>. QED
      BY <3>1
  <2>2. 2 \in 1 .. Len(scopes)
    BY <1>1, <1>5 DEF Levels
  <2>. QED
    BY <2>1, <2>2, <1>1 DEF InLive
<1>. QED
  BY <1>2, <1>3, <1>4, <1>5

-----------------------------------------------------------------------------
(* Expressions without operands *)

\* Where an operand may start, nothing is resolved but the argument of a call.
LEMMA OperandStarts ==
    ASSUME Typed, Operands
    PROVE  /\ 0 \in 0 .. 2 /\ 0 <= Len(work) /\ ~(0 > 0)
           /\ work # << >> /\ Top.tag = "call" => WantsArgument(Top)
<1>1. Len(work) \in Nat
  BY WorkIs
<1>. QED
  BY <1>1 DEF Operands

\* A good node without operands.
LEMMA GoodOperand ==
    ASSUME Typed, Operands, NEW t \in TypeId, Node(0, t, TRUE), ~failed => t # ErrorType
    PROVE  Resolves(0)
<1>1. TRUE \in BOOLEAN /\ (~failed => t # ErrorType /\ TRUE)
  OBVIOUS
<1>2. 0 = 0 /\ work # << >> /\ Top.tag = "call" => WantsArgument(Top)
  BY OperandStarts
<1>. QED
  BY <1>1, <1>2, OperandStarts, Nodes

\* A bad expression without operands.
LEMMA BadOperand ==
    ASSUME Typed, Operands, NEW code, code[1] # "ARG_MISSING", BadExpr(0, TRUE, {code})
    PROVE  Resolves(0)
<1>. DEFINE codes == {code}
<1>1. /\ TRUE \in BOOLEAN /\ (failed \/ codes # {})
      /\ \A d \in codes : d[1] = "ARG_MISSING" => ~Top.ok
  OBVIOUS
<1>2. 0 = 0 /\ work # << >> /\ Top.tag = "call" => WantsArgument(Top)
  BY OperandStarts
<1>. HIDE DEF codes
<1>3. BadExpr(0, TRUE, codes)
  BY DEF codes
<1>4. 0 > 0 /\ codes # {} /\ IsValue(Len(work)) =>
        \E k \in Len(work) - 0 + 1 .. Len(work) : IsValue(k) /\ work[k].type # ErrorType
  OBVIOUS
<1>. QED
  BY <1>1, <1>2, <1>3, <1>4, OperandStarts, BadExprs

\* A reduction without operands and reports.
LEMMA PlainOperand ==
    ASSUME Typed, Operands, NEW i \in Item, i.tag # "call", ~failed => i.type # ErrorType,
           i.clean, NEW what \in SUBSET Panic, Reduce(0, i, {}, what),
           NoDots /\ QualifiedOK /\ ~failed => what = {}
    PROVE  Resolves(0)
<1>1. 0 = 0 /\ work # << >> /\ Top.tag = "call" => WantsArgument(Top)
  BY OperandStarts
<1>. DEFINE codes == {}
<1>2. /\ ~failed /\ codes = {} => i.type # ErrorType /\ i.clean
      /\ i.tag = "call" => CallOK(i) /\ (~failed /\ codes = {} => i.ok)
      /\ NoDots /\ QualifiedOK /\ ~failed /\ codes = {} => what = {}
      /\ \A d \in codes : d[1] = "ARG_MISSING" => ~Top.ok
  OBVIOUS
<1>3. 0 > 0 /\ codes # {} /\ IsValue(Len(work)) =>
        \E k \in Len(work) - 0 + 1 .. Len(work) : IsValue(k) /\ work[k].type # ErrorType
  OBVIOUS
<1>. HIDE DEF codes
<1>4. Reduce(0, i, codes, what)
  BY DEF codes
<1>. QED
  BY <1>1, <1>2, <1>3, <1>4, OperandStarts, Reduces

\* A literal,
LEMMA LiteralStep ==
    ASSUME Known, NEW t \in LiteralType, Literal(t)
    PROVE  Resolves(0)
<1>1. Typed /\ Operands /\ Node(0, t, TRUE)
  BY DEF Known, Literal
<1>2. t \in TypeId /\ t # ErrorType
  BY TypeAssumption DEF TypeId
<1>. QED
  BY <1>1, <1>2, GoodOperand

\* a call of what cannot be called,
LEMMA BadCalleeStep ==
    ASSUME Known, BadCallee
    PROVE  Resolves(0)
<1>1. Typed /\ Operands
  BY DEF Known, BadCallee
<1>2. PICK code \in {"EMIT_NOT_EXPRESSION", "UNDEFINED_FUNC", "NOT_CALLABLE"} :
         BadExpr(0, TRUE, {<<code>>})
  BY DEF BadCallee
<1>3. <<code>>[1] # "ARG_MISSING"
  BY <1>2
<1>. QED
  BY <1>1, <1>2, <1>3, BadOperand

\* Reporting a name that is missing is not about arguments.
LEMMA MissingIs ==
    ASSUME NEW s, NEW code, code # "ARG_MISSING"
    PROVE  Missing(s, code)[1] # "ARG_MISSING"
BY DEF Missing

\* a variable: if there is no diagnostic, the evaluator knows it,
LEMMA ReadNameStep ==
    ASSUME Known, NEW n \in Ident, ReadName(n)
    PROVE  Resolves(0)
<1>. DEFINE b == Get(<<n>>)
<1>1. Typed /\ Levels /\ NoShadowing /\ BindingsOK /\ Operands
  BY DEF Known, ReadName
<1>2. CASE ~Bound(<<n>>) /\ BadExpr(0, TRUE, {Missing(<<n>>, "UNDEFINED_IDENT")})
  <2>1. Missing(<<n>>, "UNDEFINED_IDENT")[1] # "ARG_MISSING"
    BY MissingIs
  <2>. QED
    BY <1>1, <1>2, <2>1, BadOperand
<1>3. CASE BadExpr(0, TRUE, {<<"NOT_READABLE">>})
  BY <1>1, <1>3, BadOperand
<1>4. CASE BadExpr(0, TRUE, {<<"INPUT_IN_INIT">>})
  BY <1>1, <1>4, BadOperand
<1>5. CASE Bound(<<n>>) /\ Readable(b) /\ ~RefusesInput(b) /\ Ref(n, b)
  <2>1. PICK k \in 1 .. Len(scopes) : b \in Binding /\ BindingOK(k, <<n>>, b)
    BY <1>1, <1>5, GetOK
  <2>. HIDE DEF b
  <2>2. b.slot # 0 \/ InLive(n)
    <3>1. b.kind \in {"let", "const", "slot", "module"} \/ (b.kind = "input" /\ fn = "Run")
      <4>1. Readable(b) /\ ~RefusesInput(b)
        BY <1>5
      <4>. QED
        BY <4>1 DEF Readable, RefusesInput
    <3>. QED
      BY <1>1, <2>1, <3>1, NameIsLive
  <2>3. b.type \in TypeId /\ (~failed => b.type # ErrorType)
    BY <2>1 DEF Binding, BindingOK
  <2>4. Node(0, b.type, TRUE)
    BY <1>5, <2>2 DEF Ref
  <2>. QED
    BY <1>1, <2>3, <2>4, GoodOperand
<1>6. \/ ~Bound(<<n>>) /\ BadExpr(0, TRUE, {Missing(<<n>>, "UNDEFINED_IDENT")})
      \/ BadExpr(0, TRUE, {<<"NOT_READABLE">>})
      \/ BadExpr(0, TRUE, {<<"INPUT_IN_INIT">>})
      \/ Bound(<<n>>) /\ Readable(b) /\ ~RefusesInput(b) /\ Ref(n, b)
  BY DEF ReadName
<1>. QED
  BY <1>2, <1>3, <1>4, <1>5, <1>6

\* A word that declares slots stands for itself.
LEMMA DeclWordIs ==
    ASSUME Typed, NoShadowing, BindingsOK, NEW w, IsDeclWord(w)
    PROVE  w \in DeclWords
<1>1. PICK k \in 1 .. Len(scopes) : BindingOK(k, <<w>>, Get(<<w>>))
  BY GetOK DEF IsDeclWord
<1>2. Get(<<w>>).kind = "declaration keyword"
  BY DEF IsDeclWord
<1>3. PICK v \in DeclWords : <<w>> = <<v>>
  BY <1>1, <1>2 DEF BindingOK
<1>. QED
  BY <1>3

\* What qualifies a name finds a slot, if no type is called like one.
LEMMA SlotIsQualified ==
    ASSUME Typed, NoShadowing, BindingsOK, QualifiedOK, NEW w, NEW n \in Ident,
           IsDeclWord(w), Bound(<<w, n>>)
    PROVE  Get(<<w, n>>).slot # 0
<1>1. w \in DeclWords
  BY DeclWordIs
<1>2. PICK k \in 1 .. Len(scopes) :
         <<w, n>> \in DOMAIN scopes[k] /\ Get(<<w, n>>) = scopes[k][<<w, n>>]
  BY GetIs
<1>. QED
  BY <1>1, <1>2 DEF QualifiedOK

\* a slot: if there is no diagnostic and no type is called like one, it is one,
LEMMA SlotRefStep ==
    ASSUME Known, NEW w \in Ident, NEW n \in Ident, SlotRef(w, n)
    PROVE  Resolves(0)
<1>. DEFINE s == <<w, n>>
            b == Get(s)
<1>1. Typed /\ Levels /\ NoShadowing /\ BindingsOK /\ Operands /\ IsDeclWord(w)
  BY DEF Known, SlotRef
<1>2. CASE ~Bound(s) /\ BadExpr(0, TRUE, {Missing(s, "SLOT_UNDECLARED")})
  <2>1. Missing(s, "SLOT_UNDECLARED")[1] # "ARG_MISSING"
    BY MissingIs
  <2>. QED
    BY <1>1, <1>2, <2>1, BadOperand
<1>3. CASE Bound(s) /\ b.slot # 0 /\ Node(0, b.type, TRUE)
  <2>1. b.type \in TypeId /\ (~failed => b.type # ErrorType)
    <3>1. PICK k \in 1 .. Len(scopes) : b \in Binding /\ BindingOK(k, s, b)
      BY <1>1, <1>3, GetOK
    <3>. HIDE DEF b
    <3>. QED
      BY <3>1 DEF Binding, BindingOK
  <2>. QED
    BY <1>1, <1>3, <2>1, GoodOperand
<1>4. CASE /\ Bound(s) /\ b.slot = 0
           /\ Reduce(0, Value(NoType, TRUE), {}, {"slot is nil"})
  <2>1. ~QualifiedOK
    BY <1>1, <1>4, SlotIsQualified
  <2>2. NoType \in TypeId /\ NoType # ErrorType
    BY TypeAssumption DEF TypeId
  <2>. DEFINE i == Value(NoType, TRUE)
  <2>3. i \in Item /\ i.tag # "call" /\ i.type # ErrorType /\ i.clean
    BY <2>2, ValueIs
  <2>4. {"slot is nil"} \in SUBSET Panic
    BY DEF Panic
  <2>. HIDE DEF i
  <2>5. Reduce(0, i, {}, {"slot is nil"})
    BY <1>4 DEF i
  <2>. QED
    <3>1. ~(NoDots /\ QualifiedOK /\ ~failed)
      BY <2>1
    <3>. QED
      BY <1>1, <2>3, <2>4, <2>5, <3>1, PlainOperand
<1>. QED
  BY <1>2, <1>3, <1>4 DEF SlotRef

\* and the module in front of a dot.
LEMMA ModuleRefStep ==
    ASSUME Known, NEW n \in Ident, ModuleRef(n)
    PROVE  Resolves(0)
<1>. DEFINE b == Get(<<n>>)
            i == [Value(b.type, TRUE) EXCEPT !.module = TRUE]
<1>1. Typed /\ Levels /\ NoShadowing /\ BindingsOK /\ Operands /\ Bound(<<n>>) /\ b.kind = "module"
  BY DEF Known, ModuleRef
<1>2. PICK k \in 1 .. Len(scopes) : b \in Binding /\ BindingOK(k, <<n>>, b)
  BY <1>1, GetOK
<1>3. Reduce(0, i, {}, IF InLive(n) THEN {} ELSE {"unknown identifier"})
  BY DEF ModuleRef
<1>. HIDE DEF b
<1>4. InLive(n)
  <2>1. n \in live[1]
    BY <1>1, <1>2 DEF BindingOK
  <2>2. DOMAIN live = 1 .. Len(live) /\ Len(live) \in Nat /\ Len(live) > 0
    <3>1. Len(live) = Len(scopes) /\ Len(scopes) > 0
      BY <1>1 DEF Levels
    <3>. QED
      BY <1>1, <3>1, ScopesAre
  <2>3. 1 \in DOMAIN live
    BY <2>2
  <2>. QED
    BY <2>1, <2>3 DEF InLive
<1>5. b.type \in TypeId /\ (~failed => b.type # ErrorType)
  BY <1>2 DEF Binding, BindingOK
<1>6. i \in Item /\ i.tag # "call" /\ i.type = b.type /\ i.clean
  BY <1>5, ValueIs
<1>. HIDE DEF i
<1>7. Reduce(0, i, {}, {})
  BY <1>3, <1>4
<1>. QED
  BY <1>1, <1>5, <1>6, <1>7, PlainOperand

-----------------------------------------------------------------------------
(* Expressions with operands *)

\* The operand of a prefix operator, a receiver, or the right one of two.
LEMMA OneOperand ==
    ASSUME Known, Expression
    PROVE  /\ Typed /\ 1 <= Len(work) /\ 1 \in 0 .. 2 /\ 1 \in 1 .. 2
           /\ Top.type \in TypeId /\ Top.clean \in BOOLEAN /\ IsValue(Len(work))
           /\ ~failed => Top.type # ErrorType /\ Top.clean
<1>1. Typed /\ WorkOK /\ IsValue(Len(work))
  BY DEF Known, Expression
<1>2. Len(work) \in 1 .. Len(work) /\ Len(work) \in Nat
  BY <1>1, WorkIs DEF IsValue
<1>3. Top = work[Len(work)] /\ Top \in Item
  BY <1>1, <1>2, WorkIs DEF Top
<1>4. ItemOK(Top)
  BY <1>1, <1>2, <1>3 DEF WorkOK
<1>. QED
  BY <1>1, <1>2, <1>3, <1>4, ItemIs DEF ItemOK

\* Two operands.
LEMMA BothOperands ==
    ASSUME Known, TwoOperands
    PROVE  /\ Expression /\ 2 <= Len(work) /\ 2 \in 0 .. 2 /\ 2 \in 1 .. 2
           /\ IsValue(Len(work) - 1)
           /\ Under.type \in TypeId /\ Under.clean \in BOOLEAN
           /\ ~failed => Under.type # ErrorType /\ Under.clean
<1>1. Typed /\ WorkOK /\ IsValue(Len(work) - 1) /\ Expression
  BY DEF Known, TwoOperands
<1>2. Len(work) \in Nat /\ DOMAIN work = 1 .. Len(work)
  BY <1>1, WorkIs
<1>3. Len(work) - 1 \in 1 .. Len(work) /\ 2 <= Len(work)
  BY <1>1, <1>2 DEF IsValue
<1>4. Under = work[Len(work) - 1] /\ Under \in Item
  BY <1>1, <1>2, <1>3, WorkIs DEF Under
<1>5. ItemOK(Under)
  BY <1>1, <1>3, <1>4 DEF WorkOK
<1>. QED
  BY <1>1, <1>3, <1>4, <1>5, ItemIs DEF ItemOK

\* A good node with operands.
LEMMA GoodNode ==
    ASSUME Known, Expression, NEW n \in 1 .. 2, n <= Len(work), NEW t \in TypeId,
           NEW clean \in BOOLEAN, Node(n, t, clean), ~failed => t # ErrorType /\ clean
    PROVE  Resolves(n)
<1>1. Typed
  BY DEF Known
<1>2. n \in 0 .. 2 /\ n # 0
  OBVIOUS
<1>3. n = 0 /\ work # << >> /\ Top.tag = "call" => WantsArgument(Top)
  BY <1>2
<1>. QED
  BY <1>1, <1>2, <1>3, Nodes

\* A bad expression with operands, one of which has not the error type.
LEMMA BadNode ==
    ASSUME Known, Expression, NEW n \in 1 .. 2, n <= Len(work), NEW clean \in BOOLEAN,
           NEW codes, BadExpr(n, clean, codes), failed \/ codes # {},
           \A d \in codes : d[1] # "ARG_MISSING",
           Top.type # ErrorType \/ (n = 2 /\ IsValue(Len(work) - 1) /\ Under.type # ErrorType)
    PROVE  Resolves(n)
<1>1. Typed /\ IsValue(Len(work))
  BY DEF Known, Expression
<1>2. n \in 0 .. 2 /\ n # 0
  OBVIOUS
<1>3. n = 0 /\ work # << >> /\ Top.tag = "call" => WantsArgument(Top)
  BY <1>2
<1>4. n > 0 /\ codes # {} /\ IsValue(Len(work)) =>
        \E k \in Len(work) - n + 1 .. Len(work) : IsValue(k) /\ work[k].type # ErrorType
  <2>1. Len(work) \in Nat
    BY <1>1, WorkIs
  <2>2. CASE Top.type # ErrorType
    <3>1. Len(work) \in Len(work) - n + 1 .. Len(work)
      BY <2>1
    <3>. QED
      BY <1>1, <2>2, <3>1 DEF Top
  <2>3. CASE n = 2 /\ IsValue(Len(work) - 1) /\ Under.type # ErrorType
    <3>1. Len(work) - 1 \in Len(work) - n + 1 .. Len(work)
      BY <2>1, <2>3
    <3>. QED
      BY <2>3, <3>1 DEF Under
  <2>. QED
    BY <2>2, <2>3
<1>5. \A d \in codes : d[1] = "ARG_MISSING" => ~Top.ok
  OBVIOUS
<1>. QED
  BY <1>1, <1>2, <1>3, <1>4, <1>5, BadExprs

\* A diagnostic, unless there was one.
OneReport(clean, code) == IF clean THEN {<<code>>} ELSE {}

\* A bad expression that is reported unless an operand was.
LEMMA BadIfClean ==
    ASSUME Known, Expression, NEW n \in 1 .. 2, n <= Len(work), NEW clean \in BOOLEAN,
           NEW code, code # "ARG_MISSING", ~failed => clean,
           BadExpr(n, clean, OneReport(clean, code)),
           Top.type # ErrorType \/ (n = 2 /\ IsValue(Len(work) - 1) /\ Under.type # ErrorType)
    PROVE  Resolves(n)
<1>. DEFINE codes == OneReport(clean, code)
<1>1. failed \/ codes # {}
  BY DEF OneReport
<1>2. \A d \in codes : d[1] # "ARG_MISSING"
  BY DEF OneReport
<1>. HIDE DEF codes
<1>3. BadExpr(n, clean, codes)
  BY DEF codes
<1>. QED
  BY <1>1, <1>2, <1>3, BadNode

\* An infix operator,
LEMMA InfixStep ==
    ASSUME Known, Infix
    PROVE  Resolves(2)
<1>. DEFINE key == <<Under.type, Top.type>>
            clean == Under.clean /\ Top.clean
<1>1. TwoOperands
  BY DEF Infix
<1>2. /\ Typed /\ Expression /\ 2 <= Len(work) /\ 2 \in 1 .. 2 /\ IsValue(Len(work) - 1)
      /\ clean \in BOOLEAN /\ (~failed => Under.type # ErrorType /\ Top.type # ErrorType /\ clean)
  BY <1>1, OneOperand, BothOperands
<1>3. CASE EitherIsError /\ ErrorExpr(2, clean)
  <2>1. failed
    BY <1>2, <1>3 DEF EitherIsError
  <2>. HIDE DEF clean
  <2>. QED
    BY <1>2, <1>3, <2>1, ErrorExprs
<1>4. CASE ~EitherIsError /\ BadExpr(2, clean, OneReport(clean, "INVALID_OPERATION"))
  <2>1. Top.type # ErrorType
    BY <1>4 DEF EitherIsError
  <2>. HIDE DEF clean
  <2>. QED
    BY <1>2, <1>4, <2>1, BadIfClean
<1>5. CASE key \in DOMAIN Binary /\ Node(2, Binary[key], clean)
  <2>1. Binary[key] \in TypeId /\ Binary[key] # ErrorType
    <3>1. Binary[key] \in RegType
      <4>. HIDE DEF key
      <4>. QED
        BY <1>5, RuleAssumption
    <3>. QED
      BY <3>1, TypeAssumption DEF TypeId
  <2>. HIDE DEF clean, key
  <2>. QED
    BY <1>2, <1>5, <2>1, GoodNode
<1>. QED
  BY <1>3, <1>4, <1>5 DEF Infix, OneReport

\* Mismatches are not about the error type, and not about arguments.
LEMMA MismatchesAre ==
    ASSUME NEW types
    PROVE  /\ \A d \in Mismatches(types) : d[1] # "ARG_MISSING"
           /\ Mismatches(types) # {} => \E t \in types : t # ErrorType
           /\ ErrorType \notin types /\ Mismatches(types) = {} => NotBool(types) = {}
           /\ NotBool(types) \in SUBSET Panic
<1>1. \A d \in Mismatches(types) : d[1] # "ARG_MISSING"
  BY DEF Mismatches
<1>2. Mismatches(types) # {} => \E t \in types : t # ErrorType
  BY DEF Mismatches
<1>3. ErrorType \notin types /\ Mismatches(types) = {} => NotBool(types) = {}
  BY DEF Mismatches, NotBool
<1>4. NotBool(types) \in SUBSET Panic
  BY DEF NotBool, Panic
<1>. QED
  BY <1>1, <1>2, <1>3, <1>4

\* && and ||,
LEMMA LogicalStep ==
    ASSUME Known, Logical
    PROVE  Resolves(2)
<1>. DEFINE types == {Under.type, Top.type}
            codes == Mismatches(types)
            clean == Under.clean /\ Top.clean /\ codes = {}
            what  == NotBool(types)
            i     == Value(Bool, clean)
<1>1. TwoOperands
  BY DEF Logical
<1>2. /\ Typed /\ Expression /\ 2 <= Len(work) /\ 2 \in 0 .. 2 /\ IsValue(Len(work) - 1)
      /\ IsValue(Len(work)) /\ clean \in BOOLEAN
      /\ ~failed => Under.type # ErrorType /\ Top.type # ErrorType /\ (codes = {} => clean)
  BY <1>1, OneOperand, BothOperands
<1>3. Bool \in TypeId /\ Bool # ErrorType
  BY TypeAssumption DEF TypeId
<1>4. Reduce(2, i, codes, what)
  BY DEF Logical
<1>5. i \in Item /\ i.tag # "call" /\ i.type = Bool /\ i.clean = clean
  <2>. HIDE DEF clean
  <2>. QED
    BY <1>2, <1>3, ValueIs
<1>6. ~failed /\ codes = {} => i.type # ErrorType /\ i.clean
  BY <1>2, <1>3, <1>5
<1>7. ~failed /\ codes = {} => what = {}
  BY <1>2, MismatchesAre
<1>8. \A d \in codes : d[1] = "ARG_MISSING" => ~Top.ok
  BY MismatchesAre
<1>9. 2 > 0 /\ codes # {} /\ IsValue(Len(work)) =>
        \E k \in Len(work) - 2 + 1 .. Len(work) : IsValue(k) /\ work[k].type # ErrorType
  <2>1. SUFFICES ASSUME codes # {}
                 PROVE  \E k \in Len(work) - 2 + 1 .. Len(work) :
                           IsValue(k) /\ work[k].type # ErrorType
    OBVIOUS
  <2>2. Under.type # ErrorType \/ Top.type # ErrorType
    BY <2>1, MismatchesAre
  <2>3. Len(work) \in Nat
    BY <1>2, WorkIs
  <2>4. Len(work) \in Len(work) - 2 + 1 .. Len(work) /\ Len(work) - 1 \in Len(work) - 2 + 1 .. Len(work)
    BY <2>3
  <2>. QED
    BY <1>2, <2>2, <2>4 DEF Top, Under
<1>10. what \in SUBSET Panic
  BY MismatchesAre
<1>11. 2 = 0 /\ work # << >> /\ Top.tag = "call" => WantsArgument(Top)
  OBVIOUS
<1>. HIDE DEF i, codes, what, clean, types
<1>. QED
  BY <1>2, <1>4, <1>5, <1>6, <1>7, <1>8, <1>9, <1>10, <1>11, Reduces

\* a prefix operator,
LEMMA PrefixStep ==
    ASSUME Known, Prefix
    PROVE  Resolves(1)
<1>1. Expression
  BY DEF Prefix
<1>2. /\ Typed /\ 1 <= Len(work) /\ 1 \in 1 .. 2 /\ Top.clean \in BOOLEAN
      /\ ~failed => Top.type # ErrorType /\ Top.clean
  BY <1>1, OneOperand
<1>3. CASE Top.type = ErrorType /\ ErrorExpr(1, Top.clean)
  BY <1>2, <1>3, ErrorExprs
<1>4. CASE /\ Top.type # ErrorType
           /\ BadExpr(1, Top.clean, OneReport(Top.clean, "INVALID_OPERATION"))
  BY <1>1, <1>2, <1>4, BadIfClean
<1>5. CASE Top.type \in DOMAIN Unary /\ Node(1, Unary[Top.type], Top.clean)
  <2>1. Unary[Top.type] \in TypeId /\ Unary[Top.type] # ErrorType
    BY <1>5, RuleAssumption, TypeAssumption DEF TypeId
  <2>. QED
    BY <1>1, <1>2, <1>5, <2>1, GoodNode
<1>. QED
  BY <1>3, <1>4, <1>5 DEF Prefix, OneReport

\* a member,
LEMMA MemberStep ==
    ASSUME Known, NEW m \in Field, Member(m)
    PROVE  Resolves(1)
<1>. DEFINE key == <<Top.type, m>>
<1>1. Expression
  BY DEF Member
<1>2. /\ Typed /\ 1 <= Len(work) /\ 1 \in 1 .. 2 /\ Top.clean \in BOOLEAN
      /\ ~failed => Top.type # ErrorType /\ Top.clean
  BY <1>1, OneOperand
<1>3. CASE Top.type = ErrorType /\ ErrorExpr(1, Top.clean)
  BY <1>2, <1>3, ErrorExprs
<1>4. CASE /\ Top.type # ErrorType
           /\ BadExpr(1, Top.clean, OneReport(Top.clean, "UNDEFINED_ATTRIBUTE"))
  BY <1>1, <1>2, <1>4, BadIfClean
<1>5. CASE key \in DOMAIN MemberRule /\ Node(1, MemberRule[key], Top.clean)
  <2>. HIDE DEF key
  <2>1. MemberRule[key] \in TypeId /\ MemberRule[key] # ErrorType
    BY <1>5, RuleAssumption, TypeAssumption DEF TypeId
  <2>. QED
    BY <1>1, <1>2, <1>5, <2>1, GoodNode
<1>. QED
  BY <1>3, <1>4, <1>5 DEF Member, OneReport

\* and an index, which the language does not have.
LEMMA IndexStep ==
    ASSUME Known, Index
    PROVE  Resolves(2)
<1>. DEFINE clean == Under.clean /\ Top.clean
<1>1. TwoOperands
  BY DEF Index
<1>2. /\ Typed /\ Expression /\ 2 <= Len(work) /\ 2 \in 1 .. 2 /\ IsValue(Len(work) - 1)
      /\ clean \in BOOLEAN /\ (~failed => Under.type # ErrorType /\ Top.type # ErrorType /\ clean)
  BY <1>1, OneOperand, BothOperands
<1>3. CASE Under.type = ErrorType /\ ErrorExpr(2, clean)
  <2>. HIDE DEF clean
  <2>. QED
    BY <1>2, <1>3, ErrorExprs
<1>4. CASE /\ Under.type # ErrorType
           /\ BadExpr(2, clean, OneReport(clean, "NOT_INDEXABLE"))
  <2>. HIDE DEF clean
  <2>. QED
    BY <1>2, <1>4, BadIfClean
<1>. QED
  BY <1>3, <1>4 DEF Index, OneReport

-----------------------------------------------------------------------------
(* Calls *)

\* A call rule has parameters, and a type that is no error.
LEMMA CallRuleIs ==
    ASSUME NEW key \in DOMAIN CallRule
    PROVE  /\ CallRule[key].params \in Seq(Param) /\ CallRule[key].type \in TypeId
           /\ CallRule[key].type # ErrorType
<1>1. CallRule[key] \in [params : Seq(Param), type : RegType]
  BY RuleAssumption
<1>. QED
  BY <1>1, TypeAssumption DEF TypeId

\* A method call starts,
LEMMA MethodCallStep ==
    ASSUME Known, NEW m \in Field, NEW args \in ArgLists, MethodCall(m, args)
    PROVE  Resolves(1)
<1>. DEFINE key == <<Top.type, m>>
            rule == CallRule[key]
            c == Call(rule, args, Top.clean)
            wrong == CountMismatch(rule.params, args)
<1>1. Expression
  BY DEF MethodCall
<1>2. /\ Typed /\ 1 <= Len(work) /\ 1 \in 1 .. 2 /\ 1 \in 0 .. 2 /\ Top.clean \in BOOLEAN
      /\ IsValue(Len(work)) /\ (~failed => Top.type # ErrorType /\ Top.clean)
  BY <1>1, OneOperand
<1>3. CASE Top.type = ErrorType /\ ErrorExpr(1, Top.clean)
  BY <1>2, <1>3, ErrorExprs
<1>4. CASE /\ Top.type # ErrorType
           /\ BadExpr(1, Top.clean, OneReport(Top.clean, "UNDEFINED_METHOD"))
  BY <1>1, <1>2, <1>4, BadIfClean
<1>5. CASE Top.type # ErrorType /\ BadExpr(1, Top.clean, wrong)
  <2>1. wrong # {} /\ \A d \in wrong : d[1] # "ARG_MISSING"
    BY DEF CountMismatch
  <2>. HIDE DEF wrong
  <2>. QED
    BY <1>1, <1>2, <1>5, <2>1, BadNode
<1>6. CASE /\ key \in DOMAIN CallRule /\ Len(args) = Len(rule.params)
           /\ Reduce(1, c, {}, {})
  <2>1. rule.params \in Seq(Param) /\ rule.type \in TypeId /\ rule.type # ErrorType
    <3>. HIDE DEF key
    <3>. QED
      BY <1>6, CallRuleIs
  <2>. HIDE DEF rule
  <2>2. /\ c \in Item /\ c.tag = "call" /\ CallOK(c) /\ c.ok
        /\ c.type = rule.type /\ c.clean = Top.clean
    BY <1>2, <1>6, <2>1, CallIs
  <2>. DEFINE codes == {}
              what  == {}
  <2>3. /\ ~failed /\ codes = {} => c.type # ErrorType /\ c.clean
        /\ c.tag = "call" => CallOK(c) /\ (~failed /\ codes = {} => c.ok)
        /\ NoDots /\ QualifiedOK /\ ~failed /\ codes = {} => what = {}
        /\ \A d \in codes : d[1] = "ARG_MISSING" => ~Top.ok
        /\ 1 = 0 /\ work # << >> /\ Top.tag = "call" => WantsArgument(Top)
        /\ what \in SUBSET Panic
    BY <1>2, <2>1, <2>2
  <2>4. 1 > 0 /\ codes # {} /\ IsValue(Len(work)) =>
          \E k \in Len(work) - 1 + 1 .. Len(work) : IsValue(k) /\ work[k].type # ErrorType
    OBVIOUS
  <2>. HIDE DEF c, codes, what
  <2>5. Reduce(1, c, codes, what)
    BY <1>6 DEF codes, what
  <2>. QED
    BY <1>2, <2>2, <2>3, <2>4, <2>5, Reduces
<1>. QED
  BY <1>3, <1>4, <1>5, <1>6 DEF MethodCall, OneReport

\* An open call is as it should be.
LEMMA OpenCallIs ==
    ASSUME Typed, WorkOK, NEW k \in 1 .. Len(work), work[k].tag = "call"
    PROVE  /\ work[k] \in OpenCall /\ CallOK(work[k])
           /\ work[k].ok \in BOOLEAN /\ work[k].clean \in BOOLEAN /\ work[k].type \in TypeId
           /\ ~failed => work[k].ok /\ work[k].clean /\ work[k].type # ErrorType
<1>1. work[k] \in OpenCall
  BY WorkIs, ItemIs
<1>2. ItemOK(work[k])
  BY DEF WorkOK
<1>. QED
  BY <1>1, <1>2 DEF ItemOK, OpenCall

\* skips an argument that has no parameter of its own,
LEMMA SkipArgumentStep ==
    ASSUME Known, SkipArgument
    PROVE  Resolves(1)
<1>. DEFINE c == [Top EXCEPT !.rest = Tail(@), !.ok = FALSE, !.clean = FALSE]
            codes == {<<IF ParamAt(Top) = 0 THEN "ARG_UNKNOWN" ELSE "ARG_DUPLICATE">>}
            what == {}
<1>1. Typed /\ WorkOK /\ work # << >> /\ Top.tag = "call" /\ Top.rest # << >>
  BY DEF Known, SkipArgument
<1>2. Len(work) \in 1 .. Len(work) /\ Len(work) \in Nat /\ 1 <= Len(work)
  BY <1>1, WorkIs
<1>3. Top \in OpenCall /\ CallOK(Top)
  BY <1>1, <1>2, OpenCallIs DEF Top
<1>4. c \in OpenCall /\ CallOK(c) /\ c.tag = "call"
  BY <1>1, <1>3, ArgumentRefused
<1>5. Reduce(1, c, codes, what)
  BY DEF SkipArgument
<1>. HIDE DEF c
<1>6. /\ codes # {} /\ \A d \in codes : d[1] # "ARG_MISSING"
  OBVIOUS
<1>. HIDE DEF codes
<1>7. /\ ~failed /\ codes = {} => c.type # ErrorType /\ c.clean
      /\ c.tag = "call" => CallOK(c) /\ (~failed /\ codes = {} => c.ok)
      /\ NoDots /\ QualifiedOK /\ ~failed /\ codes = {} => what = {}
      /\ \A d \in codes : d[1] = "ARG_MISSING" => ~Top.ok
      /\ 1 = 0 /\ work # << >> /\ Top.tag = "call" => WantsArgument(Top)
      /\ what \in SUBSET Panic
  BY <1>4, <1>6
<1>8. ~IsValue(Len(work))
  BY <1>1 DEF IsValue, Top
<1>9. 1 > 0 /\ codes # {} /\ IsValue(Len(work)) =>
        \E k \in Len(work) - 1 + 1 .. Len(work) : IsValue(k) /\ work[k].type # ErrorType
  BY <1>8
<1>10. c \in Item
  BY <1>4 DEF Item
<1>. HIDE DEF what
<1>. QED
  BY <1>1, <1>2, <1>5, <1>7, <1>9, <1>10, Reduces

\* takes one that has, and gives it its parameter,
LEMMA ArgumentStep ==
    ASSUME Known, Argument
    PROVE  Resolves(2)
<1>. DEFINE at == ParamAt(Under)
            wrong == /\ ~Matches(Top.type, Under.params[at])
                     /\ ErrorType \notin {Top.type, Under.params[at].type}
            ok == Under.ok /\ ~wrong
            clean == Under.clean /\ Top.clean /\ ~wrong
            c == [Under EXCEPT !.rest = Tail(@), !.seen = @ \cup {at},
                               !.ok = ok, !.clean = clean]
            codes == IF wrong THEN {<<"TYPE_MISMATCH">>} ELSE {}
            what == {}
<1>1. Expression /\ Len(work) > 1 /\ Under.tag = "call" /\ Typed /\ WorkOK
  BY DEF Argument, Known
<1>2. Top.clean \in BOOLEAN /\ IsValue(Len(work)) /\ (~failed => Top.clean)
  BY <1>1, OneOperand
<1>3. Len(work) \in Nat /\ Len(work) - 1 \in 1 .. Len(work) /\ Len(work) - 1 \in 1 .. Len(work) - 1
      /\ 2 <= Len(work)
  BY <1>1, WorkIs
<1>4. /\ Under \in OpenCall /\ CallOK(Under) /\ Under.ok \in BOOLEAN /\ Under.clean \in BOOLEAN
      /\ (~failed => Under.ok /\ Under.clean /\ Under.type # ErrorType)
  BY <1>1, <1>3, OpenCallIs DEF Under
<1>5. WantsArgument(Under)
  BY <1>1, <1>3 DEF Under, WorkOK
<1>6. ok \in BOOLEAN /\ clean \in BOOLEAN /\ (ok => Under.ok)
  BY <1>2, <1>4
<1>7. c \in OpenCall /\ CallOK(c)
  <2>. HIDE DEF ok, clean
  <2>. QED
    BY <1>4, <1>5, <1>6, ArgumentFits
<1>8. c.type = Under.type /\ c.tag = "call" /\ c.ok = ok /\ c.clean = clean
  <2>. HIDE DEF ok, clean, at
  <2>. QED
    BY <1>4 DEF OpenCall
<1>9. Reduce(2, c, codes, what)
  <2>1. c = [Under EXCEPT !.rest = Tail(@), !.seen = @ \cup {at}, !.ok = @ /\ ~wrong,
                          !.clean = @ /\ Top.clean /\ ~wrong]
    <3>. HIDE DEF wrong, at
    <3>. QED
      OBVIOUS
  <2>. QED
    BY <2>1, Zenon DEF Argument
<1>. HIDE DEF c
<1>10. /\ \A d \in codes : d[1] # "ARG_MISSING"
       /\ codes = {} => ~wrong
       /\ wrong => Top.type # ErrorType
       /\ ~wrong => codes = {}
  <2>1. wrong => Top.type # ErrorType
    OBVIOUS
  <2>. HIDE DEF wrong
  <2>2. \A d \in codes : d[1] # "ARG_MISSING"
    OBVIOUS
  <2>3. codes = {} <=> ~wrong
    OBVIOUS
  <2>. QED
    BY <2>1, <2>2, <2>3
<1>11. ~failed /\ codes = {} => ok /\ clean
  BY <1>2, <1>4, <1>10
<1>. HIDE DEF ok, clean, codes, wrong
<1>12. /\ ~failed /\ codes = {} => c.type # ErrorType /\ c.clean
       /\ c.tag = "call" => CallOK(c) /\ (~failed /\ codes = {} => c.ok)
       /\ NoDots /\ QualifiedOK /\ ~failed /\ codes = {} => what = {}
       /\ \A d \in codes : d[1] = "ARG_MISSING" => ~Top.ok
       /\ 2 = 0 /\ work # << >> /\ Top.tag = "call" => WantsArgument(Top)
       /\ what \in SUBSET Panic
  BY <1>4, <1>7, <1>8, <1>10, <1>11
<1>13. 2 > 0 /\ codes # {} /\ IsValue(Len(work)) =>
         \E k \in Len(work) - 2 + 1 .. Len(work) : IsValue(k) /\ work[k].type # ErrorType
  <2>1. Len(work) \in Len(work) - 2 + 1 .. Len(work)
    BY <1>3
  <2>2. codes # {} => work[Len(work)].type # ErrorType
    BY <1>10 DEF Top
  <2>. QED
    BY <2>1, <2>2
<1>14. c \in Item /\ 2 \in 0 .. 2
  BY <1>7 DEF Item
<1>. HIDE DEF what
<1>. QED
  BY <1>1, <1>3, <1>9, <1>12, <1>13, <1>14, Reduces

\* A call whose arguments are resolved lacks one only if one was refused.
LEMMA CallDoneIs ==
    ASSUME Typed, WorkOK, CallDone
    PROVE  /\ Len(work) \in 1 .. Len(work) /\ Len(work) \in Nat /\ 1 <= Len(work)
           /\ Top.clean \in BOOLEAN /\ Top.ok \in BOOLEAN /\ Top.type \in TypeId
           /\ ~failed => Top.ok /\ Top.clean /\ Top.type # ErrorType
           /\ Top.ok => Unfilled(Top) = {}
           /\ ~IsValue(Len(work))
<1>1. work # << >> /\ Top.tag = "call" /\ Top.rest = << >>
  BY DEF CallDone
<1>2. Len(work) \in 1 .. Len(work) /\ Len(work) \in Nat /\ 1 <= Len(work)
  BY <1>1, WorkIs
<1>3. /\ Top \in OpenCall /\ CallOK(Top)
      /\ Top.ok \in BOOLEAN /\ Top.clean \in BOOLEAN /\ Top.type \in TypeId
      /\ ~failed => Top.ok /\ Top.clean /\ Top.type # ErrorType
  BY <1>1, <1>2, OpenCallIs DEF Top
<1>4. Top.ok => Unfilled(Top) = {}
  BY <1>1, <1>3, CountingIsEnough
<1>5. ~IsValue(Len(work))
  BY <1>1 DEF Top, IsValue
<1>. QED
  BY <1>2, <1>3, <1>4, <1>5

\* and ends: unless an argument was refused, no parameter is left.
LEMMA CallEndsStep ==
    ASSUME Known, CallEnds
    PROVE  Resolves(1)
<1>. DEFINE valid == Top.ok /\ Unfilled(Top) = {}
            codes == Unfilled(Top)
<1>1. Typed /\ WorkOK /\ CallDone
  BY DEF CallEnds, Known
<1>2. /\ 1 <= Len(work) /\ 1 \in 0 .. 2 /\ Top.clean \in BOOLEAN /\ Top.type \in TypeId
      /\ (~failed => Top.ok /\ Top.clean /\ Top.type # ErrorType)
      /\ (Top.ok => codes = {}) /\ ~IsValue(Len(work))
  BY <1>1, CallDoneIs
<1>3. 1 = 0 /\ work # << >> /\ Top.tag = "call" => WantsArgument(Top)
  OBVIOUS
<1>4. CASE valid /\ Node(1, Top.type, Top.clean)
  BY <1>1, <1>2, <1>3, <1>4, Nodes
<1>5. CASE ~valid /\ BadExpr(1, Top.clean, codes)
  <2>1. failed \/ codes # {}
    BY <1>2, <1>5
  <2>. HIDE DEF codes
  <2>2. \A d \in codes : d[1] = "ARG_MISSING" => ~Top.ok
    BY <1>2
  <2>3. 1 > 0 /\ codes # {} /\ IsValue(Len(work)) =>
          \E k \in Len(work) - 1 + 1 .. Len(work) : IsValue(k) /\ work[k].type # ErrorType
    BY <1>2
  <2>. QED
    BY <1>1, <1>2, <1>3, <1>5, <2>1, <2>2, <2>3, BadExprs
<1>. QED
  BY <1>4, <1>5 DEF CallEnds

\* Every step of an expression.
LEMMA ExpressionStep ==
    ASSUME Known, Expressions
    PROVE  stmt # Idle /\ \E n \in 0 .. 2 : Resolves(n)
<1>1. stmt # Idle
  BY DEF Expressions, Literal, ReadName, ModuleRef, Member, SlotRef, BadCallee, Infix, Logical,
         Prefix, Index, MethodCall, SkipArgument, Argument, CallEnds, Operands, Expression,
         TwoOperands, CallDone
<1>2. Resolves(0) \/ Resolves(1) \/ Resolves(2)
  <2>1. CASE \E t \in LiteralType : Literal(t)
    BY <2>1, LiteralStep
  <2>2. CASE \E n \in Ident : ReadName(n) \/ ModuleRef(n)
    BY <2>2, ReadNameStep, ModuleRefStep
  <2>3. CASE \E m \in Field : Member(m)
    BY <2>3, MemberStep
  <2>4. CASE \E w, n \in Ident : SlotRef(w, n)
    BY <2>4, SlotRefStep
  <2>5. CASE BadCallee
    BY <2>5, BadCalleeStep
  <2>6. CASE Infix \/ Logical \/ Index \/ Argument
    BY <2>6, InfixStep, LogicalStep, IndexStep, ArgumentStep
  <2>7. CASE Prefix \/ SkipArgument \/ CallEnds
    BY <2>7, PrefixStep, SkipArgumentStep, CallEndsStep
  <2>8. CASE \E m \in Field, args \in ArgLists : MethodCall(m, args)
    BY <2>8, MethodCallStep
  <2>. QED
    BY <2>1, <2>2, <2>3, <2>4, <2>5, <2>6, <2>7, <2>8 DEF Expressions
<1>. QED
  BY <1>1, <1>2

-----------------------------------------------------------------------------
(* What a step does to the environments *)

\* What holds of the scopes and the cells.
EnvOK == Levels /\ NoShadowing /\ SlotsHaveOwnCells /\ BindingsOK

\* The lowest n scopes stay, and a new one may be on top of them.
Reshapes(n) ==
    /\ n \in 1 .. Len(scopes)
    /\ scopes' \in Seq(Scope) /\ live' \in Seq(SUBSET Ident)
    /\ Len(live') = Len(scopes') /\ (Len(scopes') = n \/ Len(scopes') = n + 1)
    /\ \A k \in 1 .. n : scopes'[k] = scopes[k] /\ live'[k] = live[k]
    /\ \A k \in 1 .. Len(scopes') : k > n => DOMAIN scopes'[k] = {}
    /\ slotCount' = slotCount
    /\ fn' = "" => Len(scopes') = 1
    /\ fn' \in {"Init", "Run"} => Len(scopes') > 1
    /\ fn' = "Run" => \A s \in DOMAIN scopes[1] :
                         scopes[1][s].kind = "input" => \E m \in live'[2] : s = <<m>>
    /\ ~failed' => ~failed

\* The innermost scope binds a symbol that had no binding.
Binds(s, b) ==
    /\ s \in Symbol /\ b \in Binding /\ ~Bound(s)
    /\ Set(s, b)
    /\ fn' = fn
    /\ live' \in Seq(SUBSET Ident) /\ Len(live') = Len(live)
    /\ \A k \in 1 .. Len(live) : live[k] \subseteq live'[k]
    /\ b.kind \in {"let", "const", "input", "output", "slot"}
    /\ b.kind \in {"let", "const"} => \E n \in live'[Len(scopes)] : s = <<n>>
    /\ b.kind = "input" => fn = "" /\ \E n \in Ident : s = <<n>>
    /\ b.kind = "slot" => b.slot # 0
    /\ b.assignable => b.kind = "let" \/ b.slot # 0
    /\ \/ b.slot = 0 /\ slotCount' = slotCount
       \/ b.slot = slotCount + 1 /\ slotCount' = slotCount + 1 /\ fn = ""
    /\ ~failed' => ~failed /\ b.type # ErrorType
    /\ \A w \in DeclWords, n \in Ident : s = <<w, n>> => b.slot # 0

\* The scopes after a binding.
LEMMA BindsIs ==
    ASSUME Typed, Levels, NEW s, NEW b, Binds(s, b)
    PROVE  /\ scopes' \in Seq(Scope) /\ Len(scopes') = Len(scopes)
           /\ Len(scopes) \in 1 .. Len(scopes)
           /\ \A k \in 1 .. Len(scopes) : k # Len(scopes) => scopes'[k] = scopes[k]
           /\ LET m == scopes'[Len(scopes)] IN
              /\ DOMAIN m = DOMAIN scopes[Len(scopes)] \cup {s}
              /\ m[s] = b
              /\ \A x \in DOMAIN scopes[Len(scopes)] : x # s /\ m[x] = scopes[Len(scopes)][x]
<1>. DEFINE l == Len(scopes)
            old == scopes[l]
            m == With(old, s, b)
<1>1. /\ l \in Nat /\ DOMAIN scopes = 1 .. l /\ scopes \in Seq(Scope)
      /\ \A k \in 1 .. l : scopes[k] \in Scope /\ DOMAIN scopes[k] \subseteq Symbol
                           /\ \A x \in DOMAIN scopes[k] : scopes[k][x] \in Binding
  BY ScopesAre DEF Typed
<1>2. l \in 1 .. l
  <2>1. l > 0
    BY DEF Levels
  <2>. HIDE DEF l
  <2>. QED
    BY <1>1, <2>1
<1>3. s \notin DOMAIN old /\ s \in Symbol /\ b \in Binding
  BY <1>1, <1>2 DEF Binds, Bound
<1>4. scopes' = [scopes EXCEPT ![l] = m]
  BY DEF Binds, Set
<1>5. /\ DOMAIN m = DOMAIN old \cup {s} /\ m[s] = b
      /\ \A x \in DOMAIN old : m[x] = old[x]
      /\ m = [x \in DOMAIN m |-> m[x]]
  <2>. HIDE DEF old
  <2>. QED
    BY <1>3 DEF With
<1>6. DOMAIN m \in SUBSET Symbol /\ \A x \in DOMAIN m : m[x] \in Binding
  BY <1>1, <1>2, <1>3, <1>5
<1>. HIDE DEF m
<1>7. m \in Scope
  <2>1. m \in [DOMAIN m -> Binding]
    BY <1>5, <1>6
  <2>. QED
    BY <2>1, <1>6 DEF Scope
<1>8. /\ [scopes EXCEPT ![l] = m] \in Seq(Scope) /\ Len([scopes EXCEPT ![l] = m]) = l
      /\ \A k \in 1 .. l : [scopes EXCEPT ![l] = m][k] = IF k = l THEN m ELSE scopes[k]
  BY <1>1, <1>2, <1>7, ExceptSeq
<1>. QED
  BY <1>2, <1>3, <1>4, <1>5, <1>8

\* A binding keeps the types,
LEMMA BindKeepsTypes ==
    ASSUME Typed, Levels, NEW s, NEW b, Binds(s, b)
    PROVE  scopes' \in Seq(Scope) /\ live' \in Seq(SUBSET Ident) /\ slotCount' \in Nat
<1>1. scopes' \in Seq(Scope)
  BY BindsIs
<1>2. slotCount \in Nat
  BY DEF Typed
<1>3. slotCount' = slotCount \/ slotCount' = slotCount + 1
  BY DEF Binds
<1>4. slotCount' \in Nat
  BY <1>2, <1>3
<1>5. live' \in Seq(SUBSET Ident)
  BY DEF Binds
<1>. QED
  BY <1>1, <1>4, <1>5

\* the levels,
LEMMA BindKeepsLevels ==
    ASSUME Typed, EnvOK, NEW s, NEW b, Binds(s, b)
    PROVE  Levels'
<1>1. Len(scopes') = Len(scopes) /\ Len(live') = Len(live) /\ fn' = fn
  BY BindsIs DEF Binds, EnvOK
<1>. QED
  BY <1>1 DEF EnvOK, Levels

\* the names apart,
LEMMA BindKeepsNames ==
    ASSUME Typed, EnvOK, NEW s, NEW b, Binds(s, b)
    PROVE  NoShadowing'
<1>. DEFINE l == Len(scopes)
<1>1. DOMAIN scopes = 1 .. l /\ DOMAIN scopes' = 1 .. l
  <2>1. scopes' \in Seq(Scope) /\ Len(scopes') = l
    BY BindsIs DEF EnvOK
  <2>. QED
    BY <2>1, ScopesAre, LenProperties
<1>2. \A k \in 1 .. l : DOMAIN scopes'[k] \subseteq DOMAIN scopes[k] \cup (IF k = l THEN {s} ELSE {})
  BY BindsIs DEF EnvOK
<1>3. \A k \in 1 .. l : s \notin DOMAIN scopes[k]
  BY <1>1 DEF Binds, Bound
<1>4. \A j, k \in 1 .. l : j # k => DOMAIN scopes[j] \cap DOMAIN scopes[k] = {}
  BY <1>1 DEF EnvOK, NoShadowing
<1>. HIDE DEF l
<1>5. \A j, k \in 1 .. l : j # k => DOMAIN scopes'[j] \cap DOMAIN scopes'[k] = {}
  BY <1>2, <1>3, <1>4
<1>. QED
  BY <1>1, <1>5 DEF NoShadowing

\* the cells apart,
LEMMA BindKeepsCells ==
    ASSUME Typed, EnvOK, NEW s, NEW b, Binds(s, b)
    PROVE  SlotsHaveOwnCells'
<1>. DEFINE l == Len(scopes)
            old == SlotBindings(1)
            new == SlotBindings(1)'
            cell(x) == scopes[1][x].slot
<1>1. l \in Nat /\ l \in 1 .. l /\ DOMAIN scopes = 1 .. l /\ DOMAIN scopes' = 1 .. l /\ 1 \in 1 .. l
  <2>1. scopes' \in Seq(Scope) /\ Len(scopes') = l /\ l \in 1 .. l
    BY BindsIs DEF EnvOK
  <2>2. l \in Nat /\ DOMAIN scopes = 1 .. l /\ DOMAIN scopes' = 1 .. l
    BY <2>1, ScopesAre, LenProperties
  <2>. HIDE DEF l
  <2>3. 1 \in 1 .. l
    BY <2>1, <2>2
  <2>. QED
    BY <2>1, <2>2, <2>3
<1>2. /\ \A k \in 1 .. l : k # l => scopes'[k] = scopes[k]
      /\ DOMAIN scopes'[l] = DOMAIN scopes[l] \cup {s} /\ scopes'[l][s] = b
      /\ \A x \in DOMAIN scopes[l] : x # s /\ scopes'[l][x] = scopes[l][x]
  BY BindsIs DEF EnvOK
<1>3. \A k \in 1 .. l : k # l => SlotBindings(k)' = SlotBindings(k)
  <2>. SUFFICES ASSUME NEW k \in 1 .. l, k # l
                PROVE  SlotBindings(k)' = SlotBindings(k)
    OBVIOUS
  <2>1. scopes'[k] = scopes[k]
    BY <1>2
  <2>. QED
    BY <2>1 DEF SlotBindings
<1>4. /\ \A j, k \in old : cell(j) = cell(k) => j = k
      /\ {cell(x) : x \in old} = 1 .. slotCount
      /\ \A k \in 1 .. l : k > 1 => SlotBindings(k) = {}
  BY <1>1 DEF EnvOK, SlotsHaveOwnCells
<1>5. CASE b.slot = 0 /\ slotCount' = slotCount
  <2>1. \A x \in DOMAIN scopes'[l] : scopes'[l][x].slot # 0 => x \in DOMAIN scopes[l]
    BY <1>2, <1>5
  <2>2. ASSUME NEW k \in 1 .. l, k = l
        PROVE  SlotBindings(k)' = SlotBindings(k)
    <3>1. \A x \in DOMAIN scopes'[k] : scopes'[k][x].slot # 0 =>
                x \in DOMAIN scopes[k] /\ scopes'[k][x] = scopes[k][x]
      BY <1>2, <2>1, <2>2
    <3>2. \A x \in DOMAIN scopes[k] : x \in DOMAIN scopes'[k] /\ scopes'[k][x] = scopes[k][x]
      BY <1>2, <2>2
    <3>. QED
      BY <3>1, <3>2 DEF SlotBindings
  <2>3. \A k \in 1 .. l : SlotBindings(k)' = SlotBindings(k)
    BY <1>3, <2>2
  <2>4. \A x \in old : scopes'[1][x] = scopes[1][x]
    <3>1. CASE 1 = l
      BY <3>1, <1>2 DEF SlotBindings
    <3>2. CASE 1 # l
      BY <3>2, <1>1, <1>2
    <3>. QED
      BY <3>1, <3>2
  <2>5. new = old
    BY <2>3, <1>1
  <2>. HIDE DEF old, new
  <2>6. /\ \A j, k \in new : scopes'[1][j].slot = scopes'[1][k].slot => j = k
        /\ {scopes'[1][x].slot : x \in new} = 1 .. slotCount'
    BY <2>4, <2>5, <1>4, <1>5
  <2>. QED
    BY <2>3, <2>6, <1>4, <1>1 DEF SlotsHaveOwnCells, new
<1>6. CASE b.slot = slotCount + 1 /\ slotCount' = slotCount + 1 /\ fn = ""
  <2>1. l = 1
    BY <1>6 DEF EnvOK, Levels
  <2>2. slotCount \in Nat
    BY DEF Typed
  <2>3. b.slot # 0
    <3>1. b.slot = slotCount + 1
      BY <1>6
    <3>. QED
      BY <2>2, <3>1
  <2>4. new = old \cup {s} /\ s \notin old /\ \A x \in old : scopes'[1][x] = scopes[1][x]
    BY <1>2, <2>1, <2>3 DEF SlotBindings
  <2>5. scopes'[1][s].slot = slotCount + 1
    BY <1>2, <2>1, <1>6
  <2>. DEFINE cell2(x) == scopes'[1][x].slot
  <2>6. /\ \A x \in old : cell2(x) = cell(x) /\ cell(x) \in 1 .. slotCount
        /\ cell2(s) = slotCount + 1
    <3>1. \A x \in old : cell(x) \in {cell(y) : y \in old}
      OBVIOUS
    <3>. QED
      BY <2>4, <2>5, <1>4, <3>1
  <2>. HIDE DEF old, new, cell2, cell
  <2>7. \A j, k \in new : cell2(j) = cell2(k) => j = k
    BY <2>2, <2>4, <2>6, <1>4
  <2>8. {cell2(x) : x \in new} = 1 .. slotCount + 1
    <3>1. {cell2(x) : x \in new} = {cell(x) : x \in old} \cup {slotCount + 1}
      BY <2>4, <2>6
    <3>2. 1 .. slotCount + 1 = (1 .. slotCount) \cup {slotCount + 1}
      BY <2>2
    <3>. QED
      BY <3>1, <3>2, <1>4
  <2>9. \A k \in 1 .. l : ~(k > 1)
    BY <2>1
  <2>. QED
    BY <2>7, <2>8, <2>9, <1>1, <1>6 DEF SlotsHaveOwnCells, cell2, new
<1>. QED
  BY <1>5, <1>6 DEF Binds

\* and what bindings tell about the evaluator.
LEMMA BindKeepsBindings ==
    ASSUME Typed, EnvOK, NEW s, NEW b, Binds(s, b)
    PROVE  BindingsOK' /\ (QualifiedOK => QualifiedOK')
<1>. DEFINE l == Len(scopes)
<1>1. /\ Len(scopes') = l /\ l \in 1 .. l /\ l \in Nat /\ 1 \in 1 .. l
      /\ \A k \in 1 .. l : k # l => scopes'[k] = scopes[k]
      /\ DOMAIN scopes'[l] = DOMAIN scopes[l] \cup {s} /\ scopes'[l][s] = b
      /\ \A x \in DOMAIN scopes[l] : x # s /\ scopes'[l][x] = scopes[l][x]
  <2>1. l \in Nat
    BY ScopesAre
  <2>2. l \in 1 .. l
    BY BindsIs DEF EnvOK
  <2>3. 1 \in 1 .. l
    <3>. HIDE DEF l
    <3>. QED
      BY <2>1, <2>2
  <2>. QED
    BY <2>1, <2>2, <2>3, BindsIs DEF EnvOK
<1>2. \A k \in 1 .. l : \A x \in DOMAIN scopes'[k] :
         \/ x \in DOMAIN scopes[k] /\ scopes'[k][x] = scopes[k][x]
         \/ k = l /\ x = s /\ scopes'[k][x] = b
  BY <1>1
<1>3. Len(live) = l /\ Len(live') = l /\ \A k \in 1 .. l : live[k] \subseteq live'[k]
  BY DEF EnvOK, Levels, Binds
<1>4. fn' = fn /\ (~failed' => ~failed /\ b.type # ErrorType)
  BY DEF Binds
<1>5. ASSUME NEW k \in 1 .. l, NEW x \in DOMAIN scopes'[k], NEW v, v = scopes'[k][x]
      PROVE  BindingOK(k, x, v)'
  <2>1. CASE x \in DOMAIN scopes[k] /\ v = scopes[k][x]
    <3>1. BindingOK(k, x, v)
      BY <2>1 DEF EnvOK, BindingsOK
    <3>2. live[k] \subseteq live'[k] /\ live[1] \subseteq live'[1]
      BY <1>1, <1>3
    <3>3. v.kind = "input" /\ fn = "Run" => live[2] \subseteq live'[2]
      <4>1. fn = "Run" => l > 1
        BY DEF EnvOK, Levels
      <4>2. fn = "Run" => 2 \in 1 .. l
        <5>. HIDE DEF l
        <5>. QED
          BY <1>1, <4>1
      <4>. QED
        BY <1>3, <4>2
    <3>4. /\ v.kind \in {"let", "const"} => \E n \in live'[k] : x = <<n>>
          /\ v.kind = "module" => \A n \in Ident : x = <<n>> => n \in live'[1]
      BY <3>1, <3>2 DEF BindingOK
    <3>5. v.kind = "input" => /\ k = 1 /\ \E n \in Ident : x = <<n>>
                              /\ fn' = "Run" => \E n \in live'[2] : x = <<n>>
      BY <3>1, <3>3, <1>4 DEF BindingOK
    <3>6. /\ v.kind = "slot" => v.slot # 0
          /\ v.assignable => v.kind = "let" \/ v.slot # 0
          /\ v.kind = "declaration keyword" => \E w \in DeclWords : x = <<w>>
          /\ ~failed' => v.type # ErrorType
      BY <3>1, <1>4 DEF BindingOK
    <3>. QED
      BY <3>4, <3>5, <3>6 DEF BindingOK
  <2>2. CASE k = l /\ x = s /\ v = b
    <3>1. /\ b.kind \in {"let", "const"} => \E n \in live'[l] : s = <<n>>
          /\ b.kind # "module" /\ b.kind # "declaration keyword"
          /\ b.kind = "input" => fn = "" /\ \E n \in Ident : s = <<n>>
          /\ b.kind = "slot" => b.slot # 0
          /\ b.assignable => b.kind = "let" \/ b.slot # 0
      BY DEF Binds
    <3>2. fn = "" => l = 1 /\ fn' # "Run"
      BY <1>4 DEF EnvOK, Levels
    <3>3. /\ v.kind \in {"let", "const"} => \E n \in live'[k] : x = <<n>>
          /\ v.kind # "module" /\ v.kind # "declaration keyword"
          /\ v.kind = "input" => /\ k = 1 /\ \E n \in Ident : x = <<n>>
                                 /\ fn' = "Run" => \E n \in live'[2] : x = <<n>>
          /\ v.kind = "slot" => v.slot # 0
          /\ v.assignable => v.kind = "let" \/ v.slot # 0
          /\ ~failed' => v.type # ErrorType
      BY <3>1, <3>2, <1>4, <2>2
    <3>. QED
      BY <3>3 DEF BindingOK
  <2>. QED
    BY <2>1, <2>2, <1>2, <1>5
<1>6. BindingsOK'
  BY <1>1, <1>5 DEF BindingsOK
<1>7. ASSUME QualifiedOK
      PROVE  QualifiedOK'
  <2>1. ASSUME NEW k \in 1 .. l, NEW w \in DeclWords, NEW n \in Ident,
               <<w, n>> \in DOMAIN scopes'[k]
        PROVE  scopes'[k][<<w, n>>].slot # 0
    <3>1. CASE <<w, n>> \in DOMAIN scopes[k] /\ scopes'[k][<<w, n>>] = scopes[k][<<w, n>>]
      BY <3>1, <1>7 DEF QualifiedOK
    <3>2. CASE <<w, n>> = s /\ scopes'[k][<<w, n>>] = b
      BY <3>2 DEF Binds
    <3>. QED
      BY <3>1, <3>2, <1>2, <2>1
  <2>2. DeclWords' = DeclWords
    OBVIOUS
  <2>. QED
    BY <2>1, <1>1 DEF QualifiedOK
<1>. QED
  BY <1>6, <1>7

\* The scopes after a change of their number.
LEMMA ReshapesIs ==
    ASSUME Typed, NEW n, Reshapes(n)
    PROVE  /\ Len(scopes) \in Nat /\ DOMAIN scopes = 1 .. Len(scopes)
           /\ Len(scopes') \in Nat /\ DOMAIN scopes' = 1 .. Len(scopes')
           /\ n \in 1 .. Len(scopes) /\ n \in Nat /\ n > 0 /\ n <= Len(scopes')
           /\ 1 \in 1 .. n
           /\ \A k \in 1 .. Len(scopes') :
                 \/ k \in 1 .. n /\ k \in 1 .. Len(scopes) /\ scopes'[k] = scopes[k]
                    /\ live'[k] = live[k]
                 \/ k = n + 1 /\ DOMAIN scopes'[k] = {}
<1>. DEFINE l == Len(scopes)
            m == Len(scopes')
<1>1. l \in Nat /\ DOMAIN scopes = 1 .. l
  BY ScopesAre
<1>2. m \in Nat /\ DOMAIN scopes' = 1 .. m
  BY LenProperties DEF Reshapes
<1>3. /\ n \in 1 .. l /\ (m = n \/ m = n + 1)
      /\ \A k \in 1 .. n : scopes'[k] = scopes[k] /\ live'[k] = live[k]
      /\ \A k \in 1 .. m : k > n => DOMAIN scopes'[k] = {}
  BY DEF Reshapes
<1>. HIDE DEF l, m
<1>4. n \in Nat /\ n > 0 /\ n <= m /\ 1 \in 1 .. n
  BY <1>1, <1>2, <1>3
<1>5. \A k \in 1 .. m : (k \in 1 .. n /\ k \in 1 .. l) \/ (k = n + 1 /\ k > n)
  BY <1>1, <1>2, <1>3, <1>4
<1>. QED
  BY <1>1, <1>2, <1>3, <1>4, <1>5 DEF l, m

\* A change of the number of scopes keeps the levels, the names and the cells apart,
LEMMA ReshapeKeepsApart ==
    ASSUME Typed, EnvOK, NEW n, Reshapes(n)
    PROVE  Levels' /\ NoShadowing' /\ SlotsHaveOwnCells'
<1>1. /\ DOMAIN scopes = 1 .. Len(scopes) /\ DOMAIN scopes' = 1 .. Len(scopes')
      /\ Len(scopes') \in Nat /\ n \in Nat /\ n > 0 /\ n <= Len(scopes') /\ 1 \in 1 .. n
      /\ n \in 1 .. Len(scopes) /\ Len(scopes) \in Nat
  BY ReshapesIs
<1>2. \A k \in 1 .. Len(scopes') :
         \/ k \in 1 .. n /\ k \in 1 .. Len(scopes) /\ scopes'[k] = scopes[k]
         \/ k = n + 1 /\ DOMAIN scopes'[k] = {}
  BY ReshapesIs
<1>3. Levels'
  <2>1. Len(live') = Len(scopes') /\ (fn' = "" => Len(scopes') = 1)
        /\ (fn' \in {"Init", "Run"} => Len(scopes') > 1)
    BY DEF Reshapes
  <2>2. Len(scopes') > 0
    <3>. DEFINE m == Len(scopes')
    <3>. HIDE DEF m
    <3>1. m > 0
      BY <1>1 DEF m
    <3>. QED
      BY <3>1 DEF m
  <2>. QED
    BY <2>1, <2>2 DEF Levels
<1>4. NoShadowing'
  <2>1. \A j, k \in 1 .. Len(scopes) : j # k => DOMAIN scopes[j] \cap DOMAIN scopes[k] = {}
    BY <1>1 DEF EnvOK, NoShadowing
  <2>2. \A j, k \in 1 .. Len(scopes') : j # k => DOMAIN scopes'[j] \cap DOMAIN scopes'[k] = {}
    BY <1>2, <2>1
  <2>. QED
    BY <1>1, <2>2 DEF NoShadowing
<1>5. SlotsHaveOwnCells'
  <2>1. scopes'[1] = scopes[1] /\ slotCount' = slotCount
    BY <1>1 DEF Reshapes
  <2>2. SlotBindings(1)' = SlotBindings(1)
    BY <2>1 DEF SlotBindings
  <2>3. ASSUME NEW k \in 1 .. Len(scopes'), k > 1
        PROVE  SlotBindings(k)' = {}
    <3>1. CASE k \in 1 .. Len(scopes) /\ scopes'[k] = scopes[k]
      <4>1. SlotBindings(k)' = SlotBindings(k)
        BY <3>1 DEF SlotBindings
      <4>2. SlotBindings(k) = {}
        BY <3>1, <2>3, <1>1 DEF EnvOK, SlotsHaveOwnCells
      <4>. QED
        BY <4>1, <4>2
    <3>2. CASE DOMAIN scopes'[k] = {}
      BY <3>2 DEF SlotBindings
    <3>. QED
      BY <3>1, <3>2, <1>2
  <2>4. /\ \A j, k \in SlotBindings(1) : scopes[1][j].slot = scopes[1][k].slot => j = k
        /\ {scopes[1][s].slot : s \in SlotBindings(1)} = 1 .. slotCount
    BY DEF EnvOK, SlotsHaveOwnCells
  <2>. QED
    BY <1>1, <2>1, <2>2, <2>3, <2>4 DEF SlotsHaveOwnCells
<1>. QED
  BY <1>3, <1>4, <1>5

\* and what bindings tell about the evaluator.
LEMMA ReshapeKeepsBindings ==
    ASSUME Typed, EnvOK, NEW n, Reshapes(n)
    PROVE  BindingsOK' /\ (QualifiedOK => QualifiedOK')
<1>1. /\ n \in Nat /\ 1 \in 1 .. n /\ 1 \in 1 .. Len(scopes') /\ 1 \in 1 .. Len(scopes)
      /\ Len(scopes') \in Nat
  <2>1. /\ n \in Nat /\ 1 \in 1 .. n /\ n <= Len(scopes') /\ Len(scopes') \in Nat
        /\ n \in 1 .. Len(scopes) /\ Len(scopes) \in Nat
    BY ReshapesIs
  <2>. DEFINE l == Len(scopes)
              m == Len(scopes')
  <2>. HIDE DEF l, m
  <2>2. 1 \in 1 .. m /\ 1 \in 1 .. l
    BY <2>1 DEF l, m
  <2>. QED
    BY <2>1, <2>2 DEF l, m
<1>2. \A k \in 1 .. Len(scopes') : \A s \in DOMAIN scopes'[k] :
         /\ k \in 1 .. Len(scopes) /\ scopes'[k] = scopes[k]
         /\ live'[k] = live[k]
  BY ReshapesIs
<1>3. scopes'[1] = scopes[1] /\ live'[1] = live[1] /\ (~failed' => ~failed)
  BY <1>1 DEF Reshapes
<1>4. fn' = "Run" => \A s \in DOMAIN scopes[1] :
                        scopes[1][s].kind = "input" => \E m \in live'[2] : s = <<m>>
  BY DEF Reshapes
<1>5. ASSUME NEW k \in 1 .. Len(scopes'), NEW s \in DOMAIN scopes'[k], NEW v, v = scopes'[k][s]
      PROVE  BindingOK(k, s, v)'
  <2>1. k \in 1 .. Len(scopes) /\ s \in DOMAIN scopes[k] /\ v = scopes[k][s] /\ live'[k] = live[k]
    BY <1>2, <1>5
  <2>2. BindingOK(k, s, v)
    BY <2>1 DEF EnvOK, BindingsOK
  <2>3. v.kind = "input" => /\ k = 1 /\ \E m \in Ident : s = <<m>>
                            /\ fn' = "Run" => \E m \in live'[2] : s = <<m>>
    BY <2>1, <2>2, <1>4 DEF BindingOK
  <2>4. /\ v.kind \in {"let", "const"} => \E m \in live'[k] : s = <<m>>
        /\ v.kind = "module" => \A m \in Ident : s = <<m>> => m \in live'[1]
        /\ v.kind = "slot" => v.slot # 0
        /\ v.assignable => v.kind = "let" \/ v.slot # 0
        /\ v.kind = "declaration keyword" => \E w \in DeclWords : s = <<w>>
        /\ ~failed' => v.type # ErrorType
    BY <2>1, <2>2, <1>3 DEF BindingOK
  <2>. QED
    BY <2>3, <2>4 DEF BindingOK
<1>6. BindingsOK'
  BY <1>5 DEF BindingsOK
<1>7. ASSUME QualifiedOK
      PROVE  QualifiedOK'
  BY <1>2, <1>7 DEF QualifiedOK
<1>. QED
  BY <1>6, <1>7

\* Steps that change nothing of the environments.
LEMMA StaysReshape ==
    ASSUME Typed, Levels, UNCHANGED env, fn' = fn \/ fn' = "done", ~failed' => ~failed, BindingsOK
    PROVE  \E n \in 1 .. Len(scopes) : Reshapes(n)
<1>. DEFINE l == Len(scopes)
<1>1. l \in Nat /\ l > 0 /\ Len(live) = l
  BY ScopesAre DEF Levels
<1>2. l \in 1 .. l /\ \A k \in 1 .. l : ~(k > l)
  <2>. HIDE DEF l
  <2>. QED
    BY <1>1
<1>3. scopes' = scopes /\ live' = live /\ slotCount' = slotCount
  BY DEF env
<1>4. scopes \in Seq(Scope) /\ live \in Seq(SUBSET Ident)
  BY DEF Typed
<1>5. /\ fn' = "" => l = 1
      /\ fn' \in {"Init", "Run"} => l > 1
  BY DEF Levels
<1>6. fn' = "Run" => \A s \in DOMAIN scopes[1] :
                        scopes[1][s].kind = "input" => \E m \in live[2] : s = <<m>>
  <2>1. 1 \in 1 .. l
    <3>. HIDE DEF l
    <3>. QED
      BY <1>1
  <2>2. \A s \in DOMAIN scopes[1] : BindingOK(1, s, scopes[1][s])
    BY <2>1 DEF BindingsOK
  <2>. QED
    BY <2>2 DEF BindingOK
<1>7. Reshapes(l)
  BY <1>1, <1>2, <1>3, <1>4, <1>5, <1>6 DEF Reshapes
<1>. QED
  BY <1>2, <1>7

\* The scope that is opened is empty.
LEMMA EmptyScope ==
    LET m == [s \in {} |-> Name("let", NoType)] IN m \in Scope /\ DOMAIN m = {}
<1>. DEFINE m == [s \in {} |-> Name("let", NoType)]
<1>1. DOMAIN m = {} /\ m \in [{} -> Binding]
  OBVIOUS
<1>. QED
  BY <1>1, Zenon DEF Scope

\* A block that is opened.
LEMMA EncloseReshapes ==
    ASSUME Typed, Levels, BindingsOK, Enclose({}), fn \in {"Init", "Run"}, fn' = fn,
           slotCount' = slotCount, ~failed' => ~failed
    PROVE  \E n \in 1 .. Len(scopes) : Reshapes(n)
<1>. DEFINE l == Len(scopes)
            m == [s \in {} |-> Name("let", NoType)]
<1>1. l \in Nat /\ l > 1 /\ Len(live) = l
  BY ScopesAre DEF Levels
<1>2. m \in Scope /\ DOMAIN m = {}
  BY EmptyScope
<1>3. scopes' = Append(scopes, m) /\ live' = Append(live, {})
  BY DEF Enclose
<1>. HIDE DEF m
<1>4. scopes \in Seq(Scope) /\ live \in Seq(SUBSET Ident)
  BY DEF Typed
<1>5. /\ scopes' \in Seq(Scope) /\ Len(scopes') = l + 1
      /\ \A k \in 1 .. l : scopes'[k] = scopes[k]
      /\ scopes'[l + 1] = m
  BY <1>2, <1>3, <1>4, AppendProperties
<1>6. {} \in SUBSET Ident
  OBVIOUS
<1>7. /\ live' \in Seq(SUBSET Ident) /\ Len(live') = Len(live) + 1
      /\ \A k \in 1 .. Len(live) : live'[k] = live[k]
  BY <1>3, <1>4, <1>6, AppendProperties
<1>8. l \in 1 .. l /\ 1 \in 1 .. l /\ 2 \in 1 .. l /\ l + 1 > 1 /\ l + 1 # 1
      /\ \A k \in 1 .. l + 1 : k > l => k = l + 1
  <2>. HIDE DEF l
  <2>. QED
    BY <1>1
<1>9. fn' = "Run" => \A s \in DOMAIN scopes[1] :
                        scopes[1][s].kind = "input" => \E x \in live'[2] : s = <<x>>
  <2>1. \A s \in DOMAIN scopes[1] : BindingOK(1, s, scopes[1][s])
    BY <1>8 DEF BindingsOK
  <2>2. live'[2] = live[2]
    BY <1>1, <1>7, <1>8
  <2>. QED
    BY <2>1, <2>2 DEF BindingOK
<1>10. Reshapes(l)
  <2>1. \A k \in 1 .. Len(scopes') : k > l => DOMAIN scopes'[k] = {}
    BY <1>2, <1>5, <1>8
  <2>2. \A k \in 1 .. l : scopes'[k] = scopes[k] /\ live'[k] = live[k]
    BY <1>1, <1>5, <1>7
  <2>3. Len(live') = Len(scopes') /\ Len(scopes') = l + 1 /\ Len(scopes') > 1
    BY <1>1, <1>5, <1>7, <1>8
  <2>. QED
    BY <1>5, <1>7, <1>8, <1>9, <2>1, <2>2, <2>3 DEF Reshapes
<1>. QED
  BY <1>8, <1>10

\* A block that is closed.
LEMMA LeaveReshapes ==
    ASSUME Typed, Levels, BindingsOK, Leave, Len(scopes) > 2, fn' = fn, fn \in {"Init", "Run"},
           slotCount' = slotCount, ~failed' => ~failed
    PROVE  \E n \in 1 .. Len(scopes) : Reshapes(n)
<1>. DEFINE l == Len(scopes)
            n == l - 1
<1>1. l \in Nat /\ l > 2 /\ Len(live) = l /\ DOMAIN scopes = 1 .. l /\ DOMAIN live = 1 .. l
      /\ \A k \in 1 .. l : scopes[k] \in Scope /\ live[k] \in SUBSET Ident
  BY ScopesAre DEF Levels
<1>2. n \in Nat /\ n > 1 /\ n \in 1 .. l /\ 1 \in 1 .. n /\ 2 \in 1 .. n /\ 1 \in 1 .. l
      /\ \A k \in 1 .. n : k \in 1 .. l /\ ~(k > n)
  <2>1. l \in Nat /\ l > 2
    BY <1>1
  <2>. HIDE DEF l
  <2>. QED
    BY <2>1
<1>3. scopes' = SubSeq(scopes, 1, n) /\ live' = SubSeq(live, 1, n)
  BY <1>1 DEF Leave
<1>. HIDE DEF n
<1>4. /\ scopes' \in Seq(Scope) /\ Len(scopes') = n
      /\ \A k \in 1 .. n : scopes'[k] = scopes[k]
  <2>1. \A k \in 1 .. n : scopes[k] \in Scope
    BY <1>1, <1>2
  <2>2. /\ SubSeq(scopes, 1, n) \in Seq(Scope)
        /\ Len(SubSeq(scopes, 1, n)) = IF 1 <= n THEN n - 1 + 1 ELSE 0
        /\ \A k \in 1 .. n - 1 + 1 : SubSeq(scopes, 1, n)[k] = scopes[1 + k - 1]
    BY <1>2, <2>1, SubSeqProperties
  <2>. QED
    BY <1>2, <1>3, <2>2
<1>5. /\ live' \in Seq(SUBSET Ident) /\ Len(live') = n
      /\ \A k \in 1 .. n : live'[k] = live[k]
  <2>1. \A k \in 1 .. n : live[k] \in SUBSET Ident
    BY <1>1, <1>2
  <2>2. /\ SubSeq(live, 1, n) \in Seq(SUBSET Ident)
        /\ Len(SubSeq(live, 1, n)) = IF 1 <= n THEN n - 1 + 1 ELSE 0
        /\ \A k \in 1 .. n - 1 + 1 : SubSeq(live, 1, n)[k] = live[1 + k - 1]
    BY <1>2, <2>1, SubSeqProperties
  <2>. QED
    BY <1>2, <1>3, <2>2
<1>6. fn' = "Run" => \A s \in DOMAIN scopes[1] :
                        scopes[1][s].kind = "input" => \E x \in live'[2] : s = <<x>>
  <2>1. \A s \in DOMAIN scopes[1] : BindingOK(1, s, scopes[1][s])
    BY <1>2 DEF BindingsOK
  <2>2. live'[2] = live[2]
    BY <1>2, <1>5
  <2>. QED
    BY <2>1, <2>2 DEF BindingOK
<1>7. Reshapes(n)
  BY <1>2, <1>4, <1>5, <1>6 DEF Reshapes
<1>. QED
  BY <1>2, <1>7

\* A function that is entered.
LEMMA EnterReshapes ==
    ASSUME Typed, Levels, NEW names \in SUBSET Ident, EnterFn(names), fn' \in {"Init", "Run"},
           slotCount' = slotCount, ~failed' => ~failed,
           fn' = "Run" => \A s \in DOMAIN scopes[1] :
                             scopes[1][s].kind = "input" => \E x \in names : s = <<x>>
    PROVE  \E n \in 1 .. Len(scopes) : Reshapes(n)
<1>. DEFINE l == Len(scopes)
            m == [s \in {} |-> Name("let", NoType)]
            s1 == scopes[1]
            l1 == live[1]
<1>1. /\ l \in Nat /\ l > 0 /\ Len(live) = l
      /\ \A k \in 1 .. l : scopes[k] \in Scope /\ live[k] \in SUBSET Ident
  BY ScopesAre DEF Levels
<1>2. 1 \in 1 .. l
  <2>. HIDE DEF l
  <2>. QED
    BY <1>1
<1>3. m \in Scope /\ DOMAIN m = {}
  BY EmptyScope
<1>4. scopes' = <<s1, m>> /\ live' = <<l1, names>>
  BY DEF EnterFn
<1>5. s1 \in Scope /\ l1 \in SUBSET Ident
  BY <1>1, <1>2
<1>. HIDE DEF m, s1, l1
<1>6. /\ scopes' \in Seq(Scope) /\ Len(scopes') = 2 /\ scopes'[1] = s1 /\ scopes'[2] = m
      /\ live' \in Seq(SUBSET Ident) /\ Len(live') = 2 /\ live'[1] = l1 /\ live'[2] = names
  BY <1>3, <1>4, <1>5
<1>7. /\ \A k \in 1 .. 1 : scopes'[k] = scopes[k] /\ live'[k] = live[k]
      /\ \A k \in 1 .. Len(scopes') : k > 1 => DOMAIN scopes'[k] = {}
  BY <1>3, <1>6 DEF s1, l1
<1>8. fn' = "Run" => \A s \in DOMAIN scopes[1] :
                        scopes[1][s].kind = "input" => \E x \in live'[2] : s = <<x>>
  BY <1>6
<1>9. /\ Len(live') = Len(scopes') /\ Len(scopes') = 1 + 1 /\ Len(scopes') > 1
      /\ fn' # ""
  <2>1. Len(scopes') = 2 /\ Len(live') = 2
    BY <1>6
  <2>2. fn' # ""
    OBVIOUS
  <2>3. 2 = 1 + 1 /\ 2 > 1
    OBVIOUS
  <2>. QED
    BY <2>1, <2>2, <2>3, Zenon
<1>10. Reshapes(1)
  BY <1>2, <1>6, <1>7, <1>8, <1>9, Zenon DEF Reshapes
<1>. QED
  BY <1>2, <1>10

-----------------------------------------------------------------------------
(* The steps of declarations and statements *)

\* The environments change in one of the two ways.
EnvStep == (\E n \in 1 .. Len(scopes) : Reshapes(n)) \/ (\E s, b : Binds(s, b))

\* No argument is missing unless one was refused, and a mistake is reported once.
ReportsOK ==
    /\ \A d \in report' : d[1] = "ARG_MISSING" => ~Top.ok
    /\ /\ stmt # Idle /\ IsValue(Len(work)) /\ Len(work') <= Len(work)
       /\ stmt.kind \notin {"assign", "decl"} \/ stmt' = stmt
       /\ report' # {}
       => \E k \in Len(work') .. Len(work) : IsValue(k) /\ work[k].type # ErrorType

\* A step between two expressions.
Turns ==
    /\ EnvStep
    /\ todo' = todo \/ (todo # << >> /\ todo' = Tail(todo))
    /\ declared' = declared /\ fn' \in {"", "Init", "Run", "done"}
    /\ stmt' \in Statement /\ StmtOK'
    /\ \/ work' = work \/ work' = << >>
       \/ \E c \in OpenCall : /\ work' = <<c>> /\ CallOK(c)
                              /\ ~failed' => c.ok /\ c.clean /\ c.type # ErrorType
    /\ failed' = (failed \/ report' # {})
    /\ crash' \in SUBSET Panic
    /\ crash = {} /\ ~failed' => crash' = {}
    /\ ReportsOK

\* Nothing is to be resolved, before and after.
LEMMA IdleTurns ==
    ASSUME Typed, EnvStep, stmt = Idle, UNCHANGED <<declared, stmt, work, crash>>,
           todo' = todo \/ (todo # << >> /\ todo' = Tail(todo)),
           fn' \in {"", "Init", "Run", "done"},
           NEW codes, Report(codes), \A d \in codes : d[1] # "ARG_MISSING"
    PROVE  Turns
<1>1. stmt' \in Statement /\ stmt'.kind = "none" /\ crash' \in SUBSET Panic
  BY DEF Typed, Statement, Idle
<1>2. StmtOK'
  BY <1>1 DEF StmtOK
<1>3. ReportsOK
  BY DEF ReportsOK, Report
<1>. QED
  BY <1>1, <1>2, <1>3 DEF Turns, Report

\* A statement begins.
LEMMA BeginTurns ==
    ASSUME Typed, EnvStep, stmt = Idle, UNCHANGED <<position, crash>>,
           NEW s \in Statement, Begin(s), StmtOK',
           NEW codes, Report(codes), \A d \in codes : d[1] # "ARG_MISSING"
    PROVE  Turns
<1>1. crash' \in SUBSET Panic /\ fn' \in {"", "Init", "Run", "done"} /\ stmt' = s /\ work' = << >>
  BY DEF Typed, position, Begin
<1>2. ReportsOK
  BY DEF ReportsOK, Report
<1>. QED
  BY <1>1, <1>2 DEF Turns, Report, position

\* Numbers: 1 is one of 0 and 1, and a successor is not zero.
LEMMA OneIs == 1 \in 0 .. 1
OBVIOUS

\* A successor is not zero.
LEMMA SuccessorIs ==
    ASSUME NEW n \in Nat
    PROVE  n + 1 \in Nat /\ n + 1 # 0
OBVIOUS

\* A statement is finished.
LEMMA EndTurns ==
    ASSUME Typed, EnvStep, Begin(Idle), declared' = declared,
           todo' = todo \/ (todo # << >> /\ todo' = Tail(todo)),
           fn' \in {"", "Init", "Run", "done"},
           NEW codes, Report(codes), \A d \in codes : d[1] = "ARG_MISSING" => ~Top.ok,
           crash' \in SUBSET Panic, crash = {} /\ ~failed' => crash' = {},
           \/ codes = {} \/ stmt = Idle \/ ~IsValue(Len(work)) \/ stmt.kind \in {"assign", "decl"}
           \/ (Len(work) = 1 /\ Top.type # ErrorType)
    PROVE  Turns
<1>1. stmt' = Idle /\ stmt' \in Statement /\ stmt'.kind = "none" /\ work' = << >>
  BY DEF Begin, Statement, Idle
<1>2. StmtOK'
  BY <1>1 DEF StmtOK
<1>3. report' = codes
  BY DEF Report
<1>4. ASSUME stmt # Idle, IsValue(Len(work)), report' # {},
             stmt.kind \notin {"assign", "decl"} \/ stmt' = stmt
      PROVE  \E k \in Len(work') .. Len(work) : IsValue(k) /\ work[k].type # ErrorType
  <2>1. Len(work) = 1 /\ Top.type # ErrorType
    BY <1>1, <1>3, <1>4
  <2>2. Len(work') = 0
    BY <1>1, EmptySeq
  <2>3. 1 \in 0 .. 1
    BY OneIs
  <2>. QED
    BY <1>4, <2>1, <2>2, <2>3 DEF Top
<1>5. ReportsOK
  BY <1>3, <1>4 DEF ReportsOK
<1>. QED
  BY <1>1, <1>2, <1>5 DEF Turns, Report

\* A bad statement.
LEMMA BadStmtTurns ==
    ASSUME Known, NEW codes, BadStmt(codes), failed \/ codes # {},
           \A d \in codes : d[1] = "ARG_MISSING" => ~Top.ok,
           codes = {} \/ stmt = Idle \/ ~IsValue(Len(work)) \/ stmt.kind \in {"assign", "decl"}
    PROVE  Turns
<1>1. Typed /\ Levels /\ BindingsOK
  BY DEF Known
<1>2. Report(codes) /\ Begin(Idle) /\ UNCHANGED <<position, env>> /\ Panics({"bad node"})
  BY DEF BadStmt
<1>3. failed' /\ fn' = fn
  BY <1>2 DEF Report, position
<1>4. crash' = {}
  BY <1>2, <1>3 DEF Panics
<1>5. EnvStep
  BY <1>1, <1>2, <1>3, StaysReshape DEF EnvStep
<1>6. fn' \in {"", "Init", "Run", "done"} /\ todo' = todo /\ declared' = declared
  BY <1>1, <1>2 DEF position, Typed
<1>. QED
  BY <1>1, <1>2, <1>4, <1>5, <1>6, EndTurns

\* Where nothing of the environments changes.
LEMMA EnvStays ==
    ASSUME Known, UNCHANGED env, fn' = fn \/ fn' = "done", NEW codes, Report(codes)
    PROVE  EnvStep
<1>1. Typed /\ Levels /\ BindingsOK /\ (~failed' => ~failed)
  BY DEF Known, Report
<1>. QED
  BY <1>1, StaysReshape DEF EnvStep

-----------------------------------------------------------------------------
(* Declarations *)

\* The next declaration.
LEMMA HeadIs ==
    ASSUME Typed, todo # << >>
    PROVE  /\ Head(todo) \in Decl /\ Tail(todo) \in Seq(Decl)
           /\ Len(Tail(todo)) = Len(todo) - 1 /\ Len(todo) \in Nat \ {0}
           /\ \A k \in 1 .. Len(Tail(todo)) : Tail(todo)[k] = todo[k + 1]
           /\ Head(todo) = todo[1]
<1>1. todo \in Seq(Decl)
  BY DEF Typed
<1>. QED
  BY <1>1, HeadTailProperties, EmptySeq

\* A code of a name that is taken.
LEMMA TakenCodeIs ==
    ASSUME NEW s
    PROVE  TakenCode(s)[1] # "ARG_MISSING"
BY DEF TakenCode

\* A declaration of a name that has one,
LEMMA NameTakenStep ==
    ASSUME Known, NameTaken
    PROVE  Turns
<1>. DEFINE codes == {TakenCode(SlotSymbol(Head(todo)))}
<1>1. /\ Typed /\ todo # << >> /\ stmt = Idle /\ todo' = Tail(todo) /\ Report(codes)
      /\ UNCHANGED <<declared, fn, env, stmt, work, crash>>
  BY DEF NameTaken, Deciding, Between, Known
<1>2. \A d \in codes : d[1] # "ARG_MISSING"
  BY TakenCodeIs
<1>. HIDE DEF codes
<1>3. EnvStep
  BY <1>1, EnvStays
<1>4. fn' \in {"", "Init", "Run", "done"}
  BY <1>1 DEF Typed
<1>. QED
  BY <1>1, <1>2, <1>3, <1>4, IdleTurns

\* or of no known kind, is dropped.
LEMMA UnknownWordStep ==
    ASSUME Known, UnknownWord
    PROVE  Turns
<1>. DEFINE codes == {<<"UNKNOWN_DECL_KEYWORD">>}
<1>1. /\ Typed /\ todo # << >> /\ stmt = Idle /\ todo' = Tail(todo) /\ Report(codes)
      /\ UNCHANGED <<declared, fn, env, stmt, work, crash>>
  BY DEF UnknownWord, Deciding, Between, Known
<1>2. \A d \in codes : d[1] # "ARG_MISSING"
  OBVIOUS
<1>. HIDE DEF codes
<1>3. EnvStep
  BY <1>1, EnvStays
<1>4. fn' \in {"", "Init", "Run", "done"}
  BY <1>1 DEF Typed
<1>. QED
  BY <1>1, <1>2, <1>3, <1>4, IdleTurns

\* Kinds and their words.
LEMMA WordIs ==
    ASSUME NEW w \in DOMAIN Kinds
    PROVE  /\ w \notin {"const", "input", "output"}
           /\ Kinds[w].assignable \in BOOLEAN
           /\ Kinds[w].namespaced => w \in Ident /\ w \in DeclWords
<1>1. Kinds[w] \in Kind
  BY NameAssumption
<1>. QED
  BY <1>1, NameAssumption DEF Kind, DeclWords

\* What a declaration binds is a symbol: a bare name, but for slots of some kinds.
LEMMA SymbolIs ==
    ASSUME NEW d \in Decl
    PROVE  /\ SlotSymbol(d) \in Symbol /\ <<d.name>> \in Symbol /\ d.name \in Ident
           /\ d.word \in {"const", "input", "output"} => SlotSymbol(d) = <<d.name>>
<1>1. d.name \in Ident
  BY DEF Decl
<1>2. <<d.name>> \in Symbol
  BY <1>1 DEF Symbol
<1>3. CASE d.word \in DOMAIN Kinds /\ Kinds[d.word].namespaced
  <2>1. d.word \in Ident /\ d.word \notin {"const", "input", "output"}
    BY <1>3, WordIs
  <2>2. SlotSymbol(d) = <<d.word, d.name>>
    BY <1>3 DEF SlotSymbol
  <2>3. <<d.word, d.name>> \in Ident \X Ident
    BY <1>1, <2>1
  <2>. QED
    BY <1>1, <1>2, <2>1, <2>2, <2>3 DEF Symbol
<1>4. CASE ~(d.word \in DOMAIN Kinds /\ Kinds[d.word].namespaced)
  <2>1. SlotSymbol(d) = <<d.name>>
    BY <1>4 DEF SlotSymbol
  <2>. QED
    BY <1>1, <1>2, <2>1
<1>. QED
  BY <1>3, <1>4

\* The type a declaration has written is one, or it is the error type.
LEMMA DeclaredTypeIs ==
    ASSUME NEW d \in Decl
    PROVE  /\ DeclaredType(d) \in TypeId
           /\ d.type # "absent" /\ UnknownType(d) = {} => DeclaredType(d) # ErrorType
           /\ \A x \in UnknownType(d) : x[1] # "ARG_MISSING"
<1>1. d.type \in RegType \cup {"absent", "unknown"}
  BY DEF Decl
<1>2. DeclaredType(d) \in TypeId
  BY DEF DeclaredType, TypeId
<1>3. d.type # "absent" /\ UnknownType(d) = {} => DeclaredType(d) # ErrorType
  <2>1. d.type = "unknown" => UnknownType(d) # {}
    BY DEF UnknownType
  <2>. QED
    BY <1>1, <2>1, TypeAssumption DEF DeclaredType
<1>4. \A x \in UnknownType(d) : x[1] # "ARG_MISSING"
  BY DEF UnknownType
<1>. QED
  BY <1>2, <1>3, <1>4

\* A binding without a slot.
LEMMA NameIs ==
    ASSUME NEW kind \in BindingKind, NEW t \in TypeId
    PROVE  LET b == Name(kind, t) IN
           /\ b \in Binding /\ b.kind = kind /\ b.type = t /\ b.slot = 0
           /\ b.assignable => kind = "let"
BY DEF Name, Binding

\* A bare name is not a qualified one.
LEMMA BareIs ==
    ASSUME NEW n, NEW w, NEW m
    PROVE  <<n>> # <<w, m>>
<1>1. Len(<<n>>) = 1 /\ Len(<<w, m>>) = 2
  OBVIOUS
<1>. QED
  BY <1>1

\* A port binds its name.
LEMMA DeclarePortStep ==
    ASSUME Known, PortsTyped, DeclarePort
    PROVE  Turns
<1>. DEFINE d == Head(todo)
            s == <<d.name>>
            codes == UnknownType(d)
            t == DeclaredType(d)
            b == Name(d.word, t)
<1>1. /\ Typed /\ Levels /\ todo # << >> /\ stmt = Idle /\ fn = "" /\ todo' = Tail(todo)
      /\ Report(codes) /\ d.word \in {"input", "output"} /\ ~Taken(d) /\ Set(s, b)
      /\ UNCHANGED <<declared, fn, slotCount, live, stmt, work, crash>>
  BY DEF DeclarePort, Deciding, Between, Known
<1>2. d \in Decl /\ d.type # "absent"
  <2>1. d \in Decl /\ d = todo[1] /\ Len(todo) \in Nat \ {0}
    BY <1>1, HeadIs
  <2>2. 1 \in 1 .. Len(todo)
    BY <2>1
  <2>3. todo[1].word \in {"input", "output"}
    BY <2>1, <1>1
  <2>. QED
    BY <2>1, <2>2, <2>3 DEF PortsTyped
<1>. HIDE DEF d
<1>3. s \in Symbol /\ s = SlotSymbol(d) /\ d.name \in Ident
  BY <1>1, <1>2, SymbolIs
<1>4. t \in TypeId /\ (codes = {} => t # ErrorType) /\ \A x \in codes : x[1] # "ARG_MISSING"
  BY <1>2, DeclaredTypeIs
<1>. HIDE DEF t, codes
<1>5. d.word \in BindingKind /\ d.word # "let"
  BY <1>1 DEF BindingKind
<1>6. b \in Binding /\ b.kind = d.word /\ b.type = t /\ b.slot = 0 /\ ~b.assignable
  BY <1>4, <1>5, NameIs
<1>. HIDE DEF b
<1>7. ~Bound(s)
  BY <1>1, <1>3 DEF Taken
<1>8. ~failed' => ~failed /\ b.type # ErrorType
  BY <1>1, <1>4, <1>6 DEF Report
<1>9. live \in Seq(SUBSET Ident)
  BY <1>1 DEF Typed
<1>10. \A w \in DeclWords, n \in Ident : s # <<w, n>>
  BY BareIs
<1>11. b.kind \in {"input", "output"} /\ \E n \in Ident : s = <<n>>
  BY <1>1, <1>3, <1>6
<1>. HIDE DEF s
<1>12. Binds(s, b)
  BY <1>1, <1>3, <1>6, <1>7, <1>8, <1>9, <1>10, <1>11 DEF Binds
<1>13. EnvStep
  BY <1>12 DEF EnvStep
<1>14. fn' \in {"", "Init", "Run", "done"}
  BY <1>1
<1>. QED
  BY <1>1, <1>4, <1>13, <1>14, IdleTurns

\* A statement or declaration whose last operand is resolved.
LEMMA CompleteIs ==
    ASSUME Known, NEW kind, Complete(kind)
    PROVE  /\ Typed /\ stmt.kind = kind /\ Len(work) = 1 /\ IsValue(Len(work))
           /\ Top.type \in TypeId /\ (~failed => Top.type # ErrorType)
<1>1. Typed /\ WorkOK /\ stmt.kind = kind /\ Len(work) = 1 /\ IsValue(Len(work))
  BY DEF Complete, Known
<1>2. 1 \in 1 .. Len(work)
  BY <1>1
<1>3. Top = work[1] /\ Top \in Item /\ ItemOK(Top)
  BY <1>1, <1>2, WorkIs DEF Top, WorkOK
<1>. QED
  BY <1>1, <1>3, ItemIs DEF ItemOK

\* What waits for its initializer.
LEMMA DeclIs ==
    ASSUME Typed, StmtOK, stmt.kind = "decl"
    PROVE  LET d == stmt.decl IN
           /\ fn = "" /\ todo # << >> /\ d = Head(todo) /\ d \in Decl
           /\ ~Bound(SlotSymbol(d)) /\ (d.word = "const" \/ d.word \in DOMAIN Kinds)
           /\ d.word \in DOMAIN Kinds /\ d.type = "unknown" => failed
<1>1. /\ fn = "" /\ todo # << >> /\ stmt.decl = Head(todo)
      /\ ~Bound(SlotSymbol(stmt.decl))
      /\ stmt.decl.word = "const" \/ stmt.decl.word \in DOMAIN Kinds
      /\ stmt.decl.word \in DOMAIN Kinds /\ stmt.decl.type = "unknown" => failed
  BY DEF StmtOK, Taken
<1>2. stmt.decl \in Decl
  BY <1>1, HeadIs
<1>. QED
  BY <1>1, <1>2

\* A declaration begins that waits for its initializer.
LEMMA StartDeclTurns ==
    ASSUME Known, Deciding, ~Taken(Head(todo)), Begin([kind |-> "decl", decl |-> Head(todo)]),
           Head(todo).word = "const" \/ Head(todo).word \in DOMAIN Kinds,
           NEW codes, Report(codes), \A x \in codes : x[1] # "ARG_MISSING",
           Head(todo).word \in DOMAIN Kinds /\ Head(todo).type = "unknown" => codes # {},
           UNCHANGED <<position, env, crash>>
    PROVE  Turns
<1>. DEFINE d == Head(todo)
            s == [kind |-> "decl", decl |-> d]
<1>1. Typed /\ todo # << >> /\ fn = "" /\ stmt = Idle
  BY DEF Deciding, Between, Known
<1>2. d \in Decl
  BY <1>1, HeadIs
<1>3. s \in Statement /\ s.kind = "decl" /\ s.decl = d
  BY <1>2 DEF Statement
<1>4. todo' = todo /\ fn' = fn /\ scopes' = scopes /\ stmt' = s
  BY DEF position, env, Begin
<1>5. EnvStep
  BY <1>4, EnvStays
<1>6. StmtOK'
  <2>1. ~Taken(d)'
    <3>1. ~Bound(SlotSymbol(d))
      BY DEF Taken
    <3>2. d' = d
      BY <1>4
    <3>. QED
      BY <3>1, <3>2, <1>4 DEF Taken, Bound, SlotSymbol
  <2>2. d.word \in DOMAIN Kinds /\ d.type = "unknown" => failed'
    BY DEF Report
  <2>3. d' = d
    BY <1>4
  <2>4. stmt'.kind = "decl" /\ stmt'.decl = d /\ fn' = "" /\ todo' # << >> /\ d = Head(todo')
    BY <1>1, <1>3, <1>4
  <2>5. stmt'.decl.word \in {"const"} \cup DOMAIN Kinds
    BY <2>4
  <2>6. ~Taken(stmt.decl)'
    BY <2>1, <2>3, <2>4 DEF Taken, Bound, SlotSymbol
  <2>. HIDE DEF d, s
  <2>. QED
    BY <2>2, <2>4, <2>5, <2>6 DEF StmtOK
<1>. HIDE DEF s
<1>7. Begin(s)
  BY DEF s
<1>. QED
  BY <1>1, <1>3, <1>5, <1>6, <1>7, BeginTurns

\* A constant begins,
LEMMA StartConstStep ==
    ASSUME Known, StartConst
    PROVE  Turns
<1>. DEFINE codes == {}
<1>1. /\ Deciding /\ ~Taken(Head(todo)) /\ Begin([kind |-> "decl", decl |-> Head(todo)])
      /\ Head(todo).word = "const" /\ Report(codes) /\ UNCHANGED <<position, env, crash>>
  BY DEF StartConst
<1>2. /\ \A x \in codes : x[1] # "ARG_MISSING"
      /\ ~(Head(todo).word \in DOMAIN Kinds)
  BY <1>1, WordIs
<1>. HIDE DEF codes
<1>. QED
  BY <1>1, <1>2, StartDeclTurns

\* What is reported of a slot is not about arguments.
LEMMA SlotReportsAre ==
    ASSUME NEW d \in Decl
    PROVE  /\ \A x \in SlotReports(d) : x[1] # "ARG_MISSING"
           /\ d.type = "unknown" => SlotReports(d) # {}
           /\ UnknownType(d) \subseteq SlotReports(d)
           /\ \A type : \A x \in NotAllowed(d, type) : x[1] # "ARG_MISSING"
<1>1. \A x \in UnknownType(d) : x[1] # "ARG_MISSING"
  BY DeclaredTypeIs
<1>2. \A x \in SlotReports(d) : x[1] # "ARG_MISSING"
  BY <1>1 DEF SlotReports
<1>3. UnknownType(d) \subseteq SlotReports(d)
  BY DEF SlotReports
<1>4. d.type = "unknown" => UnknownType(d) # {}
  BY DEF UnknownType
<1>5. \A type : \A x \in NotAllowed(d, type) : x[1] # "ARG_MISSING"
  BY DEF NotAllowed
<1>. QED
  BY <1>2, <1>3, <1>4, <1>5

\* and a slot that has an initializer.
LEMMA StartSlotStep ==
    ASSUME Known, StartSlot
    PROVE  Turns
<1>. DEFINE codes == SlotReports(Head(todo))
<1>1. /\ Deciding /\ ~Taken(Head(todo)) /\ Begin([kind |-> "decl", decl |-> Head(todo)])
      /\ Head(todo).word \in DOMAIN Kinds /\ Report(codes) /\ UNCHANGED <<position, env, crash>>
  BY DEF StartSlot
<1>2. Head(todo) \in Decl
  BY HeadIs DEF StartSlot, Deciding, Known
<1>3. /\ \A x \in codes : x[1] # "ARG_MISSING"
      /\ Head(todo).type = "unknown" => codes # {}
  BY <1>2, SlotReportsAre
<1>. HIDE DEF codes
<1>. QED
  BY <1>1, <1>3, StartDeclTurns

\* A name that is bound to a value of its own in the innermost scope.
LEMMA BindsName ==
    ASSUME Typed, Levels, NEW n \in Ident, NEW kind \in {"let", "const"}, NEW t \in TypeId,
           Set(<<n>>, Name(kind, t)), SetLive(n), ~Bound(<<n>>), fn' = fn,
           slotCount' = slotCount, ~failed' => ~failed /\ t # ErrorType
    PROVE  EnvStep
<1>. DEFINE s == <<n>>
            b == Name(kind, t)
            l == Len(live)
            names == live[l] \cup {n}
<1>1. kind \in BindingKind
  BY DEF BindingKind
<1>2. b \in Binding /\ b.kind = kind /\ b.type = t /\ b.slot = 0 /\ (b.assignable => kind = "let")
  BY <1>1, NameIs
<1>3. s \in Symbol
  BY DEF Symbol
<1>4. /\ l \in Nat /\ l > 0 /\ Len(scopes) = l /\ live \in Seq(SUBSET Ident)
      /\ \A k \in 1 .. l : live[k] \in SUBSET Ident
  BY ScopesAre DEF Levels, Typed
<1>5. l \in 1 .. l
  <2>. HIDE DEF l
  <2>. QED
    BY <1>4
<1>6. names \in SUBSET Ident /\ n \in names /\ live[l] \subseteq names
  BY <1>4, <1>5
<1>7. live' = [live EXCEPT ![l] = names]
  BY DEF SetLive
<1>. HIDE DEF names
<1>8. /\ live' \in Seq(SUBSET Ident) /\ Len(live') = l
      /\ \A k \in 1 .. l : live'[k] = IF k = l THEN names ELSE live[k]
  BY <1>4, <1>5, <1>6, <1>7, ExceptSeq
<1>9. \A k \in 1 .. l : live[k] \subseteq live'[k]
  BY <1>6, <1>8
<1>10. \E x \in live'[Len(scopes)] : s = <<x>>
  BY <1>4, <1>5, <1>6, <1>8
<1>11. \A w \in DeclWords, m \in Ident : s # <<w, m>>
  BY BareIs
<1>. HIDE DEF b, s
<1>12. Set(s, b) /\ ~Bound(s)
  BY DEF s, b
<1>13. Binds(s, b)
  BY <1>2, <1>3, <1>8, <1>9, <1>10, <1>11, <1>12 DEF Binds
<1>. QED
  BY <1>13 DEF EnvStep

\* A constant binds its name, here and in the evaluator.
LEMMA FinishConstStep ==
    ASSUME Known, StmtOK, FinishConst
    PROVE  Turns
<1>. DEFINE d == stmt.decl
            codes == {}
<1>1. /\ Complete("decl") /\ d.word = "const"
      /\ Set(<<d.name>>, Name("const", Top.type)) /\ SetLive(d.name)
      /\ todo' = Tail(todo) /\ Begin(Idle) /\ Report(codes)
      /\ UNCHANGED <<declared, fn, slotCount, crash>>
  BY DEF FinishConst
<1>2. /\ Typed /\ Levels /\ stmt.kind = "decl" /\ Top.type \in TypeId
      /\ (~failed => Top.type # ErrorType)
  BY <1>1, CompleteIs DEF Known
<1>3. fn = "" /\ todo # << >> /\ d \in Decl /\ ~Bound(SlotSymbol(d))
  BY <1>2, DeclIs
<1>. HIDE DEF d
<1>4. d.name \in Ident /\ ~Bound(<<d.name>>)
  BY <1>1, <1>3, SymbolIs
<1>5. ~failed' => ~failed /\ Top.type # ErrorType
  BY <1>1, <1>2 DEF Report
<1>6. EnvStep
  BY <1>1, <1>2, <1>4, <1>5, BindsName
<1>7. fn' \in {"", "Init", "Run", "done"} /\ crash' \in SUBSET Panic /\ declared' = declared
      /\ (crash = {} /\ ~failed' => crash' = {})
  BY <1>1, <1>2 DEF Typed
<1>8. codes = {} /\ \A x \in codes : x[1] = "ARG_MISSING" => ~Top.ok
  OBVIOUS
<1>. HIDE DEF codes
<1>. QED
  BY <1>1, <1>2, <1>3, <1>6, <1>7, <1>8, EndTurns

\* A slot of its own.
LEMMA BindsSlot ==
    ASSUME Typed, Levels, NEW d \in Decl, d.word \in DOMAIN Kinds, ~Bound(SlotSymbol(d)),
           fn = "", NEW t \in TypeId, BindSlot(d, t), UNCHANGED <<fn, live>>,
           ~failed' => ~failed /\ t # ErrorType
    PROVE  EnvStep
<1>. DEFINE s == SlotSymbol(d)
            b == [kind |-> "slot", type |-> t, slot |-> slotCount + 1,
                  assignable |-> Kinds[d.word].assignable]
<1>1. slotCount \in Nat /\ live \in Seq(SUBSET Ident)
  BY DEF Typed
<1>2. slotCount + 1 \in Nat /\ slotCount + 1 # 0
  BY <1>1, SuccessorIs
<1>3. Kinds[d.word].assignable \in BOOLEAN
  BY WordIs
<1>4. /\ b \in Binding /\ b.kind = "slot" /\ b.type = t /\ b.slot = slotCount + 1
  BY <1>2, <1>3 DEF Binding, BindingKind
<1>5. s \in Symbol
  BY SymbolIs
<1>6. Set(s, b) /\ slotCount' = slotCount + 1
  BY DEF BindSlot
<1>. HIDE DEF s, b
<1>7. ~Bound(s)
  BY DEF s
<1>8. Binds(s, b)
  BY <1>1, <1>2, <1>4, <1>5, <1>6, <1>7 DEF Binds
<1>. QED
  BY <1>8 DEF EnvStep

\* A slot without an initializer binds its symbol to the next cell,
LEMMA DeclareSlotStep ==
    ASSUME Known, DeclareSlot
    PROVE  Turns
<1>. DEFINE d == Head(todo)
            missing == IF d.type = "absent" THEN {<<"TYPE_REQUIRED">>} ELSE {}
            t == DeclaredType(d)
            codes == SlotReports(d) \cup missing \cup NotAllowed(d, t)
<1>1. /\ Typed /\ Levels /\ todo # << >> /\ stmt = Idle /\ fn = "" /\ todo' = Tail(todo)
      /\ d.word \in DOMAIN Kinds /\ ~Taken(d) /\ BindSlot(d, t)
      /\ UNCHANGED <<declared, fn, live, stmt, work, crash>>
  BY DEF DeclareSlot, Deciding, Between, Known
<1>2. Report(codes)
  BY DEF DeclareSlot
<1>3. d \in Decl
  BY <1>1, HeadIs
<1>. HIDE DEF d
<1>4. \A x \in codes : x[1] # "ARG_MISSING"
  BY <1>3, SlotReportsAre
<1>5. t \in TypeId /\ (codes = {} => t # ErrorType)
  <2>1. codes = {} => d.type # "absent" /\ UnknownType(d) = {}
    BY <1>3, SlotReportsAre
  <2>. QED
    BY <2>1, <1>3, DeclaredTypeIs
<1>. HIDE DEF t, codes
<1>6. ~failed' => ~failed /\ t # ErrorType
  BY <1>2, <1>5 DEF Report
<1>7. ~Bound(SlotSymbol(d))
  BY <1>1 DEF Taken
<1>8. EnvStep
  BY <1>1, <1>3, <1>5, <1>6, <1>7, BindsSlot
<1>9. fn' \in {"", "Init", "Run", "done"}
  BY <1>1
<1>. QED
  BY <1>1, <1>2, <1>4, <1>8, <1>9, IdleTurns

\* and so does one with an initializer, if that has the right type.
LEMMA FinishSlotStep ==
    ASSUME Known, StmtOK, FinishSlot
    PROVE  Turns
<1>. DEFINE d == stmt.decl
            t == IF d.type = "absent" THEN Top.type ELSE DeclaredType(d)
<1>1. /\ Complete("decl") /\ d.word \in DOMAIN Kinds
      /\ todo' = Tail(todo) /\ Begin(Idle)
      /\ UNCHANGED <<declared, fn, live, crash>>
  BY DEF FinishSlot
<1>2. /\ Typed /\ Levels /\ stmt.kind = "decl" /\ Top.type \in TypeId
      /\ (~failed => Top.type # ErrorType)
  BY <1>1, CompleteIs DEF Known
<1>3. fn = "" /\ todo # << >> /\ d \in Decl /\ ~Bound(SlotSymbol(d))
      /\ (d.type = "unknown" => failed)
  BY <1>1, <1>2, DeclIs
<1>. HIDE DEF d
<1>4. fn' \in {"", "Init", "Run", "done"} /\ crash' \in SUBSET Panic /\ declared' = declared
      /\ (crash = {} /\ ~failed' => crash' = {})
  BY <1>1, <1>2 DEF Typed
<1>5. t \in TypeId /\ (~failed => t # ErrorType)
  <2>1. ~failed => UnknownType(d) = {}
    BY <1>3 DEF UnknownType
  <2>. QED
    BY <2>1, <1>2, <1>3, DeclaredTypeIs
<1>. HIDE DEF t
<1>6. CASE BindSlot(d, t) /\ Report(NotAllowed(d, t))
  <2>. DEFINE codes == NotAllowed(d, t)
  <2>1. \A x \in codes : x[1] = "ARG_MISSING" => ~Top.ok
    BY <1>3, SlotReportsAre
  <2>. HIDE DEF codes
  <2>2. Report(codes)
    BY <1>6 DEF codes
  <2>3. ~failed' => ~failed /\ t # ErrorType
    BY <1>5, <2>2 DEF Report
  <2>4. EnvStep
    BY <1>1, <1>2, <1>3, <1>5, <1>6, <2>3, BindsSlot
  <2>. QED
    BY <1>1, <1>2, <1>3, <1>4, <2>1, <2>2, <2>4, EndTurns
<1>7. CASE Report({<<"TYPE_MISMATCH">>}) /\ UNCHANGED <<scopes, slotCount>>
  <2>. DEFINE codes == {<<"TYPE_MISMATCH">>}
  <2>1. \A x \in codes : x[1] = "ARG_MISSING" => ~Top.ok
    OBVIOUS
  <2>. HIDE DEF codes
  <2>2. Report(codes)
    BY <1>7 DEF codes
  <2>3. EnvStep
    BY <1>1, <1>7, <2>2, EnvStays DEF env
  <2>. QED
    BY <1>1, <1>2, <1>3, <1>4, <2>1, <2>2, <2>3, EndTurns
<1>8. \/ BindSlot(d, t) /\ Report(NotAllowed(d, t))
      \/ Report({<<"TYPE_MISMATCH">>}) /\ UNCHANGED <<scopes, slotCount>>
  BY DEF FinishSlot, d, t
<1>. QED
  BY <1>6, <1>7, <1>8

-----------------------------------------------------------------------------
(* Functions and blocks *)

\* A step between statements that reports nothing.
LEMMA SilentTurns ==
    ASSUME Typed, EnvStep, stmt = Idle, UNCHANGED <<todo, declared, stmt, work, crash>>,
           fn' \in {"", "Init", "Run", "done"}, Report({})
    PROVE  Turns
<1>. DEFINE codes == {}
<1>1. \A d \in codes : d[1] # "ARG_MISSING"
  OBVIOUS
<1>. HIDE DEF codes
<1>2. Report(codes)
  BY DEF codes
<1>. QED
  BY <1>1, <1>2, IdleTurns

\* Init begins,
LEMMA ResolveInitStep ==
    ASSUME Known, ResolveInit
    PROVE  Turns
<1>1. /\ Typed /\ Levels /\ stmt = Idle /\ fn' = "Init" /\ EnterFn({}) /\ Report({})
      /\ UNCHANGED <<todo, declared, slotCount, stmt, work, crash>>
  BY DEF ResolveInit, Between, Known
<1>2. ~failed' => ~failed
  BY <1>1 DEF Report
<1>3. {} \in SUBSET Ident /\ fn' \in {"Init", "Run"} /\ fn' # "Run"
  BY <1>1
<1>4. EnvStep
  BY <1>1, <1>2, <1>3, EnterReshapes DEF EnvStep
<1>. QED
  BY <1>1, <1>3, <1>4, SilentTurns

\* Run begins, with the inputs in the evaluator's scope of it,
LEMMA ResolveRunStep ==
    ASSUME Known, ResolveRun
    PROVE  Turns
<1>. DEFINE names == InputNames
<1>1. /\ Typed /\ Levels /\ stmt = Idle /\ fn' = "Run" /\ EnterFn(names) /\ Report({})
      /\ UNCHANGED <<todo, declared, slotCount, stmt, work, crash>>
  BY DEF ResolveRun, Between, Known
<1>2. ~failed' => ~failed
  BY <1>1 DEF Report
<1>3. names \in SUBSET Ident /\ fn' \in {"Init", "Run"}
  BY <1>1 DEF InputNames
<1>4. \A s \in DOMAIN scopes[1] : scopes[1][s].kind = "input" => \E x \in names : s = <<x>>
  <2>1. 1 \in 1 .. Len(scopes)
    <3>1. Len(scopes) \in Nat /\ Len(scopes) > 0
      BY <1>1, ScopesAre DEF Levels
    <3>. QED
      BY <3>1
  <2>2. \A s \in DOMAIN scopes[1] : BindingOK(1, s, scopes[1][s])
    BY <2>1 DEF Known, BindingsOK
  <2>3. \A s \in DOMAIN scopes[1] : scopes[1][s].kind = "input" => \E x \in Ident : s = <<x>>
    BY <2>2 DEF BindingOK
  <2>. QED
    BY <2>3 DEF InputNames
<1>. HIDE DEF names
<1>5. EnvStep
  BY <1>1, <1>2, <1>3, <1>4, EnterReshapes DEF EnvStep
<1>6. fn' \in {"", "Init", "Run", "done"}
  BY <1>1
<1>. QED
  BY <1>1, <1>5, <1>6, SilentTurns

\* and ends.
LEMMA ReturnStep ==
    ASSUME Known, Return
    PROVE  Turns
<1>1. /\ Typed /\ stmt = Idle /\ fn' = "done" /\ Report({})
      /\ UNCHANGED <<todo, declared, env, stmt, work, crash>>
  BY DEF Return, Between, Known
<1>2. EnvStep
  BY <1>1, EnvStays
<1>3. fn' \in {"", "Init", "Run", "done"}
  BY <1>1
<1>. QED
  BY <1>1, <1>2, <1>3, SilentTurns

\* A block opens,
LEMMA OpenBlockStep ==
    ASSUME Known, OpenBlock
    PROVE  Turns
<1>1. /\ Typed /\ Levels /\ BindingsOK /\ stmt = Idle /\ fn \in {"Init", "Run"}
      /\ Enclose({}) /\ Report({})
      /\ UNCHANGED <<position, slotCount, stmt, work, crash>>
  BY DEF OpenBlock, InFunction, Between, Known
<1>2. (~failed' => ~failed) /\ fn' = fn /\ UNCHANGED <<todo, declared>>
  BY <1>1 DEF Report, position
<1>3. EnvStep
  BY <1>1, <1>2, EncloseReshapes DEF EnvStep
<1>4. fn' \in {"", "Init", "Run", "done"}
  BY <1>1, <1>2
<1>. QED
  BY <1>1, <1>2, <1>3, <1>4, SilentTurns

\* and closes.
LEMMA CloseBlockStep ==
    ASSUME Known, CloseBlock
    PROVE  Turns
<1>1. /\ Typed /\ Levels /\ BindingsOK /\ stmt = Idle /\ fn \in {"Init", "Run"}
      /\ Leave /\ Len(scopes) > 2 /\ Report({})
      /\ UNCHANGED <<position, slotCount, stmt, work, crash>>
  BY DEF CloseBlock, InFunction, Between, Known
<1>2. (~failed' => ~failed) /\ fn' = fn /\ UNCHANGED <<todo, declared>>
  BY <1>1 DEF Report, position
<1>3. EnvStep
  BY <1>1, <1>2, LeaveReshapes DEF EnvStep
<1>4. fn' \in {"", "Init", "Run", "done"}
  BY <1>1, <1>2
<1>. QED
  BY <1>1, <1>2, <1>3, <1>4, SilentTurns

-----------------------------------------------------------------------------
(* Statements *)

\* A statement that starts with an expression,
LEMMA StartStmtStep ==
    ASSUME Known, NEW kind \in {"expression", "if", "assign"}, StartStmt(kind)
    PROVE  Turns
<1>. DEFINE s == [kind |-> kind]
            codes == {}
<1>1. /\ Typed /\ stmt = Idle /\ fn \in {"Init", "Run"} /\ Begin(s) /\ Report(codes)
      /\ UNCHANGED <<position, env, crash>>
  BY DEF StartStmt, InFunction, Between, Known
<1>2. s \in Statement /\ s.kind = kind
  BY DEF Statement
<1>3. /\ fn' = fn /\ stmt' = s /\ UNCHANGED <<position, crash>>
      /\ \A d \in codes : d[1] # "ARG_MISSING"
  BY <1>1 DEF position, Begin
<1>. HIDE DEF codes
<1>4. EnvStep
  BY <1>1, <1>3, EnvStays
<1>5. StmtOK'
  BY <1>1, <1>2, <1>3 DEF StmtOK
<1>. HIDE DEF s
<1>. QED
  BY <1>1, <1>2, <1>3, <1>4, <1>5, BeginTurns

\* and a let.
LEMMA StartLetStep ==
    ASSUME Known, NEW n \in Ident, StartLet(n)
    PROVE  Turns
<1>1. /\ Typed /\ stmt = Idle /\ fn \in {"Init", "Run"} /\ UNCHANGED <<position, env, crash>>
      /\ fn' = fn /\ scopes' = scopes
  BY DEF StartLet, InFunction, Between, Known, position, env
<1>2. CASE ~NameInUse(n) /\ Begin([kind |-> "let", name |-> n]) /\ Report({})
  <2>. DEFINE s == [kind |-> "let", name |-> n]
              codes == {}
  <2>1. s \in Statement /\ s.kind = "let" /\ s.name = n /\ stmt' = s
    BY <1>2 DEF Statement, Begin
  <2>2. \A d \in codes : d[1] # "ARG_MISSING"
    OBVIOUS
  <2>. HIDE DEF codes
  <2>3. Report(codes) /\ Begin(s)
    BY <1>2 DEF codes
  <2>4. EnvStep
    BY <1>1, <2>3, EnvStays
  <2>. HIDE DEF s
  <2>5. ~Bound(<<stmt.name>>)'
    BY <1>1, <1>2, <2>1 DEF NameInUse, Bound
  <2>6. StmtOK'
    BY <1>1, <2>1, <2>5 DEF StmtOK
  <2>. QED
    BY <1>1, <2>1, <2>2, <2>3, <2>4, <2>6, BeginTurns
<1>3. CASE Begin([kind |-> "let taken"]) /\ Report({TakenCode(<<n>>)})
  <2>. DEFINE s == [kind |-> "let taken"]
              codes == {TakenCode(<<n>>)}
  <2>1. s \in Statement /\ s.kind = "let taken" /\ stmt' = s
    BY <1>3 DEF Statement, Begin
  <2>2. codes # {} /\ \A d \in codes : d[1] # "ARG_MISSING"
    BY TakenCodeIs
  <2>. HIDE DEF codes
  <2>3. Report(codes) /\ Begin(s)
    BY <1>3 DEF codes
  <2>4. EnvStep
    BY <1>1, <2>3, EnvStays
  <2>. HIDE DEF s
  <2>5. failed'
    BY <2>2, <2>3 DEF Report
  <2>6. StmtOK'
    BY <1>1, <2>1, <2>5 DEF StmtOK
  <2>. QED
    BY <1>1, <2>1, <2>2, <2>3, <2>4, <2>6, BeginTurns
<1>. QED
  BY <1>2, <1>3 DEF StartLet

\* An expression is one.
LEMMA FinishExprStep ==
    ASSUME Known, FinishExpr
    PROVE  Turns
<1>. DEFINE codes == {}
<1>1. /\ Typed /\ Begin(Idle) /\ Report(codes) /\ UNCHANGED <<position, env, crash>>
  BY DEF FinishExpr, Known
<1>2. /\ fn' \in {"", "Init", "Run", "done"} /\ crash' \in SUBSET Panic
      /\ declared' = declared /\ todo' = todo /\ fn' = fn
      /\ (crash = {} /\ ~failed' => crash' = {})
  BY <1>1 DEF Typed, position
<1>3. codes = {} /\ \A d \in codes : d[1] = "ARG_MISSING" => ~Top.ok
  OBVIOUS
<1>. HIDE DEF codes
<1>4. EnvStep
  BY <1>1, <1>2, EnvStays
<1>. QED
  BY <1>1, <1>2, <1>3, <1>4, EndTurns

\* A bad statement without a report of its own.
LEMMA BadStmtSilent ==
    ASSUME Known, BadStmt({}), failed
    PROVE  Turns
<1>. DEFINE codes == {}
<1>1. codes = {} /\ \A d \in codes : d[1] = "ARG_MISSING" => ~Top.ok
  OBVIOUS
<1>. HIDE DEF codes
<1>2. BadStmt(codes)
  BY DEF codes
<1>. QED
  BY <1>1, <1>2, BadStmtTurns

\* A let binds its name, here and in the evaluator.
LEMMA FinishLetStep ==
    ASSUME Known, StmtOK, FinishLet
    PROVE  Turns
<1>. DEFINE codes == {}
<1>1. CASE /\ Complete("let") /\ Set(<<stmt.name>>, Name("let", Top.type))
           /\ SetLive(stmt.name) /\ Begin(Idle) /\ Report(codes)
           /\ UNCHANGED <<position, slotCount, crash>>
  <2>1. /\ Typed /\ Levels /\ stmt.kind = "let" /\ Top.type \in TypeId
        /\ (~failed => Top.type # ErrorType)
    BY <1>1, CompleteIs DEF Known
  <2>2. ~Bound(<<stmt.name>>) /\ stmt.name \in Ident
    <3>1. stmt \in Statement
      BY <2>1 DEF Typed
    <3>2. stmt \in [kind : {"let"}, name : Ident]
      <4>1. \/ stmt = Idle \/ stmt \in [kind : {"decl"}, decl : Decl]
            \/ stmt \in [kind : {"let"}, name : Ident]
            \/ stmt \in [kind : {"let taken", "assign", "expression", "if", "emit"}]
        BY <3>1 DEF Statement
      <4>2. stmt # Idle
        BY <2>1 DEF Idle
      <4>3. stmt \notin [kind : {"decl"}, decl : Decl]
        BY <2>1
      <4>4. stmt \notin [kind : {"let taken", "assign", "expression", "if", "emit"}]
        BY <2>1
      <4>. QED
        BY <4>1, <4>2, <4>3, <4>4
    <3>3. ~Bound(<<stmt.name>>)
      BY <2>1 DEF StmtOK
    <3>. QED
      BY <3>2, <3>3
  <2>3. /\ fn' \in {"", "Init", "Run", "done"} /\ crash' \in SUBSET Panic
        /\ declared' = declared /\ todo' = todo /\ fn' = fn
        /\ (crash = {} /\ ~failed' => crash' = {})
    BY <1>1, <2>1 DEF Typed, position
  <2>4. ~failed' => ~failed /\ Top.type # ErrorType
    BY <1>1, <2>1 DEF Report
  <2>5. EnvStep
    BY <1>1, <2>1, <2>2, <2>3, <2>4, BindsName
  <2>6. codes = {} /\ \A d \in codes : d[1] = "ARG_MISSING" => ~Top.ok
    OBVIOUS
  <2>. HIDE DEF codes
  <2>. QED
    BY <1>1, <2>1, <2>3, <2>5, <2>6, EndTurns
<1>2. CASE Complete("let taken") /\ BadStmt({})
  <2>1. failed
    BY <1>2 DEF Complete, StmtOK
  <2>. QED
    BY <1>2, <2>1, BadStmtSilent
<1>. QED
  BY <1>1, <1>2 DEF FinishLet

\* A bad statement with a report that is not about arguments.
LEMMA BadStmtReports ==
    ASSUME Known, NEW code, code # "ARG_MISSING", BadStmt({<<code>>}),
           stmt = Idle \/ stmt.kind = "assign"
    PROVE  Turns
<1>. DEFINE codes == {<<code>>}
<1>1. codes # {} /\ (\A d \in codes : d[1] = "ARG_MISSING" => ~Top.ok)
  OBVIOUS
<1>. HIDE DEF codes
<1>2. BadStmt(codes)
  BY DEF codes
<1>. QED
  BY <1>1, <1>2, BadStmtTurns

\* The evaluator finds what is assigned to.
LEMMA AssignToStep ==
    ASSUME Known, Complete("assign"), NEW s, NEW n \in Ident, Bound(s), AssignTo(s, n),
           s = <<n>> \/ (\E w : s = <<w, n>>)
    PROVE  Turns
<1>. DEFINE b == Get(s)
<1>1. /\ Typed /\ Levels /\ NoShadowing /\ BindingsOK
      /\ stmt.kind = "assign" /\ (~failed => Top.type # ErrorType)
  BY CompleteIs DEF Known
<1>2. PICK k \in 1 .. Len(scopes) : b \in Binding /\ BindingOK(k, s, b)
  BY <1>1, GetOK
<1>3. CASE BadStmt({<<"NOT_ASSIGNABLE">>})
  BY <1>1, <1>3, BadStmtReports
<1>4. CASE ErrorType \in {Top.type, b.type} /\ BadStmt({})
  <2>1. failed
    BY <1>1, <1>2, <1>4 DEF BindingOK
  <2>. QED
    BY <1>4, <2>1, BadStmtSilent
<1>5. CASE BadStmt({<<"TYPE_MISMATCH">>})
  BY <1>1, <1>5, BadStmtReports
<1>6. CASE /\ Assignable(b) /\ Begin(Idle) /\ Report({})
           /\ Panics(IF b.slot # 0 \/ InLive(n) THEN {} ELSE {"no such variable"})
           /\ UNCHANGED <<position, env>>
  <2>. DEFINE codes == {}
  <2>. HIDE DEF b
  <2>1. b.slot # 0 \/ InLive(n)
    <3>1. CASE b.slot # 0
      BY <3>1
    <3>2. CASE b.slot = 0
      <4>1. b.kind = "let"
        BY <3>2, <1>2, <1>6 DEF Assignable, BindingOK
      <4>2. PICK m \in live[k] : s = <<m>>
        BY <4>1, <1>2 DEF BindingOK
      <4>3. s = <<n>>
        <5>1. CASE s = <<n>>
          BY <5>1
        <5>2. CASE \E w : s = <<w, n>>
          BY <5>2, <4>2, BareIs
        <5>. QED
          BY <5>1, <5>2
      <4>4. n \in live[k] /\ k \in DOMAIN live
        <5>1. n = m
          BY <4>2, <4>3
        <5>2. k \in DOMAIN live
          BY <1>1, ScopesAre DEF Levels
        <5>. QED
          BY <4>2, <5>1, <5>2
      <4>. QED
        BY <4>4 DEF InLive
    <3>. QED
      BY <3>1, <3>2
  <2>2. crash' = IF failed' THEN {} ELSE crash \cup {}
    BY <1>6, <2>1 DEF Panics
  <2>3. /\ fn' \in {"", "Init", "Run", "done"} /\ crash' \in SUBSET Panic
        /\ declared' = declared /\ todo' = todo /\ fn' = fn
        /\ (crash = {} /\ ~failed' => crash' = {})
    BY <1>1, <1>6, <2>2 DEF Typed, position
  <2>4. codes = {} /\ \A d \in codes : d[1] = "ARG_MISSING" => ~Top.ok
    OBVIOUS
  <2>5. Report(codes)
    BY <1>6
  <2>. HIDE DEF codes
  <2>6. EnvStep
    BY <1>6, <2>3, <2>5, EnvStays
  <2>. QED
    BY <1>1, <1>6, <2>3, <2>4, <2>5, <2>6, EndTurns
<1>. QED
  BY <1>3, <1>4, <1>5, <1>6 DEF AssignTo

\* An assignment: without a diagnostic, its target is a slot or a live variable.
LEMMA FinishAssignStep ==
    ASSUME Known, FinishAssign
    PROVE  Turns
<1>1. Complete("assign") /\ stmt.kind = "assign"
  BY DEF FinishAssign, Complete
<1>2. ASSUME NEW n \in Ident, ~Bound(<<n>>) /\ BadStmt({<<"UNDEFINED_VAR">>})
      PROVE  Turns
  BY <1>1, <1>2, BadStmtReports
<1>3. ASSUME NEW n \in Ident, Bound(<<n>>) /\ AssignTo(<<n>>, n)
      PROVE  Turns
  BY <1>1, <1>3, AssignToStep
<1>4. CASE BadStmt({<<"INVALID_ASSIGN_TARGET">>})
  BY <1>1, <1>4, BadStmtReports
<1>5. CASE BadStmt({<<"SLOT_UNDECLARED">>})
  BY <1>1, <1>5, BadStmtReports
<1>6. ASSUME NEW w \in Ident, NEW n \in Ident, Bound(<<w, n>>) /\ AssignTo(<<w, n>>, n)
      PROVE  Turns
  BY <1>1, <1>6, AssignToStep
<1>. QED
  BY <1>2, <1>3, <1>4, <1>5, <1>6 DEF FinishAssign

\* A condition: without a diagnostic, it is Bool.
LEMMA FinishIfStep ==
    ASSUME Known, StmtOK, FinishIf
    PROVE  Turns
<1>. DEFINE codes == Mismatches({Top.type})
            what == NotBool({Top.type})
<1>1. /\ Complete("if") /\ Enclose({}) /\ Begin(Idle) /\ Report(codes) /\ Panics(what)
      /\ UNCHANGED <<position, slotCount>>
  BY DEF FinishIf
<1>2. /\ Typed /\ Levels /\ BindingsOK /\ stmt.kind = "if" /\ Len(work) = 1
      /\ (~failed => Top.type # ErrorType)
  BY <1>1, CompleteIs DEF Known
<1>3. /\ \A d \in codes : d[1] # "ARG_MISSING"
      /\ codes # {} => Top.type # ErrorType
      /\ Top.type # ErrorType /\ codes = {} => what = {}
      /\ what \in SUBSET Panic
  BY MismatchesAre
<1>. HIDE DEF codes, what
<1>4. fn \in {"Init", "Run"}
  BY <1>2 DEF StmtOK
<1>5. /\ fn' \in {"", "Init", "Run", "done"} /\ crash' \in SUBSET Panic
      /\ declared' = declared /\ todo' = todo /\ fn' = fn
  BY <1>1, <1>2, <1>3 DEF Typed, position, Panics
<1>6. (~failed' => ~failed) /\ (crash = {} /\ ~failed' => crash' = {})
  BY <1>1, <1>2, <1>3 DEF Report, Panics
<1>7. EnvStep
  BY <1>1, <1>2, <1>4, <1>5, <1>6, EncloseReshapes DEF EnvStep
<1>. QED
  BY <1>1, <1>2, <1>3, <1>5, <1>6, <1>7, EndTurns

\* An output's parameters.
LEMMA EmitRuleIs ==
    ASSUME NEW t \in TypeId
    PROVE  EmitRule(t).params \in Seq(Param) /\ EmitRule(t).type = t
<1>1. EmitRule(t).type = t
  BY DEF EmitRule
<1>2. CASE t \in DOMAIN Fields /\ Fields[t] # << >>
  BY <1>2, RuleAssumption DEF EmitRule
<1>3. CASE ~(t \in DOMAIN Fields /\ Fields[t] # << >>)
  <2>. DEFINE p == [name |-> "value", type |-> t, exact |-> FALSE]
  <2>1. p \in Param
    BY NameAssumption DEF Param
  <2>. HIDE DEF p
  <2>2. <<p>> \in Seq(Param)
    BY <2>1
  <2>3. EmitRule(t).params = <<p>>
    BY <1>3 DEF EmitRule, p
  <2>. QED
    BY <1>1, <2>2, <2>3
<1>. QED
  BY <1>1, <1>2, <1>3

\* An emit outside Run is reported; so is a wrong number of arguments.
LEMMA EmitReports ==
    ASSUME NEW params, NEW args
    PROVE  /\ \A d \in EmitOutsideRun : d[1] # "ARG_MISSING"
           /\ \A d \in CountMismatch(params, args) : d[1] # "ARG_MISSING"
           /\ CountMismatch(params, args) # {}
BY DEF EmitOutsideRun, CountMismatch

\* An emit begins, with a call of the output's fields,
LEMMA StartEmitStep ==
    ASSUME Known, StartEmit
    PROVE  Turns
<1>1. /\ Typed /\ NoShadowing /\ BindingsOK /\ stmt = Idle /\ fn \in {"Init", "Run"}
  BY DEF StartEmit, InFunction, Between, Known
<1>2. CASE BadStmt({<<"INVALID_EMIT_TARGET">>})
  BY <1>1, <1>2, BadStmtReports
<1>3. CASE BadStmt({<<"UNDEFINED_IDENT">>})
  BY <1>1, <1>3, BadStmtReports
<1>4. ASSUME NEW n \in Ident, NEW args \in ArgLists, Bound(<<n>>), EmitTo(n, args)
      PROVE  Turns
  <2>. DEFINE t == Get(<<n>>).type
              rule == EmitRule(t)
  <2>1. t \in TypeId /\ (~failed => t # ErrorType)
    <3>. DEFINE b == Get(<<n>>)
    <3>1. PICK k \in 1 .. Len(scopes) : b \in Binding /\ BindingOK(k, <<n>>, b)
      BY <1>1, <1>4, GetOK
    <3>. HIDE DEF b
    <3>2. b.type \in TypeId /\ (~failed => b.type # ErrorType)
      BY <3>1 DEF Binding, BindingOK
    <3>. QED
      BY <3>2 DEF b
  <2>. HIDE DEF t
  <2>2. rule.params \in Seq(Param) /\ rule.type = t /\ rule.type \in TypeId
    BY <2>1, EmitRuleIs
  <2>3. CASE BadStmt(EmitOutsideRun \cup CountMismatch(rule.params, args))
    <3>. DEFINE codes == EmitOutsideRun \cup CountMismatch(rule.params, args)
    <3>1. codes # {} /\ \A d \in codes : d[1] # "ARG_MISSING"
      BY EmitReports
    <3>. HIDE DEF codes
    <3>2. BadStmt(codes)
      BY <2>3 DEF codes
    <3>. QED
      BY <1>1, <3>1, <3>2, BadStmtTurns
  <2>4. CASE /\ Len(args) = Len(rule.params)
             /\ stmt' = [kind |-> "emit"] /\ work' = <<Call(rule, args, TRUE)>>
             /\ Report(EmitOutsideRun) /\ UNCHANGED <<position, env, crash>>
    <3>. DEFINE c == Call(rule, args, TRUE)
                codes == EmitOutsideRun
    <3>1. /\ c \in Item /\ c.tag = "call" /\ CallOK(c) /\ c.ok
          /\ c.type = rule.type /\ c.clean = TRUE
      BY <2>2, <2>4, CallIs
    <3>2. work' = <<c>> /\ Report(codes) /\ UNCHANGED <<position, env, crash>>
      BY <2>4
    <3>3. \A d \in codes : d[1] # "ARG_MISSING"
      BY EmitReports
    <3>. HIDE DEF c, codes
    <3>4. c \in OpenCall
      BY <3>1, ItemIs
    <3>5. stmt' \in Statement /\ stmt'.kind = "emit" /\ fn' = fn
      BY <2>4 DEF Statement, position
    <3>6. StmtOK'
      BY <1>1, <3>5 DEF StmtOK
    <3>7. EnvStep
      BY <3>2, <3>5, EnvStays
    <3>8. ~failed' => c.ok /\ c.clean /\ c.type # ErrorType
      BY <2>1, <2>2, <3>1, <3>2 DEF Report
    <3>9. ReportsOK
      BY <1>1, <3>2, <3>3 DEF ReportsOK, Report
    <3>10. /\ fn' \in {"", "Init", "Run", "done"} /\ crash' \in SUBSET Panic
           /\ declared' = declared /\ todo' = todo /\ crash' = crash
      BY <1>1, <3>2 DEF Typed, position
    <3>11. failed' = (failed \/ report' # {})
      BY <3>2 DEF Report
    <3>12. \E x \in OpenCall : /\ work' = <<x>> /\ CallOK(x)
                               /\ ~failed' => x.ok /\ x.clean /\ x.type # ErrorType
      BY <3>1, <3>2, <3>4, <3>8
    <3>. QED
      BY <3>5, <3>6, <3>7, <3>9, <3>10, <3>11, <3>12 DEF Turns
  <2>5. \/ BadStmt(EmitOutsideRun \cup CountMismatch(rule.params, args))
        \/ /\ Len(args) = Len(rule.params)
           /\ stmt' = [kind |-> "emit"] /\ work' = <<Call(rule, args, TRUE)>>
           /\ Report(EmitOutsideRun) /\ UNCHANGED <<position, env, crash>>
    BY <1>4 DEF EmitTo, t
  <2>. QED
    BY <2>3, <2>4, <2>5
<1>. QED
  BY <1>2, <1>3, <1>4 DEF StartEmit

\* and ends like a call.
LEMMA FinishEmitStep ==
    ASSUME Known, FinishEmit
    PROVE  Turns
<1>1. Typed /\ WorkOK /\ CallDone
  BY DEF FinishEmit, Known
<1>2. /\ ~failed => Top.ok
      /\ Top.ok => Unfilled(Top) = {}
      /\ ~IsValue(Len(work))
  BY <1>1, CallDoneIs
<1>3. CASE Begin(Idle) /\ Report({}) /\ UNCHANGED <<position, env, crash>>
  <2>. DEFINE codes == {}
  <2>1. /\ fn' \in {"", "Init", "Run", "done"} /\ crash' \in SUBSET Panic
        /\ declared' = declared /\ todo' = todo /\ fn' = fn
        /\ (crash = {} /\ ~failed' => crash' = {})
    BY <1>1, <1>3 DEF Typed, position
  <2>2. codes = {} /\ \A d \in codes : d[1] = "ARG_MISSING" => ~Top.ok
    OBVIOUS
  <2>3. Report(codes)
    BY <1>3
  <2>. HIDE DEF codes
  <2>4. EnvStep
    BY <1>3, <2>1, <2>3, EnvStays
  <2>. QED
    BY <1>1, <1>3, <2>1, <2>2, <2>3, <2>4, EndTurns
<1>4. CASE ~(Top.ok /\ Unfilled(Top) = {}) /\ BadStmt(Unfilled(Top))
  <2>. DEFINE codes == Unfilled(Top)
  <2>1. failed \/ codes # {}
    BY <1>2, <1>4
  <2>2. \A d \in codes : d[1] = "ARG_MISSING" => ~Top.ok
    BY <1>2
  <2>. HIDE DEF codes
  <2>3. BadStmt(codes)
    BY <1>4 DEF codes
  <2>. QED
    BY <1>2, <2>1, <2>2, <2>3, BadStmtTurns
<1>. QED
  BY <1>3, <1>4 DEF FinishEmit

-----------------------------------------------------------------------------
(* The invariant *)

\* Every step resolves an expression, or turns to another one, or is none.
LEMMA StepIs ==
    ASSUME Known, StmtOK, PortsTyped, Next
    PROVE  \/ stmt # Idle /\ \E n \in 0 .. 2 : Resolves(n)
           \/ Turns
           \/ UNCHANGED vars
<1>1. CASE Declarations
  BY <1>1, NameTakenStep, UnknownWordStep, DeclarePortStep, StartConstStep, FinishConstStep,
     DeclareSlotStep, StartSlotStep, FinishSlotStep DEF Declarations
<1>2. CASE ResolveInit \/ ResolveRun \/ Return
  BY <1>2, ResolveInitStep, ResolveRunStep, ReturnStep
<1>3. CASE Statements
  <2>1. CASE \E kind \in {"expression", "if", "assign"} : StartStmt(kind)
    BY <2>1, StartStmtStep
  <2>2. CASE \E n \in Ident : StartLet(n)
    BY <2>2, StartLetStep
  <2>3. CASE StartEmit \/ FinishEmit
    BY <2>3, StartEmitStep, FinishEmitStep
  <2>4. CASE FinishExpr \/ FinishLet \/ FinishAssign \/ FinishIf
    BY <2>4, FinishExprStep, FinishLetStep, FinishAssignStep, FinishIfStep
  <2>5. CASE OpenBlock \/ CloseBlock
    BY <2>5, OpenBlockStep, CloseBlockStep
  <2>. QED
    BY <1>3, <2>1, <2>2, <2>3, <2>4, <2>5 DEF Statements
<1>4. CASE Expressions
  BY <1>4, ExpressionStep
<1>5. CASE Done
  BY <1>5 DEF Done
<1>. QED
  BY <1>1, <1>2, <1>3, <1>4, <1>5 DEF Next

\* The inductive invariant.
IInv == Known /\ SlotsHaveOwnCells /\ StmtOK /\ PortsTyped

\* A step keeps what is known of the environments,
LEMMA EnvKept ==
    ASSUME Typed, EnvOK, EnvStep
    PROVE  /\ EnvOK' /\ (QualifiedOK => QualifiedOK')
           /\ scopes' \in Seq(Scope) /\ live' \in Seq(SUBSET Ident) /\ slotCount' \in Nat
<1>1. CASE \E n \in 1 .. Len(scopes) : Reshapes(n)
  <2>1. PICK n \in 1 .. Len(scopes) : Reshapes(n)
    BY <1>1
  <2>2. scopes' \in Seq(Scope) /\ live' \in Seq(SUBSET Ident) /\ slotCount' \in Nat
    BY <2>1 DEF Reshapes, Typed
  <2>. QED
    BY <2>1, <2>2, ReshapeKeepsApart, ReshapeKeepsBindings DEF EnvOK
<1>2. CASE \E s, b : Binds(s, b)
  <2>1. PICK s, b : Binds(s, b)
    BY <1>2
  <2>2. Levels
    BY DEF EnvOK
  <2>. QED
    BY <2>1, <2>2, BindKeepsTypes, BindKeepsLevels, BindKeepsNames, BindKeepsCells,
       BindKeepsBindings DEF EnvOK
<1>. QED
  BY <1>1, <1>2 DEF EnvStep

\* and of the outermost scope all there is.
LEMMA OutermostKept ==
    ASSUME Typed, EnvOK, EnvStep, NEW s \in DOMAIN scopes[1]
    PROVE  s \in DOMAIN scopes'[1] /\ scopes'[1][s] = scopes[1][s]
<1>1. CASE \E n \in 1 .. Len(scopes) : Reshapes(n)
  <2>1. PICK n \in 1 .. Len(scopes) : Reshapes(n)
    BY <1>1
  <2>2. 1 \in 1 .. n
    BY <2>1, ReshapesIs
  <2>3. scopes'[1] = scopes[1]
    BY <2>1, <2>2 DEF Reshapes
  <2>. QED
    BY <2>3
<1>2. CASE \E x, b : Binds(x, b)
  <2>1. PICK x, b : Binds(x, b)
    BY <1>2
  <2>2. Levels
    BY DEF EnvOK
  <2>3. /\ Len(scopes) \in 1 .. Len(scopes)
        /\ \A k \in 1 .. Len(scopes) : k # Len(scopes) => scopes'[k] = scopes[k]
        /\ DOMAIN scopes'[Len(scopes)] = DOMAIN scopes[Len(scopes)] \cup {x}
        /\ \A y \in DOMAIN scopes[Len(scopes)] :
              scopes'[Len(scopes)][y] = scopes[Len(scopes)][y]
    BY <2>1, <2>2, BindsIs
  <2>4. CASE 1 = Len(scopes)
    BY <2>3, <2>4
  <2>5. CASE 1 # Len(scopes)
    <3>1. 1 \in 1 .. Len(scopes)
      <4>1. Len(scopes) \in Nat
        BY ScopesAre
      <4>. DEFINE l == Len(scopes)
      <4>. HIDE DEF l
      <4>2. l \in Nat /\ l \in 1 .. l
        BY <4>1, <2>3 DEF l
      <4>3. 1 \in 1 .. l
        BY <4>2
      <4>. QED
        BY <4>3 DEF l
    <3>. QED
      BY <3>1, <2>3, <2>5
  <2>. QED
    BY <2>4, <2>5
<1>. QED
  BY <1>1, <1>2 DEF EnvStep

\* An expression's step changes nothing of the environments.
LEMMA ResolvesEnv ==
    ASSUME Known, NEW n \in 0 .. 2, Resolves(n)
    PROVE  EnvStep
<1>1. Typed /\ Levels /\ BindingsOK /\ UNCHANGED env /\ fn' = fn /\ (~failed' => ~failed)
  BY DEF Known, Resolves, position
<1>. QED
  BY <1>1, StaysReshape DEF EnvStep

\* It keeps the items all right,
LEMMA ResolvesWork ==
    ASSUME Known, NEW n \in 0 .. 2, Resolves(n)
    PROVE  WorkOK'
<1>. DEFINE l == Len(work)
            m == Len(work')
            i == work'[l - n + 1]
<1>1. /\ Typed /\ \A k \in 1 .. l : ItemOK(work[k])
      /\ \A k \in 1 .. l - 1 : work[k].tag = "call" => WantsArgument(work[k])
  BY DEF Known, WorkOK
<1>2. /\ n <= l /\ m = l - n + 1
      /\ \A k \in 1 .. l - n : work'[k] = work[k]
      /\ n = 0 /\ work # << >> /\ Top.tag = "call" => WantsArgument(Top)
      /\ ~failed' => ~failed
      /\ ~failed' => i.type # ErrorType /\ i.clean
      /\ i.tag = "call" => CallOK(i) /\ (~failed' => i.ok)
  BY DEF Resolves
<1>3. l \in Nat /\ (work # << >> <=> l > 0)
  BY <1>1, WorkIs
<1>4. /\ \A k \in 1 .. m : k = l - n + 1 \/ (k \in 1 .. l - n /\ k \in 1 .. l)
      /\ \A k \in 1 .. m - 1 : k \in 1 .. l - n /\ (k \in 1 .. l - 1 \/ (n = 0 /\ k = l /\ l > 0))
  <2>1. n <= l /\ m = l - n + 1
    BY <1>2
  <2>. HIDE DEF l, m
  <2>. QED
    BY <2>1, <1>3
<1>. HIDE DEF i, l, m
<1>5. ASSUME NEW k \in 1 .. m
      PROVE  ItemOK(work[k])'
  <2>1. CASE k = l - n + 1
    <3>1. work'[k] = i
      BY <2>1 DEF i
    <3>. QED
      BY <1>2, <3>1 DEF ItemOK
  <2>2. CASE k \in 1 .. l - n /\ k \in 1 .. l
    <3>1. work'[k] = work[k] /\ ItemOK(work[k])
      BY <1>1, <1>2, <2>2
    <3>. QED
      BY <1>2, <3>1 DEF ItemOK
  <2>. QED
    BY <2>1, <2>2, <1>4
<1>6. ASSUME NEW k \in 1 .. m - 1, work'[k].tag = "call"
      PROVE  WantsArgument(work'[k])
  <2>1. work'[k] = work[k]
    BY <1>2, <1>4
  <2>2. CASE k \in 1 .. l - 1
    BY <1>1, <2>1, <2>2, <1>6
  <2>3. CASE n = 0 /\ k = l /\ l > 0
    BY <1>2, <1>3, <2>1, <2>3, <1>6 DEF Top, l
  <2>. QED
    BY <2>2, <2>3, <1>4
<1>7. /\ \A k \in 1 .. Len(work') : ItemOK(work[k])'
      /\ \A k \in 1 .. Len(work') - 1 : work'[k].tag = "call" => WantsArgument(work'[k])
  BY <1>5, <1>6 DEF m
<1>. QED
  BY <1>7 DEF WorkOK

\* and the statement it belongs to.
LEMMA ResolvesStmt ==
    ASSUME StmtOK, NEW n \in 0 .. 2, Resolves(n)
    PROVE  StmtOK'
<1>1. /\ todo' = todo /\ fn' = fn /\ scopes' = scopes /\ stmt' = stmt /\ (failed => failed')
  BY DEF Resolves, position, env
<1>2. Taken(stmt.decl)' <=> Taken(stmt.decl)
  BY <1>1 DEF Taken, Bound, SlotSymbol
<1>3. Bound(<<stmt.name>>)' <=> Bound(<<stmt.name>>)
  BY <1>1 DEF Bound
<1>. QED
  BY <1>1, <1>2, <1>3 DEF StmtOK

\* The ports that are left are typed.
LEMMA PortsKept ==
    ASSUME Typed, PortsTyped, todo' = todo \/ (todo # << >> /\ todo' = Tail(todo))
    PROVE  PortsTyped' /\ todo' \in Seq(Decl)
<1>1. CASE todo' = todo
  BY <1>1 DEF PortsTyped, Typed
<1>2. CASE todo # << >> /\ todo' = Tail(todo)
  <2>. DEFINE l == Len(todo)
              m == Len(todo')
  <2>1. /\ todo' \in Seq(Decl) /\ m = l - 1 /\ l \in Nat \ {0}
        /\ \A k \in 1 .. m : todo'[k] = todo[k + 1]
    BY <1>2, HeadIs
  <2>2. \A k \in 1 .. m : k + 1 \in 1 .. l
    <3>1. m = l - 1 /\ l \in Nat \ {0}
      BY <2>1
    <3>. HIDE DEF l, m
    <3>. QED
      BY <3>1
  <2>3. \A k \in 1 .. m : todo'[k].word \in {"input", "output"} => todo'[k].type # "absent"
    BY <2>1, <2>2 DEF PortsTyped
  <2>. QED
    BY <2>1, <2>3 DEF PortsTyped
<1>. QED
  BY <1>1, <1>2

\* A step between expressions keeps the items all right.
LEMMA TurnsWork ==
    ASSUME Known, Turns
    PROVE  WorkOK' /\ work' \in Seq(Item)
<1>1. WorkOK /\ work \in Seq(Item) /\ (~failed' => ~failed)
  BY DEF Known, Typed, Turns
<1>2. CASE work' = work
  <2>1. \A k \in 1 .. Len(work) : ItemOK(work[k])'
    BY <1>1, <1>2 DEF WorkOK, ItemOK
  <2>. QED
    BY <1>1, <1>2, <2>1 DEF WorkOK
<1>3. CASE work' = << >>
  <2>1. Len(work') = 0 /\ work' \in Seq(Item)
    BY <1>3, EmptySeq
  <2>2. 1 .. 0 = {} /\ 1 .. 0 - 1 = {}
    OBVIOUS
  <2>. QED
    BY <2>1, <2>2 DEF WorkOK
<1>4. CASE \E c \in OpenCall : /\ work' = <<c>> /\ CallOK(c)
                               /\ ~failed' => c.ok /\ c.clean /\ c.type # ErrorType
  <2>1. PICK c \in OpenCall : /\ work' = <<c>> /\ CallOK(c)
                              /\ ~failed' => c.ok /\ c.clean /\ c.type # ErrorType
    BY <1>4
  <2>2. c \in Item
    BY DEF Item
  <2>3. work' \in Seq(Item) /\ Len(work') = 1 /\ work'[1] = c
    BY <2>1, <2>2
  <2>4. ItemOK(work[1])'
    BY <2>1, <2>3 DEF ItemOK
  <2>5. \A k \in 1 .. 1 : k = 1
    OBVIOUS
  <2>6. 1 .. 1 - 1 = {}
    OBVIOUS
  <2>7. \A k \in 1 .. Len(work') : ItemOK(work[k])'
    BY <2>3, <2>4, <2>5
  <2>8. \A k \in 1 .. Len(work') - 1 : work'[k].tag = "call" => WantsArgument(work'[k])
    BY <2>3, <2>6
  <2>. QED
    BY <2>3, <2>7, <2>8 DEF WorkOK
<1>. QED
  BY <1>2, <1>3, <1>4 DEF Turns

\* Every step keeps the invariant.
LEMMA Kept ==
    ASSUME IInv, [Next]_vars
    PROVE  /\ IInv' /\ (QualifiedOK => QualifiedOK')
           /\ NoDots /\ QualifiedOK /\ (~failed => crash = {}) => (~failed' => crash' = {})
<1>1. Known /\ Typed /\ EnvOK /\ StmtOK /\ PortsTyped
  BY DEF IInv, Known, EnvOK
<1>2. ASSUME NEW n \in 0 .. 2, Resolves(n)
      PROVE  /\ IInv' /\ (QualifiedOK => QualifiedOK')
             /\ NoDots /\ QualifiedOK /\ (~failed => crash = {}) => (~failed' => crash' = {})
  <2>1. EnvOK' /\ (QualifiedOK => QualifiedOK')
        /\ scopes' \in Seq(Scope) /\ live' \in Seq(SUBSET Ident) /\ slotCount' \in Nat
    BY <1>1, <1>2, ResolvesEnv, EnvKept
  <2>2. WorkOK' /\ StmtOK'
    BY <1>1, <1>2, ResolvesWork, ResolvesStmt
  <2>3. todo' = todo /\ declared' = declared /\ fn' = fn /\ stmt' = stmt
        /\ work' \in Seq(Item) /\ crash' \in SUBSET Panic /\ failed' \in BOOLEAN
        /\ (~failed' => ~failed)
    BY <1>2 DEF Resolves, position
  <2>4. Typed'
    BY <1>1, <2>1, <2>3 DEF Typed
  <2>5. PortsTyped'
    BY <1>1, <2>3, PortsKept
  <2>6. NoDots /\ QualifiedOK /\ (~failed => crash = {}) => (~failed' => crash' = {})
    BY <1>2, <2>3 DEF Resolves
  <2>. QED
    BY <2>1, <2>2, <2>4, <2>5, <2>6 DEF IInv, Known, EnvOK
<1>3. CASE Turns
  <2>1. EnvOK' /\ (QualifiedOK => QualifiedOK')
        /\ scopes' \in Seq(Scope) /\ live' \in Seq(SUBSET Ident) /\ slotCount' \in Nat
    BY <1>1, <1>3, EnvKept DEF Turns
  <2>2. WorkOK' /\ work' \in Seq(Item)
    BY <1>1, <1>3, TurnsWork
  <2>3. StmtOK' /\ declared' = declared /\ fn' \in {"", "Init", "Run", "done"}
        /\ stmt' \in Statement /\ crash' \in SUBSET Panic /\ failed' \in BOOLEAN
        /\ (~failed' => ~failed) /\ (crash = {} /\ ~failed' => crash' = {})
    BY <1>3 DEF Turns
  <2>4. PortsTyped' /\ todo' \in Seq(Decl)
    BY <1>1, <1>3, PortsKept DEF Turns
  <2>5. Typed'
    BY <1>1, <2>1, <2>2, <2>3, <2>4 DEF Typed
  <2>. QED
    BY <2>1, <2>2, <2>3, <2>4, <2>5 DEF IInv, Known, EnvOK
<1>4. CASE UNCHANGED vars
  <2>1. /\ todo' = todo /\ declared' = declared /\ fn' = fn /\ scopes' = scopes
        /\ slotCount' = slotCount /\ stmt' = stmt /\ work' = work /\ failed' = failed
        /\ live' = live /\ crash' = crash
    BY <1>4 DEF vars
  <2>2. Typed' /\ PortsTyped'
    BY <1>1, <2>1 DEF Typed, PortsTyped
  <2>3. EnvStep
    BY <1>1, <2>1, StaysReshape DEF EnvOK, EnvStep, env
  <2>4. EnvOK' /\ (QualifiedOK => QualifiedOK')
    BY <1>1, <2>3, EnvKept
  <2>5. WorkOK'
    BY <1>1, <2>1 DEF Known, WorkOK, ItemOK
  <2>6. StmtOK'
    BY <1>1, <2>1 DEF StmtOK, Taken, Bound, SlotSymbol
  <2>. QED
    BY <2>1, <2>2, <2>4, <2>5, <2>6 DEF IInv, Known, EnvOK
<1>5. CASE Next
  BY <1>1, <1>2, <1>3, <1>4, <1>5, StepIs
<1>. QED
  BY <1>4, <1>5

-----------------------------------------------------------------------------
(* The theorems *)

\* What the registry puts into the outermost scope.
LEMMA RegistryBinds ==
    /\ EnvFromRegistry \in Scope
    /\ \A s \in DOMAIN EnvFromRegistry :
          LET b == EnvFromRegistry[s] IN
          /\ b.slot = 0 /\ ~b.assignable /\ b.type # ErrorType
          /\ b.kind \in {"function", "declaration keyword", "module", "type"}
          /\ b.kind = "module" => \A n \in Ident : s = <<n>> => n \in ModuleNames
          /\ b.kind = "declaration keyword" => \E w \in DeclWords : s = <<w>>
    /\ NoDots => \A w \in DeclWords, n \in Ident : <<w, n>> \notin DOMAIN EnvFromRegistry
<1>. DEFINE words == {<<w>> : w \in DeclWords}
            functions == {<<n>> : n \in ReservedIdents}
            typed == {Spelling[t] : t \in RegType}
            D == typed \cup words \cup functions
            named(s) == CHOOSE t \in RegType : Spelling[t] = s
            bound(s) == IF s \in functions THEN Name("function", NoType)
                        ELSE IF s \in words THEN Name("declaration keyword", NoType)
                        ELSE Name(IF named(s) \in Modules THEN "module" ELSE "type", named(s))
<1>1. EnvFromRegistry = [s \in D |-> bound(s)]
  BY DEF EnvFromRegistry
<1>2. \A w \in DeclWords : w \in Ident
  BY NameAssumption DEF DeclWords
<1>3. D \subseteq Symbol
  BY <1>2 DEF Symbol
<1>4. \A s \in typed : named(s) \in RegType /\ Spelling[named(s)] = s
  OBVIOUS
<1>5. ErrorType \notin RegType /\ NoType # ErrorType /\ NoType \in TypeId /\ RegType \subseteq TypeId
  BY TypeAssumption DEF TypeId
<1>7. ASSUME NEW s \in D
      PROVE  /\ bound(s) \in Binding
             /\ bound(s).slot = 0 /\ ~bound(s).assignable /\ bound(s).type # ErrorType
             /\ bound(s).kind \in {"function", "declaration keyword", "module", "type"}
             /\ bound(s).kind = "module" => \A n \in Ident : s = <<n>> => n \in ModuleNames
             /\ bound(s).kind = "declaration keyword" => \E w \in DeclWords : s = <<w>>
  <2>. HIDE DEF named
  <2>1. CASE s \in functions
    <3>1. "function" \in BindingKind /\ "function" # "let"
      BY DEF BindingKind
    <3>2. bound(s) = Name("function", NoType)
      BY <2>1
    <3>. DEFINE b == Name("function", NoType)
    <3>3. /\ b \in Binding /\ b.kind = "function" /\ b.type = NoType /\ b.slot = 0
          /\ b.assignable => "function" = "let"
      BY <3>1, <1>5, NameIs
    <3>4. "function" \notin {"module", "declaration keyword"}
      OBVIOUS
    <3>5. bound(s) = b
      BY <3>2
    <3>. HIDE DEF bound, b
    <3>. QED
      BY <3>2, <3>3, <3>4, <3>5, <1>5
  <2>2. CASE s \notin functions /\ s \in words
    <3>1. "declaration keyword" \in BindingKind /\ "declaration keyword" # "let"
      BY DEF BindingKind
    <3>2. bound(s) = Name("declaration keyword", NoType) /\ \E w \in DeclWords : s = <<w>>
      BY <2>2
    <3>. DEFINE b == Name("declaration keyword", NoType)
    <3>3. /\ b \in Binding /\ b.kind = "declaration keyword" /\ b.type = NoType /\ b.slot = 0
          /\ b.assignable => "declaration keyword" = "let"
      BY <3>1, <1>5, NameIs
    <3>4. "declaration keyword" \notin {"module"}
      OBVIOUS
    <3>5. bound(s) = b
      BY <3>2
    <3>. HIDE DEF bound, b
    <3>. QED
      BY <3>2, <3>3, <3>4, <3>5, <1>5
  <2>3. CASE s \notin functions /\ s \notin words
    <3>1. s \in typed /\ named(s) \in RegType /\ Spelling[named(s)] = s
      BY <2>3, <1>4
    <3>. DEFINE t == named(s)
                kind == IF t \in Modules THEN "module" ELSE "type"
    <3>2. bound(s) = Name(kind, t) /\ t \in RegType
      BY <2>3, <3>1
    <3>3. t \in Modules => \A n \in Ident : s = <<n>> => n \in ModuleNames
      BY <3>1 DEF ModuleNames
    <3>4. kind \in {"module", "type"} /\ (kind = "module" => t \in Modules)
      OBVIOUS
    <3>5. t \in TypeId /\ t # ErrorType /\ kind \in BindingKind /\ kind # "let"
      BY <1>5, <3>2, <3>4 DEF BindingKind
    <3>. HIDE DEF t, kind, bound
    <3>6. /\ Name(kind, t) \in Binding /\ Name(kind, t).slot = 0
          /\ ~Name(kind, t).assignable
          /\ Name(kind, t).type = t /\ Name(kind, t).kind = kind
      BY <3>5, NameIs
    <3>. QED
      BY <3>2, <3>3, <3>4, <3>5, <3>6
  <2>. QED
    BY <2>1, <2>2, <2>3
<1>8. ASSUME NoDots, NEW w \in DeclWords, NEW n \in Ident
      PROVE  <<w, n>> \notin D
  <2>1. <<w, n>> \notin typed
    BY <1>8 DEF NoDots
  <2>2. \A x : <<x>> # <<w, n>>
    <3>1. \A x : Len(<<x>>) = 1
      OBVIOUS
    <3>2. Len(<<w, n>>) = 2
      OBVIOUS
    <3>. QED
      BY <3>1, <3>2
  <2>. QED
    BY <2>1, <2>2
<1>. HIDE DEF D, bound
<1>9. DOMAIN EnvFromRegistry = D /\ \A s \in D : EnvFromRegistry[s] = bound(s)
  BY <1>1
<1>10. EnvFromRegistry \in [D -> Binding]
  BY <1>1, <1>7
<1>11. EnvFromRegistry \in Scope
  BY <1>3, <1>10 DEF Scope
<1>. QED
  BY <1>7, <1>8, <1>9, <1>11

\* A sequence of one element.
LEMMA OneElement ==
    ASSUME NEW S, NEW x \in S
    PROVE  <<x>> \in Seq(S) /\ Len(<<x>>) = 1 /\ <<x>>[1] = x /\ DOMAIN <<x>> = {1}
OBVIOUS

\* The invariant holds at first.
LEMMA InitIs ==
    ASSUME Init
    PROVE  IInv /\ crash = {} /\ (NoDots => QualifiedOK)
<1>. DEFINE e == EnvFromRegistry
<1>1. /\ e \in Scope
      /\ \A s \in DOMAIN e : /\ e[s].slot = 0 /\ ~e[s].assignable
                             /\ e[s].type # ErrorType
                             /\ e[s].kind \in {"function", "declaration keyword", "module", "type"}
                             /\ e[s].kind = "module" => \A n \in Ident : s = <<n>> => n \in ModuleNames
                             /\ e[s].kind = "declaration keyword" => \E w \in DeclWords : s = <<w>>
      /\ NoDots => \A w \in DeclWords, n \in Ident : <<w, n>> \notin DOMAIN e
  BY RegistryBinds
<1>. HIDE DEF e
<1>2. /\ scopes = <<e>> /\ live = <<ModuleNames>> /\ fn = "" /\ stmt = Idle /\ stmt.kind = "none"
      /\ work = << >> /\ ~failed /\ crash = {} /\ slotCount = 0 /\ todo \in Script
      /\ declared = DeclaredNames(todo)
  BY DEF Init, e, Idle
<1>3. ModuleNames \in SUBSET Ident
  BY DEF ModuleNames
<1>4. /\ scopes \in Seq(Scope) /\ Len(scopes) = 1 /\ scopes[1] = e /\ DOMAIN scopes = {1}
      /\ live \in Seq(SUBSET Ident) /\ Len(live) = 1 /\ live[1] = ModuleNames
  BY <1>1, <1>2, <1>3, OneElement
<1>5. todo \in Seq(Decl) /\ DOMAIN todo = 1 .. Len(todo)
      /\ \A k \in DOMAIN todo : todo[k].word \in {"input", "output"} => todo[k].type # "absent"
  BY <1>2, ScriptAssumption, LenProperties
<1>6. declared \in SUBSET Symbol
  <2>1. \A k \in DOMAIN todo : todo[k].name \in Ident
    <3>1. \A k \in DOMAIN todo : todo[k] \in Decl
      BY <1>5, ElementOfSeq
    <3>. QED
      BY <3>1 DEF Decl
  <2>2. \A k \in DOMAIN todo : SlotSymbol(todo[k]) \in Symbol
    BY <2>1, NameAssumption DEF SlotSymbol, Symbol
  <2>. QED
    BY <1>2, <2>2 DEF DeclaredNames
<1>7. Typed
  <2>1. work \in Seq(Item) /\ stmt \in Statement
    BY <1>2, EmptySeq DEF Statement, Idle
  <2>2. slotCount \in Nat /\ crash \in SUBSET Panic /\ fn \in {"", "Init", "Run", "done"}
    BY <1>2
  <2>3. failed \in BOOLEAN
    BY DEF Init
  <2>. QED
    BY <1>4, <1>5, <1>6, <2>1, <2>2, <2>3 DEF Typed
<1>8. Levels
  <2>1. Len(live) = Len(scopes) /\ Len(scopes) = 1
    BY <1>4
  <2>2. fn = "" /\ "" \notin {"Init", "Run"}
    BY <1>2
  <2>3. 1 > 0
    OBVIOUS
  <2>. QED
    BY <2>1, <2>2, <2>3 DEF Levels
<1>9. NoShadowing
  BY <1>4 DEF NoShadowing
<1>10. \A k \in 1 .. Len(scopes) : k = 1
  BY <1>4
<1>11. BindingsOK
  <2>1. \A s \in DOMAIN e : BindingOK(1, s, e[s])
    BY <1>1, <1>4 DEF BindingOK
  <2>. QED
    BY <1>4, <1>10, <2>1 DEF BindingsOK
<1>12. WorkOK
  <2>1. Len(work) = 0
    BY <1>2, EmptySeq
  <2>2. 1 .. 0 = {} /\ 1 .. 0 - 1 = {}
    OBVIOUS
  <2>. QED
    BY <2>1, <2>2 DEF WorkOK
<1>13. SlotsHaveOwnCells
  <2>1. \A k \in DOMAIN scopes : k = 1
    BY <1>4
  <2>2. SlotBindings(1) = {}
    BY <1>1, <1>4 DEF SlotBindings
  <2>3. 1 .. 0 = {}
    OBVIOUS
  <2>. QED
    BY <1>2, <2>1, <2>2, <2>3 DEF SlotsHaveOwnCells
<1>14. StmtOK
  BY <1>2 DEF StmtOK
<1>15. PortsTyped
  BY <1>5 DEF PortsTyped
<1>16. NoDots => QualifiedOK
  BY <1>1, <1>4, <1>10 DEF QualifiedOK
<1>. QED
  BY <1>2, <1>7, <1>8, <1>9, <1>11, <1>12, <1>13, <1>14, <1>15, <1>16 DEF IInv, Known

\* The invariant.
THEOREM Invariant == Spec => []IInv
<1>1. Init => IInv
  BY InitIs
<1>2. IInv /\ [Next]_vars => IInv'
  BY Kept
<1>. QED
  BY <1>1, <1>2, PTL DEF Spec

\* The types, for every registry, rule table and script: the environments are
\* functions on symbols, what waits on the stack is an operand or an open call, and
\* nothing but the listed panics can happen.
THEOREM TypesHold == Spec => []TypeOK
<1>1. ASSUME IInv
      PROVE  TypeOK
  <2>1. Typed
    BY <1>1 DEF IInv, Known
  <2>2. scopes \in Seq({scopes[k] : k \in DOMAIN scopes})
    <3>. DEFINE l == Len(scopes)
                S == {scopes[k] : k \in DOMAIN scopes}
    <3>1. l \in Nat /\ DOMAIN scopes = 1 .. l /\ scopes = [k \in 1 .. l |-> scopes[k]]
      BY <2>1, LenProperties DEF Typed
    <3>2. \A k \in 1 .. l : scopes[k] \in S
      BY <3>1
    <3>. HIDE DEF l, S
    <3>3. scopes \in [1 .. l -> S]
      BY <3>1, <3>2
    <3>. QED
      BY <3>1, <3>3, SeqDef DEF S
  <2>3. \A k \in DOMAIN scopes : /\ DOMAIN scopes[k] \subseteq Symbol
                                 /\ scopes[k] \in [DOMAIN scopes[k] -> Binding]
    <3>1. \A m \in Scope : DOMAIN m \subseteq Symbol /\ m \in [DOMAIN m -> Binding]
      BY DEF Scope
    <3>2. \A k \in DOMAIN scopes : scopes[k] \in Scope
      BY <2>1, ScopesAre
    <3>. QED
      BY <3>1, <3>2
  <2>. QED
    BY <2>1, <2>2, <2>3 DEF Typed, TypeOK, Item
<1>. QED
  BY <1>1, Invariant, PTL

\* Where the error type is, a diagnostic is: for every registry and script, an
\* operand or a binding of the error type means that resolution has failed.
THEOREM ErrorsHaveCauses == Spec => []ErrorHasCause
<1>1. ASSUME IInv, ~failed
      PROVE  /\ \A k \in DOMAIN work : work[k].type # ErrorType
             /\ \A k \in DOMAIN scopes : \A s \in DOMAIN scopes[k] :
                   scopes[k][s].type # ErrorType
  <2>1. Typed /\ WorkOK /\ BindingsOK
    BY <1>1 DEF IInv, Known
  <2>2. DOMAIN work = 1 .. Len(work) /\ DOMAIN scopes = 1 .. Len(scopes)
    BY <2>1, WorkIs, ScopesAre
  <2>. QED
    BY <1>1, <2>1, <2>2 DEF WorkOK, ItemOK, BindingsOK, BindingOK
<1>2. IInv => ErrorHasCause
  BY <1>1 DEF ErrorHasCause
<1>. QED
  BY <1>2, Invariant, PTL

\* However deep the scopes are, no name is bound twice and no two slots share a
\* cell, and the cells are numbered without a gap.
THEOREM BindingsStayApart == Spec => []BindingsAreApart
<1>1. IInv => BindingsAreApart
  BY DEF IInv, Known, BindingsAreApart
<1>. QED
  BY <1>1, Invariant, PTL

\* A step and what it reports.
LEMMA StepReports ==
    ASSUME IInv, [Next]_vars
    PROVE  (ReportsOK /\ EnvStep) \/ UNCHANGED vars
<1>1. Known /\ StmtOK /\ PortsTyped
  BY DEF IInv
<1>2. ASSUME NEW n \in 0 .. 2, Resolves(n)
      PROVE  ReportsOK /\ EnvStep
  <2>1. EnvStep
    BY <1>1, <1>2, ResolvesEnv
  <2>. DEFINE l == Len(work)
              m == Len(work')
  <2>2. l \in Nat /\ n <= l /\ m = l - n + 1
    BY <1>1, <1>2, WorkIs DEF Known, Resolves
  <2>3. m <= l => n > 0
    <3>. HIDE DEF l, m
    <3>. QED
      BY <2>2
  <2>4. ASSUME IsValue(l), m <= l, report' # {}
        PROVE  \E k \in m .. l : IsValue(k) /\ work[k].type # ErrorType
    BY <1>2, <2>2, <2>3, <2>4 DEF Resolves
  <2>5. \A d \in report' : d[1] = "ARG_MISSING" => ~Top.ok
    BY <1>2 DEF Resolves
  <2>. QED
    BY <2>1, <2>4, <2>5 DEF ReportsOK
<1>3. Turns => ReportsOK /\ EnvStep
  BY DEF Turns
<1>. QED
  BY <1>1, <1>2, <1>3, StepIs

\* What the top level binds keeps its binding to the end of the resolution.
THEOREM TopLevelStays == Spec => NothingRebound
<1>1. ASSUME IInv, [Next]_vars
      PROVE  [\A s \in DOMAIN scopes[1] :
                 s \in DOMAIN scopes'[1] /\ scopes'[1][s] = scopes[1][s]]_vars
  <2>1. Typed /\ EnvOK
    BY <1>1 DEF IInv, Known, EnvOK
  <2>. QED
    BY <1>1, <2>1, StepReports, OutermostKept
<1>. QED
  BY <1>1, Invariant, PTL DEF Spec, NothingRebound

\* For calls with any number of parameters and arguments: when every argument was
\* accepted and the numbers agree, each parameter has its argument, so the code need
\* not look for gaps.
THEOREM CountingSuffices == Spec => MissingHasCause
<1>1. ASSUME IInv, [Next]_vars
      PROVE  [\A d \in report' : d[1] = "ARG_MISSING" => ~Top.ok]_vars
  BY <1>1, StepReports DEF ReportsOK
<1>. QED
  BY <1>1, Invariant, PTL DEF Spec, MissingHasCause

\* No expression or condition repeats, further up, a mistake that was reported.
THEOREM OneReportPerMistake == Spec => MistakeReportedOnce
<1>1. ASSUME IInv, [Next]_vars
      PROVE  [/\ stmt # Idle /\ IsValue(Len(work)) /\ Len(work') <= Len(work)
              /\ stmt.kind \notin {"assign", "decl"} \/ stmt' = stmt
              /\ report' # {}
              => \E k \in Len(work') .. Len(work) :
                    IsValue(k) /\ work[k].type # ErrorType]_vars
  BY <1>1, StepReports DEF ReportsOK
<1>. QED
  BY <1>1, Invariant, PTL DEF Spec, MistakeReportedOnce

\* What is accepted never panics, if no type is called like a slot: every name is
\* bound in the evaluator when it is reached, every condition is Bool, and no bad
\* node is left, whatever the script and the registry are.
THEOREM NoPanicWithoutDots ==
    ASSUME NoDots
    PROVE  Spec => []AcceptedNeverPanics
<1>. DEFINE Inv == IInv /\ QualifiedOK /\ AcceptedNeverPanics
<1>1. Init => Inv
  BY InitIs, NoDots DEF AcceptedNeverPanics
<1>2. Inv /\ [Next]_vars => Inv'
  BY Kept, NoDots DEF AcceptedNeverPanics
<1>. QED
  BY <1>1, <1>2, PTL DEF Spec
=============================================================================
