------------------------------- MODULE Parser -------------------------------
(***************************************************************************)
(* The recursive descent parser (parser/): which tokens it consumes, when  *)
(* it reports an error and how it goes on after one.                       *)
(*                                                                         *)
(* The activations of the parse functions are on a stack, with the place   *)
(* each of them is at; a step is what happens between two calls of         *)
(* nextToken.  The source is not given: NextToken reads any token the lexer*)
(* may return, so a behaviour is the parse of some source, of any length.  *)
(* The tree is not built.  What is kept of it is whether a part of it is   *)
(* missing (a BadExpr, a BadStmt, a nil field).                            *)
(*                                                                         *)
(* Tokens are their types; port is input or output, an identifier is Init, *)
(* Run or any other name, overflow is a number out of range, and of the    *)
(* operators there is one that is a prefix, too ("-") and one that binds   *)
(* more tightly ("*").                                                     *)
(***************************************************************************)
EXTENDS Integers, Sequences, SequencesExt

CONSTANTS
    Tokens,       \* the tokens a source may consist of
    MaxDepth,     \* maxNestingDepth
    MaxErrors,    \* maxParseErrors
    MaxOpen       \* bound: brackets open at once, and braces that are skipped

Idents    == {"name", "Init", "Run"}
Closing   == {")", "]", "}", ","}
AllTokens == Idents \cup Closing \cup
    {"const", "port", "function", "let", "if", "else", "number", "overflow",
     "-", "*", "(", "{", "[", ":", ".", "=", "NEWLINE", "EOF"}

ASSUME TokenAssumption ==
    /\ Tokens \subseteq AllTokens /\ {"NEWLINE", "EOF"} \subseteq Tokens
    /\ MaxDepth \in Nat \ {0} /\ MaxErrors \in Nat \ {0} /\ MaxOpen \in Nat

VARIABLES
    cur, peek,    \* Parser.currentToken, peekToken
    before,       \* whether cur follows a NEWLINE, a "{", another token, or nothing
    brackets,     \* the lexer's bracketDepth after peek
    stack,        \* the activations of parse functions, Parse first
    result,       \* what the last one returned, until the next step
    errors,       \* Parser.errCount, up to MaxErrors
    fnName,       \* the name in the function declaration at hand
    broken,       \* whether a part of the declaration at hand is missing
    program       \* ast.Program, and whether Parse has returned

source  == <<cur, peek, before, brackets>>
control == <<stack, result, errors, broken>>
vars    == <<source, control, fnName, program>>

(***************************************************************************)
(* An activation: the function, the place it is at, whether no error has   *)
(* been reported since it last looked (errCount = errsBefore), the         *)
(* precedence or the braces it skips, and a mark: a block has a statement, *)
(* a call has a keyword argument.                                          *)
(***************************************************************************)
Frame(fn, at) == [fn |-> fn, at |-> at, clean |-> TRUE, prec |-> 0, mark |-> FALSE]
Expr(prec)    == [Frame("expression", "start") EXCEPT !.prec = prec]
Block         == Frame("block", "open")

LowestPrec == 0
PrefixPrec == 7
Precedence(t) == IF t = "-" THEN 5 ELSE IF t = "*" THEN 6
                 ELSE IF t \in {"(", ".", "["} THEN 8 ELSE 0

StartsExpr(t) == t \in Idents \cup {"number", "overflow", "-", "("}

ParseFns == {"Parse", "const", "port", "kind", "function", "block", "let", "if",
             "assign", "expression"}

\* The places they are at.
Points ==
    {"start", "declaration", "declared", "sync", "assign", "value", "name", "colon",
     "type", "type or value", "value or not", "schema", "field", "field colon",
     "field type", "field end", "fields end", "open", "statement", "next", "end",
     "condition", "block", "find block", "else?", "else", "find else", "target",
     "infix", "-", "*", ".", "(", ")", "[", "]", "{", "comma", "argument",
     "argument end", "keyword", "call end"}

Activations ==
    [fn : ParseFns, at : Points, clean : BOOLEAN, prec : Nat, mark : BOOLEAN]

Results == {"", "expression", "bad", "empty", "statements"}

TypeOK ==
    /\ {cur, peek} \subseteq Tokens /\ before \in {"NEWLINE", "{", "other", ""}
    /\ brackets \in 0 .. MaxOpen
    /\ stack \in Seq(Activations)
    /\ stack # << >> /\ stack[1].fn = "Parse"
    /\ result \in Results
    /\ errors \in 0 .. MaxErrors
    /\ fnName \in Idents \cup {""}
    /\ broken \in BOOLEAN
    /\ program \in [valid : BOOLEAN, Init : BOOLEAN, Run : BOOLEAN, done : BOOLEAN]

Top == stack[Len(stack)]
In(fn, at) == Top.fn = fn /\ Top.at = at /\ ~program.done

-----------------------------------------------------------------------------
(* Tokens: what the lexer may return (LinesAreSeparated of Lexer) *)

\* Fault: a bracket that closes nothing is counted.
DepthBalance(open, t) ==
    IF t \in {"(", "["} THEN open + 1 ELSE IF t \in {")", "]"} THEN open - 1 ELSE open

DepthAfter(open, t) ==
    IF t \in {"(", "["} THEN open + 1
    ELSE IF t \in {")", "]"} /\ open > 0 THEN open - 1 ELSE open

MayFollow(t) ==
    /\ peek = "EOF" => t = "EOF"
    /\ t = "NEWLINE" => peek # "NEWLINE" /\ brackets = 0
    /\ t = "else" => peek # "NEWLINE"
    /\ DepthAfter(brackets, t) <= MaxOpen
    /\ t = "{" /\ In("block", "sync") => Top.prec + (IF peek = "{" THEN 1 ELSE 0) < MaxOpen

NextToken ==
    /\ cur' = peek
    /\ \E t \in Tokens : /\ MayFollow(t)
                         /\ peek' = t
                         /\ brackets' = DepthAfter(brackets, t)
    /\ before' = IF cur \in {"NEWLINE", "{"} THEN cur ELSE "other"

Stay == UNCHANGED source

\* Two tokens are read before Parse is called.
Init ==
    /\ \E s, t \in Tokens :
          /\ s = "EOF" => t = "EOF"
          /\ t = "NEWLINE" => s \notin {"NEWLINE", "(", "["}
          /\ t = "else" => s # "NEWLINE"
          /\ cur = s /\ peek = t
          /\ brackets = DepthAfter(DepthAfter(0, s), t) /\ brackets <= MaxOpen
    /\ before = ""
    /\ stack = <<Frame("Parse", "declaration")>>
    /\ result = "" /\ errors = 0 /\ fnName = "" /\ broken = FALSE
    /\ program = [valid |-> TRUE, Init |-> FALSE, Run |-> FALSE, done |-> FALSE]

-----------------------------------------------------------------------------
(* Control.  err: the step reports an error; bad: it leaves something out *)

\* addDiag: past the limit errors are counted, but not kept.
AddDiag(err) == errors' = IF err /\ errors < MaxErrors THEN errors + 1 ELSE errors

\* An error is noticed by every function that compares errCount.
Noticed(err) == [k \in DOMAIN stack |-> [stack[k] EXCEPT !.clean = @ /\ ~err]]
Placed(err, at) == [Noticed(err) EXCEPT ![Len(stack)].at = at]

Mark(err, bad) == AddDiag(err) /\ broken' = (broken \/ bad) /\ UNCHANGED <<fnName, program>>

Go(at, err, bad) ==
    /\ stack' = Placed(err, at)
    /\ Mark(err, bad) /\ result' = ""
Call(at, frame, err, bad) ==
    /\ stack' = Append(Placed(err, at), frame)
    /\ Mark(err, bad) /\ result' = ""
Become(frame, err, bad) ==
    /\ stack' = Append(Front(Noticed(err)), frame)
    /\ Mark(err, bad) /\ result' = ""
Return(value, err, bad) ==
    /\ stack' = Front(Noticed(err))
    /\ result' = value
    /\ Mark(err, bad)

\* Fault: errCount begins anew, for the functions that compare it already, too.
BeginAnew(at, frame, err, bad) ==
    /\ stack' = LET anew == [k \in DOMAIN stack |-> [stack[k] EXCEPT !.clean = ~err]]
                    here == [anew EXCEPT ![Len(stack)].at = at, ![Len(stack)].mark = TRUE]
                IN IF err THEN here ELSE Append(here, frame)
    /\ Mark(err, bad) /\ result' = ""

\* The function at hand compares errCount from here on.
Begin(at, frame, err, bad) ==
    /\ stack' = LET placed == Placed(err, at)
                    here   == [Top EXCEPT !.at = at, !.clean = ~err, !.mark = TRUE]
                    new    == [placed EXCEPT ![Len(stack)] = here]
                IN IF err THEN new ELSE Append(new, frame)
    /\ Mark(err, bad) /\ result' = ""

\* With the token that must come next, or the error that it does not.
Expect(tokens, at) ==
    /\ NextToken
    /\ \/ peek \in tokens /\ Go(at, FALSE, FALSE)
       \/ peek \notin tokens /\ Return("", TRUE, TRUE)

Nesting == Cardinality({k \in DOMAIN stack : stack[k].fn \in {"expression", "if"}})

\* Fault: parseIfStmt does not look at the depth.
TooDeepExpr == Top.fn = "expression" /\ Nesting > MaxDepth

TooDeep == Nesting > MaxDepth

-----------------------------------------------------------------------------
(* Declarations *)

Declaration(t) ==
    IF t \in {"const", "port", "function"} THEN Frame(t, "start")
    ELSE Frame("kind", "start")
DeclStarts == \/ cur \in {"const", "port", "function"}
              \/ cur \in Idents /\ peek \in Idents

\* Fault: either function will do.
MissingFunction == ~program.Run /\ ~program.Init /\ errors = 0

MissingRun == ~program.Run /\ errors = 0

\* The loop of Parse, up to the switch.
NextDecl ==
    /\ In("Parse", "declaration")
    /\ \/ cur = "NEWLINE" /\ NextToken /\ Go("declaration", FALSE, FALSE)
       \/ /\ cur \notin {"NEWLINE", "EOF"}
          /\ stack' = <<[Frame("Parse", "declared") EXCEPT !.clean = DeclStarts]>>
                      \o (IF DeclStarts THEN <<Declaration(cur)>> ELSE << >>)
          /\ AddDiag(~DeclStarts)
          /\ fnName' = "" /\ broken' = ~DeclStarts
          /\ Stay /\ UNCHANGED <<result, program>>
       \/ /\ cur = "EOF"
          /\ program' = [program EXCEPT !.done = TRUE,
                                        !.valid = @ /\ ~MissingRun]
          /\ AddDiag(MissingRun)
          /\ Stay /\ UNCHANGED <<stack, result, fnName, broken>>

\* What follows the switch: a declaration without error is kept, a second
\* function of a name is not, and the line must end here.
Repeated == fnName \in {"Init", "Run"} /\ program[fnName]

\* Fault: only a brace is taken for something left on the line.
StrayBrace == peek = "}"

Stray == peek \notin {"NEWLINE", "EOF"}

DeclEnds ==
    LET kept == Top.clean /\ ~Repeated
        err  == Top.clean /\ (Repeated \/ Stray)
        ok   == kept /\ ~Stray
        cap  == ~ok /\ errors + (IF err THEN 1 ELSE 0) >= MaxErrors
    IN /\ In("Parse", "declared")
       /\ AddDiag(err)
       /\ program' = [n \in DOMAIN program |->
                        IF n = "valid" THEN program.valid /\ ok
                        ELSE IF n = "done" THEN cap
                        ELSE program[n] \/ (kept /\ n = fnName)]
       /\ stack' = <<Frame("Parse", IF ok THEN "declaration" ELSE "sync")>>
       /\ IF ok THEN NextToken ELSE Stay
       /\ UNCHANGED <<result, fnName, broken>>

\* Fault: the end of the source is not looked for.
SyncPastEnd ==
    /\ In("Parse", "sync")
    /\ NextToken
    /\ Go(IF cur = "NEWLINE" THEN "declaration" ELSE "sync", FALSE, FALSE)

\* syncToNewLine, and the token after it.
SyncToNewLine ==
    /\ In("Parse", "sync")
    /\ NextToken
    /\ Go(IF cur = "NEWLINE" \/ peek = "EOF" THEN "declaration" ELSE "sync", FALSE, FALSE)

\* const name = value, and let name = value in a body.  Only const looks whether
\* an expression follows when something is missing.
\* Fault: the assignment that is missing is left to the expression to report.
ParseValueUnreported(err, bad) ==
    IF Top.fn = "const" /\ ~StartsExpr(peek) THEN Return("", FALSE, TRUE)
    ELSE Become(Expr(LowestPrec), err, bad)

ParseValue(err, bad) ==
    IF Top.fn = "const" /\ ~StartsExpr(peek) THEN Return("", TRUE, TRUE)
    ELSE Become(Expr(LowestPrec), err, bad)

ParseBinding ==
    \/ /\ In("const", "start") \/ In("let", "start")
       /\ NextToken
       /\ \/ peek \in Idents /\ Go("assign", FALSE, FALSE)
          \/ peek = "=" /\ Go("value", TRUE, TRUE)
          \/ peek \notin Idents \cup {"="} /\ ParseValue(TRUE, TRUE)
    \/ /\ In("const", "assign") \/ In("let", "assign")
       /\ NextToken
       /\ \/ peek = "=" /\ Go("value", FALSE, FALSE)
          \/ peek # "=" /\ ParseValue(TRUE, FALSE)

\* The expression after = of any statement or declaration.
ParseRight ==
    /\ Top.at = "value" /\ ~program.done
    /\ NextToken /\ Become(Expr(LowestPrec), FALSE, FALSE)

ParsePort ==
    \/ /\ In("port", "start") /\ NextToken
       /\ \/ peek \in Idents /\ Go("colon", FALSE, FALSE)
          \/ peek = ":" /\ Go("type", TRUE, TRUE)
          \/ peek \notin Idents \cup {":"} /\ Return("", TRUE, TRUE)
    \/ In("port", "colon") /\ Expect({":"}, "type")
    \/ /\ In("port", "type") /\ NextToken
       /\ \/ peek \in Idents /\ Return("", FALSE, FALSE)
          \/ peek = "{" /\ Go("schema", FALSE, FALSE)
          \/ peek \notin Idents \cup {"{"} /\ Return("", TRUE, TRUE)

\* parseInlineTypeExpr; here an unexpected token is left where it is.
ParseSchema ==
    /\ Top.fn = "port" /\ ~program.done
    /\ LET skip == peek = "NEWLINE"
           To(at) == NextToken /\ Go(at, FALSE, FALSE)
           Fail   == Stay /\ Return("", TRUE, TRUE)
       IN \/ /\ Top.at \in {"schema", "field", "comma", "fields end"} /\ skip
             /\ To(Top.at)
          \/ /\ Top.at = "schema" /\ ~skip
             /\ \/ peek = "}" /\ NextToken /\ Return("", TRUE, TRUE)
                \/ peek # "}" /\ Stay /\ Go("field", FALSE, FALSE)
          \/ /\ Top.at = "field" /\ ~skip
             /\ IF peek \in Idents THEN To("field colon") ELSE Fail
          \/ /\ Top.at = "field colon"
             /\ IF peek = ":" THEN To("field type") ELSE Fail
          \/ /\ Top.at = "field type"
             /\ IF peek \in Idents THEN To("field end") ELSE Fail
          \/ /\ Top.at = "field end"
             /\ IF peek = "," THEN To("comma") ELSE Stay /\ Go("fields end", FALSE, FALSE)
          \/ /\ Top.at = "comma" /\ ~skip
             /\ IF peek = "}" THEN NextToken /\ Return("", FALSE, FALSE)
                ELSE Stay /\ Go("field", FALSE, FALSE)
          \/ /\ Top.at = "fields end" /\ ~skip
             /\ IF peek = "}" THEN NextToken /\ Return("", FALSE, FALSE) ELSE Fail

ParseKind ==
    \/ In("kind", "start") /\ NextToken /\ Go("type or value", FALSE, FALSE)
    \/ In("kind", "type or value") /\ peek = ":" /\ NextToken /\ Go("type", FALSE, FALSE)
    \/ In("kind", "type") /\ Expect(Idents, "value or not")
    \/ /\ \/ In("kind", "type or value") /\ peek # ":"
          \/ In("kind", "value or not")
       /\ \/ peek = "=" /\ NextToken /\ Go("value", FALSE, FALSE)
          \/ peek # "=" /\ Stay /\ Return("", FALSE, FALSE)

\* One error for the header; what is there of it is consumed.
ParseFunction ==
    \/ In("function", "start") /\ NextToken /\ Go("name", FALSE, FALSE)
    \/ /\ In("function", "name")
       /\ LET named == cur \in Idents
              err   == cur \notin {"Init", "Run"}
          IN /\ IF named THEN NextToken ELSE Stay
             /\ stack' = Placed(err, "(")
             /\ fnName' = IF named THEN cur ELSE ""
             /\ AddDiag(err) /\ broken' = (broken \/ ~named)
             /\ UNCHANGED <<result, program>>
    \/ \E header \in {<<"(", ")">>, <<")", "{">>} :
          /\ In("function", header[1])
          /\ \/ cur = header[1] /\ NextToken /\ Go(header[2], FALSE, FALSE)
             \/ cur # header[1] /\ Stay /\ Go(header[2], Top.clean, FALSE)
    \/ /\ In("function", "{") /\ Stay
       /\ \/ cur = "{" /\ Call("end", Block, FALSE, FALSE)
          \/ cur # "{" /\ Return("", Top.clean, TRUE)
    \/ /\ In("function", "end") /\ Stay
       /\ Return("", result = "empty" /\ Top.clean /\ fnName # "Init", FALSE)

-----------------------------------------------------------------------------
(* Statements *)

Statement(t) == IF t = "let" THEN Frame("let", "start")
                ELSE IF t = "if" THEN Frame("if", "start")
                ELSE Frame("assign", "start")

ParseBlock ==
    \/ In("block", "open") /\ NextToken /\ Go("statement", FALSE, FALSE)
    \/ /\ In("block", "statement")
       /\ \/ cur = "NEWLINE" /\ NextToken /\ Go("statement", FALSE, FALSE)
          \/ /\ cur \in {"}", "EOF"} /\ Stay
             /\ Return(IF Top.mark THEN "statements" ELSE "empty", cur = "EOF", FALSE)
          \/ /\ cur \notin {"NEWLINE", "}", "EOF"} /\ Stay
             /\ LET misplaced == cur \in {"const", "port"}
                IN Begin("end", Statement(cur), misplaced, misplaced)
    \/ /\ In("block", "end") /\ Stay
       /\ LET stray == peek \notin {"NEWLINE", "}", "EOF"}
          IN Go(IF Top.clean /\ ~stray THEN "next" ELSE "sync", Top.clean /\ stray, FALSE)
    \/ In("block", "next") /\ NextToken /\ Go("statement", FALSE, FALSE)

\* Fault: recovery stops at either brace.
AtStmtEndAtBrace(skipped) ==
    \/ cur = "EOF"
    \/ skipped = 0 /\ (cur = "NEWLINE" \/ peek \in {"EOF", "{", "}"})

AtStmtEnd(skipped) ==
    \/ cur = "EOF"
    \/ skipped = 0 /\ (cur = "NEWLINE" \/ peek \in {"EOF", "}"})

\* syncToStmtEnd; prec counts the braces it is in.
SyncToStmtEnd ==
    /\ In("block", "sync")
    /\ \/ /\ AtStmtEnd(Top.prec) /\ Stay
          /\ Go("next", FALSE, FALSE)
       \/ /\ ~AtStmtEnd(Top.prec) /\ Top.prec = 0 /\ peek = "NEWLINE"
          /\ NextToken /\ Go("next", FALSE, FALSE)
       \/ /\ ~AtStmtEnd(Top.prec) /\ ~(Top.prec = 0 /\ peek = "NEWLINE")
          /\ NextToken
          /\ stack' = [stack EXCEPT ![Len(stack)].prec =
                          IF peek = "{" THEN @ + 1 ELSE IF peek = "}" THEN @ - 1 ELSE @]
          /\ result' = "" /\ UNCHANGED <<errors, fnName, broken, program>>

\* advanceToLBrace: to the block that is called at, or not.
AdvanceToLBrace(at, bad) ==
    \/ cur = "{" /\ Stay /\ Call(at, Block, FALSE, FALSE)
    \/ cur \in {"NEWLINE", "}", "EOF"} /\ Stay /\ Return("", FALSE, bad)
    \/ /\ cur \notin {"{", "NEWLINE", "}", "EOF"}
       /\ NextToken /\ Go(Top.at, FALSE, FALSE)

ParseIf ==
    \/ /\ In("if", "start")
       /\ \/ TooDeep /\ Stay /\ Return("", TRUE, TRUE)
          \/ ~TooDeep /\ peek = "(" /\ NextToken /\ Go("condition", FALSE, FALSE)
          \/ ~TooDeep /\ peek # "(" /\ Stay /\ Go("block", TRUE, TRUE)
    \/ /\ In("if", "condition")
       /\ NextToken /\ Call(")", Expr(LowestPrec), FALSE, FALSE)
    \/ /\ In("if", ")")
       /\ \/ peek = ")" /\ NextToken /\ Go("block", FALSE, FALSE)
          \/ peek # ")" /\ Stay /\ Go("block", Top.clean, FALSE)
    \/ /\ In("if", "block")
       /\ \/ peek = "{" /\ NextToken /\ Call("else?", Block, FALSE, FALSE)
          \/ peek # "{" /\ Stay /\ Go("find block", Top.clean, FALSE)
    \/ In("if", "find block") /\ AdvanceToLBrace("else?", TRUE)
    \/ /\ In("if", "else?")
       /\ \/ peek = "else" /\ NextToken /\ Go("else", FALSE, FALSE)
          \/ peek # "else" /\ Stay /\ Return("", FALSE, FALSE)
    \/ /\ In("if", "else")
       /\ \/ peek = "if" /\ NextToken /\ Call("end", Frame("if", "start"), FALSE, FALSE)
          \/ peek = "{" /\ NextToken /\ Call("end", Block, FALSE, FALSE)
          \/ peek \notin {"if", "{"} /\ Stay /\ Go("find else", TRUE, FALSE)
    \/ In("if", "find else") /\ AdvanceToLBrace("end", FALSE)
    \/ In("if", "end") /\ Stay /\ Return("", FALSE, FALSE)

ParseExprOrAssign ==
    \/ In("assign", "start") /\ Stay /\ Call("target", Expr(LowestPrec), FALSE, FALSE)
    \/ /\ In("assign", "target")
       /\ \/ peek = "=" /\ NextToken /\ Go("value", FALSE, FALSE)
          \/ peek # "=" /\ Stay /\ Return("", FALSE, FALSE)

-----------------------------------------------------------------------------
(* Expressions *)

\* A prefix or infix operator has no operand.
NoOperand == peek \in Closing \cup {"EOF"}

Operand(prec) ==
    \/ NoOperand /\ Stay /\ Go("infix", TRUE, TRUE)
    \/ ~NoOperand /\ NextToken /\ Call("infix", Expr(prec), FALSE, FALSE)

ParseExpression ==
    /\ In("expression", "start")
    /\ \/ /\ TooDeep \/ ~StartsExpr(cur) \/ cur = "overflow"
          /\ Stay /\ Return("bad", TRUE, TRUE)
       \/ /\ ~TooDeep
          /\ \/ cur \in Idents \cup {"number"} /\ Stay /\ Go("infix", FALSE, FALSE)
             \/ cur = "-" /\ Operand(PrefixPrec)
             \/ cur = "(" /\ NextToken /\ Call(")", Expr(LowestPrec), FALSE, FALSE)

\* A group or an index ends with its bracket, unless what is in it is bad.
ParseClosing ==
    \E closing \in {")", "]"} :
       /\ In("expression", closing)
       /\ \/ result = "bad" /\ Stay /\ Return("bad", FALSE, FALSE)
          \/ result # "bad" /\ peek = closing /\ NextToken /\ Go("infix", FALSE, FALSE)
          \/ result # "bad" /\ peek # closing /\ Stay /\ Return("bad", TRUE, TRUE)

ParseInfix ==
    \/ /\ In("expression", "infix")
       /\ \/ Top.prec < Precedence(peek) /\ NextToken /\ Go(peek, FALSE, FALSE)
          \/ Top.prec >= Precedence(peek) /\ Stay /\ Return("expression", FALSE, FALSE)
    \/ \E op \in {"-", "*"} : In("expression", op) /\ Operand(Precedence(cur))
    \/ /\ In("expression", ".") /\ NextToken
       /\ \/ peek \in Idents /\ Go("infix", FALSE, FALSE)
          \/ peek \notin Idents /\ Return("bad", TRUE, TRUE)
    \/ In("expression", "[") /\ NextToken /\ Call("]", Expr(LowestPrec), FALSE, FALSE)

\* cur is the opening bracket, or a comma.
ParseCall ==
    \/ /\ In("expression", "(")
       /\ \/ peek = ")" /\ NextToken /\ Go("infix", FALSE, FALSE)
          \/ /\ peek # ")" /\ NextToken
             /\ stack' = [stack EXCEPT ![Len(stack)].at = "argument",
                                       ![Len(stack)].mark = FALSE]
             /\ result' = "" /\ UNCHANGED <<errors, fnName, broken, program>>
    \/ /\ In("expression", "argument")
       /\ \/ /\ cur \in Idents /\ peek = "=" /\ NextToken
             /\ stack' = [stack EXCEPT ![Len(stack)].at = "keyword",
                                       ![Len(stack)].mark = TRUE]
             /\ result' = "" /\ UNCHANGED <<errors, fnName, broken, program>>
          \/ /\ ~(cur \in Idents /\ peek = "=") /\ Stay
             /\ IF Top.mark THEN Go("call end", TRUE, TRUE)
                ELSE Call("argument end", Expr(LowestPrec), FALSE, FALSE)
    \/ /\ In("expression", "keyword")
       /\ NextToken /\ Call("argument end", Expr(LowestPrec), FALSE, FALSE)
    \/ /\ In("expression", "argument end")
       /\ \/ peek = "," /\ NextToken /\ Go("comma", FALSE, FALSE)
          \/ peek # "," /\ Stay /\ Go("call end", FALSE, FALSE)
    \/ /\ In("expression", "comma")
       /\ \/ peek = ")" /\ Stay /\ Go("call end", FALSE, FALSE)
          \/ peek # ")" /\ NextToken /\ Go("argument", FALSE, FALSE)
    \/ /\ In("expression", "call end")
       /\ \/ peek = ")" /\ NextToken /\ Go("infix", FALSE, FALSE)
          \/ peek # ")" /\ Stay /\ Return("bad", TRUE, TRUE)

-----------------------------------------------------------------------------
Step ==
    \/ NextDecl \/ DeclEnds \/ SyncToNewLine
    \/ ParseBinding \/ ParseRight \/ ParsePort \/ ParseSchema \/ ParseKind \/ ParseFunction
    \/ ParseBlock \/ SyncToStmtEnd \/ ParseIf \/ ParseExprOrAssign
    \/ ParseExpression \/ ParseClosing \/ ParseInfix \/ ParseCall

Next == Step \/ (program.done /\ UNCHANGED vars)

Spec == Init /\ [][Next]_vars

\* The parser runs, and a source has an end.
FairSpec == Spec /\ WF_vars(Step) /\ SF_vars(Step /\ peek' = "EOF")

-----------------------------------------------------------------------------
(* Properties *)

\* Parse returns on a source that has an end (parser.go:81-162): no recovery
\* (helpers.go:8-57), no loop over the statements of a body, the fields of a
\* schema or the arguments of a call waits for a token that does not come, and
\* none goes round without reading one.
Returns == <>program.done

\* FuzzParse: a program is valid if and only if nothing was reported, and a
\* valid one has a Run function.
ValidIffClean ==
    program.done => /\ program.valid = (errors = 0)
                    /\ program.valid => program.Run

\* A declaration that is kept has all of its parts (parser.go:89-137): nothing
\* is missing without an error that drops the declaration, and a function has
\* one of the two names, so the default branch (parser.go:135) is unreachable.
KeptIsWhole ==
    In("Parse", "declared") /\ Top.clean => ~broken /\ fnName \in {"", "Init", "Run"}

\* The nesting limit bounds the recursion, however deep a source is nested
\* (parser.go:12): every function that can contain itself is counted.
RecursionBounded == Len(stack) <= 2 * MaxDepth + 5

\* Recovery ends at a line: no declaration, and no statement, is parsed from the
\* middle of a line that was given up (helpers.go:8-46).
RecoveryEndsAtLine ==
    /\ In("Parse", "declaration") /\ cur \notin {"NEWLINE", "EOF"} =>
           before \in {"NEWLINE", ""}
    /\ In("block", "statement") /\ cur \notin {"NEWLINE", "}", "EOF"} =>
           before \in {"NEWLINE", "{"}
=============================================================================
