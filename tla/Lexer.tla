------------------------------- MODULE Lexer -------------------------------
(***************************************************************************)
(* The lexer (lexer/lexer.go): which characters become which tokens.       *)
(*                                                                         *)
(* Newlines are tokens, they separate statements, but not every newline is *)
(* one: an open bracket, a blank line, a comment or a following else       *)
(* swallows it.  That is what this module is about; characters are reduced *)
(* to the classes the lexer tells apart, and a token is what kind it is and*)
(* the piece of the source it was read from.                               *)
(*                                                                         *)
(*   "x"       a letter that is an escape after a backslash                *)
(*   "else"    the four letters of the keyword                             *)
(*   "1" " "   a digit; a space or a tab                                   *)
(*   "lf" "cr" the two characters that are newlines                        *)
(*   "quote" "backslash"  what they are called                             *)
(*   "=" "&"   characters that may be doubled, the second one must be      *)
(*   "?"       a character no token has                                    *)
(***************************************************************************)
EXTENDS Integers, Sequences, FiniteSets

CONSTANTS
    Alphabets,       \* the sets of characters a source may be made of
    MaxLen           \* bound: its length

VARIABLES
    src,             \* Lexer.src
    at,              \* Lexer.currCursor, from 1
    pos,             \* Lexer.line and col
    bracketDepth,    \* Lexer.bracketDepth
    tokens           \* what NextToken has returned so far

vars == <<src, at, pos, bracketDepth, tokens>>

Newlines   == {"lf", "cr"}
IdentStart == {"x", "else"}
IdentPart  == IdentStart \cup {"1"}
Escapes    == {"x", "quote", "backslash"}
Characters == IdentPart \cup Newlines
              \cup {".", " ", "/", "(", ")", "{", "quote", "backslash", "=", "&", "nul", "?"}

ASSUME SourceAssumption == Alphabets \subseteq SUBSET Characters /\ MaxLen \in Nat

TokenTypes == {"EOF", "NEWLINE", "ELSE", "IDENT", "INTEGER", "FLOAT", "STRING",
               "ILLEGAL", "==", "&&", "=", ".", "/", "(", ")", "{"}

\* next is where the lexer stands after the token.
Token == [type : TokenTypes, start : Nat, next : Nat, pos : Nat \X Nat]

TypeOK ==
    /\ src \in Seq(Characters)
    /\ at \in 1 .. Len(src) + 2      \* a string that is not closed ends past the end
    /\ pos \in Nat \X Nat
    /\ bracketDepth \in 0 .. Len(src)
    /\ tokens \in Seq(Token)

Init ==
    /\ \E A \in Alphabets, n \in 0 .. MaxLen : src \in [1 .. n -> A]
    /\ at = 1
    /\ pos = <<1, 1>>
    /\ bracketDepth = 0
    /\ tokens = << >>

-----------------------------------------------------------------------------
(* Characters *)

Ch(i) == IF i \in DOMAIN src THEN src[i] ELSE "eof"

\* The first place from i on whose character is not in S.
FirstNotIn(S, i) ==
    CHOOSE j \in i .. Len(src) + 1 :
        Ch(j) \notin S /\ \A k \in i .. j - 1 : Ch(k) \in S

\* Fault: one slash starts a comment.
IsSlash(i) == Ch(i) = "/"

IsCommentStart(i) == Ch(i) = "/" /\ Ch(i + 1) = "/"

\* skipCommentLine, if there is a comment: up to the newline, which stays.
SkipComment(i) ==
    IF IsCommentStart(i) THEN FirstNotIn(Characters \ Newlines, i) ELSE i

\* The loop in front of every token.
SkipBlank[i \in Nat] ==
    LET j == SkipComment(i)
    IN IF Ch(j) = " " \/ (Ch(j) \in Newlines /\ bracketDepth > 0)
       THEN SkipBlank[j + 1] ELSE j

\* The loop after a newline: to the next line that is not empty.
NextLine[k \in Nat] ==
    LET j == SkipComment(k + 1)
    IN IF Ch(j) \in Newlines \cup {" "} THEN NextLine[j] ELSE j

Collapse(i) == NextLine[i]

\* Fault: a name that begins with else is taken for it.
AtElsePrefix(i) == Ch(i) = "else"

AtElse(i) == Ch(i) = "else" /\ Ch(i + 1) \notin IdentPart

-----------------------------------------------------------------------------
(* Tokens *)

Span(type, i, next) == [type |-> type, start |-> i, next |-> next, pos |-> pos]

Ident(i) ==
    LET next == FirstNotIn(IdentPart, i)
    IN Span(IF Ch(i) = "else" /\ next = i + 1 THEN "ELSE" ELSE "IDENT", i, next)

\* At most one dot; another one is left for the next token.
Number(i) ==
    LET dot == FirstNotIn({"1"}, i)
    IN IF Ch(dot) = "." THEN Span("FLOAT", i, FirstNotIn({"1"}, dot + 1))
       ELSE Span("INTEGER", i, dot)

\* readString, after its k-th character and perhaps an error, which is kept while
\* the scan goes on to the closing quote, but never onto a newline: whether all
\* was well, and the last character looked at.
Scan[s \in Nat \X BOOLEAN] ==
    LET k == s[1]
        c == Ch(k + 1)
        d == Ch(k + 2)
    IN IF c \in Newlines THEN <<FALSE, k>>
       ELSE IF c = "eof" THEN <<FALSE, k + 1>>
       ELSE IF c = "quote" THEN <<s[2], k + 1>>
       ELSE IF c # "backslash" THEN Scan[<<k + 1, s[2] /\ c # "nul">>]
       ELSE IF d \in Newlines THEN <<FALSE, k + 1>>
       ELSE IF d = "eof" THEN <<FALSE, k + 2>>
       ELSE Scan[<<k + 2, s[2] /\ d \in Escapes>>]

ReadString(i) ==
    LET end == Scan[<<i, TRUE>>]
    IN Span(IF end[1] THEN "STRING" ELSE "ILLEGAL", i, end[2] + 1)

Symbol(i) ==
    LET doubled == Ch(i) = Ch(i + 1)
    IN IF Ch(i) = "=" THEN Span(IF doubled THEN "==" ELSE "=", i, i + IF doubled THEN 2 ELSE 1)
       ELSE IF Ch(i) = "&" THEN Span(IF doubled THEN "&&" ELSE "ILLEGAL", i,
                                     i + IF doubled THEN 2 ELSE 1)
       ELSE Span(IF Ch(i) \in TokenTypes THEN Ch(i) ELSE "ILLEGAL", i, i + 1)

Lexeme(i) ==
    IF Ch(i) = "eof" THEN Span("EOF", i, i)
    ELSE IF Ch(i) \in IdentStart THEN Ident(i)
    ELSE IF Ch(i) = "1" THEN Number(i)
    ELSE IF Ch(i) = "quote" THEN ReadString(i)
    ELSE Symbol(i)

\* Fault: closing brackets are counted that close nothing.
DepthBalance(type) ==
    bracketDepth + (IF type = "(" THEN 1 ELSE IF type = ")" THEN -1 ELSE 0)

\* bracketDepth after a token; braces do not count.
DepthAfter(type) ==
    IF type = "(" THEN bracketDepth + 1
    ELSE IF type = ")" /\ bracketDepth > 0 THEN bracketDepth - 1
    ELSE bracketDepth

\* Fault: a carriage return ends a line, whatever follows.
EndsLineAlways(i) == Ch(i) \in Newlines

EndsLine(i) == Ch(i) = "lf" \/ (Ch(i) = "cr" /\ Ch(i + 1) # "lf")

\* advance, as often as it takes to get from here to i.
Position[i \in Nat] ==
    IF i <= at THEN pos
    ELSE LET before == Position[i - 1]
         IN IF EndsLine(i - 1) THEN <<before[1] + 1, 1>> ELSE <<before[1], before[2] + 1>>

Advance(i) == Position[i]

Return(t) ==
    /\ tokens' = Append(tokens, [t EXCEPT !.pos = Advance(t.start)])
    /\ at' = t.next
    /\ pos' = Advance(t.next)
    /\ bracketDepth' = DepthAfter(t.type)
    /\ UNCHANGED src

AtEOF == tokens # << >> /\ tokens[Len(tokens)].type = "EOF"

NextToken ==
    LET i == SkipBlank[at]
        j == Collapse(i)
    IN /\ ~AtEOF
       /\ \/ Ch(i) \notin Newlines /\ Return(Lexeme(i))
          \/ Ch(i) \in Newlines /\ AtElse(j) /\ Return(Lexeme(j))
          \/ Ch(i) \in Newlines /\ ~AtElse(j) /\ Return(Span("NEWLINE", i, j))

\* At the end NextToken returns EOF for ever.
Next == NextToken \/ (AtEOF /\ UNCHANGED vars)

Spec == Init /\ [][Next]_vars

-----------------------------------------------------------------------------
(* Properties *)

Type(k) == tokens[k].type

\* The brackets open after the first k tokens; one that closes nothing is
\* forgotten.
Open(k) ==
    LET open[j \in 0 .. k] ==
            IF j = 0 THEN 0
            ELSE open[j - 1] + (IF Type(j) = "(" THEN 1
                                ELSE IF Type(j) = ")" /\ open[j - 1] > 0 THEN -1 ELSE 0)
    IN open[k]

\* The parser relies on both wherever it looks one token ahead for else or for
\* the end of a statement (SPEC 3.1, parser.go:142, stmt.go:93).  A NEWLINE comes
\* alone, never before else and never in brackets; and outside brackets two tokens
\* of different lines have one between them, unless the second is else: no two
\* statements become one, whatever blank lines, comments and unclosed strings are
\* between.
LinesAreSeparated ==
    /\ \A k \in DOMAIN tokens : Type(k) = "NEWLINE" =>
          /\ Open(k) = 0
          /\ k < Len(tokens) => Type(k + 1) \notin {"NEWLINE", "ELSE"}
    /\ \A k \in 1 .. Len(tokens) - 1 :
          /\ Open(k) = 0
          /\ \E i \in tokens[k].start .. tokens[k + 1].start : Ch(i) \in Newlines
          => "NEWLINE" \in {Type(k), Type(k + 1)} \/ Type(k + 1) = "ELSE"

\* Whether a comment that begins in c .. i goes on to i.
InCommentFrom(c, i) ==
    \E k \in c .. i : /\ Ch(k) = "/" /\ Ch(k + 1) = "/"
                      /\ \A m \in k .. i : Ch(m) \notin Newlines

\* The line up to i has no quote: what looks like a comment is one.
NoString(i) ==
    \A q \in 1 .. i : Ch(q) = "quote" => \E k \in q .. i : Ch(k) \in Newlines

\* No character is read twice or lost: every token but EOF consumes something
\* (FuzzLex: the end comes in time), between two tokens there are only spaces,
\* newlines and comments, and no comment is read as a token (lexer.go:57-91).
NothingLost ==
    /\ \A k \in DOMAIN tokens : Type(k) # "EOF" => tokens[k].start < tokens[k].next
    /\ \A k \in 1 .. Len(tokens) - 1 :
          /\ tokens[k].next <= tokens[k + 1].start \/ Type(k + 1) = "EOF"
          /\ \A i \in tokens[k].next .. tokens[k + 1].start - 1 :
                Ch(i) \in Newlines \cup {" "} \/ InCommentFrom(tokens[k].next, i)
    /\ \A k \in DOMAIN tokens :
          LET i == tokens[k].start
          IN Type(k) # "EOF" /\ NoString(i) => ~InCommentFrom(1, i)

\* A token's line is one more than the lines that end before it, and its column
\* counts from the last one of them (lexer.go:34): a line ends with a line feed,
\* a carriage return or both.
LineEnds(i) == {k \in 1 .. i - 1 : \/ Ch(k) = "lf"
                                   \/ Ch(k) = "cr" /\ Ch(k + 1) # "lf"}
PositionsExact ==
    \A k \in DOMAIN tokens :
        LET ends == LineEnds(tokens[k].start)
            last == CHOOSE e \in ends \cup {0} : \A f \in ends : f <= e
        IN tokens[k].pos = <<1 + Cardinality(ends), tokens[k].start - last>>
=============================================================================
