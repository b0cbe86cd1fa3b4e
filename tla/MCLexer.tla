------------------------------ MODULE MCLexer ------------------------------
(***************************************************************************)
(* Every source over an alphabet about newlines, brackets and else, over   *)
(* one about strings and numbers, one about symbols, and one about the ways*)
(* to end a line.                                                          *)
(***************************************************************************)
EXTENDS Lexer

MCAlphabets == { {"x", "else", " ", "lf", "/", "(", ")"},
                 {"quote", "backslash", "x", "1", ".", "lf"},
                 {"quote", "nul", "lf", "&", "=", "?"},
                 {"lf", "cr", " ", "/", "{"} }
=============================================================================
