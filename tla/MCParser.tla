------------------------------ MODULE MCParser ------------------------------
(***************************************************************************)
(* Sources of every kind of token the parser tells apart, with expressions *)
(* that nest once (there a number is parsed as a name is, and one too      *)
(* large as what begins no expression), and sources of the tokens the      *)
(* loops of the parser wait for: declarations that have a body or a        *)
(* schema, blocks, chains of else.                                         *)
(***************************************************************************)
EXTENDS Parser

EveryKind ==
    {"const", "port", "function", "name", "Init", "Run", "let", "if", "else", "-", "(",
     ")", "{", "}", "[", "]", ",", ":", ".", "=", "NEWLINE", "EOF"}

FewTokens ==
    {"port", "function", "Run", "let", "if", "else", "=", "(", ")", "{", "}", ",", ":",
     "NEWLINE", "EOF"}
=============================================================================
