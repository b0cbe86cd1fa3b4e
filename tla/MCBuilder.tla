----------------------------- MODULE MCBuilder -----------------------------
(***************************************************************************)
(* Three builtin or host types, a name that is both a possible word and a  *)
(* possible type, the type name of a structured port, which a host may also*)
(* register, and scripts that use them.  MaxEntries bounds what a host     *)
(* registers on top of the prelude.  The library is a module and a type    *)
(* with a rule; a host may have registered any of the three before.        *)
(***************************************************************************)
EXTENDS Builder, FiniteSets, TLC

CONSTANTS MaxEntries

MCName        == {"Error", "Integer", "clock", "math", "output.x"}
MCBuiltinType == {"Integer"}
MCBuiltinRule == <<"binary", "+", "Integer", "Integer">> :> "Integer"
MCTypeSet     == {{}, {"Error"}, {"clock"}}
MCUnusable    == {"output.x"}

MCLibrary ==
    << [name |-> "math", shape |-> "MODULE",
        rules |-> [key \in {} |-> "Integer"]],
       [name |-> "clock", shape |-> "SCALAR",
        rules |-> <<"unary", "+", "clock">> :> "clock"] >>

One(type, member, t) == [type |-> type, fields |-> member :> t]
MCScript == { [parses |-> FALSE, sound |-> FALSE, ports |-> << >>],
              [parses |-> TRUE,  sound |-> TRUE,
               ports |-> <<One("output.x", "f", "clock")>>],
              [parses |-> TRUE,  sound |-> FALSE,
               ports |-> <<One("output.x", "f", "Integer")>>] }

WithinBounds ==
    Cardinality(DOMAIN types) + Cardinality(DOMAIN declKinds)
        + Cardinality(DOMAIN rules) <= MaxEntries + 2
=============================================================================
