----------------------------- MODULE MCEngine -----------------------------
(***************************************************************************)
(* A small script for TLC: a slot the host is expected to fill, a slot     *)
(* with an initializer that may read it, a constant, an input and an       *)
(* output, and host values of the declared type, of a type with a          *)
(* coercion to it and of one without.                                      *)
(***************************************************************************)
EXTENDS Engine, TLC

CONSTANTS a, b, raw, alien

MCDecls == << [kind |-> "slot",   type |-> "T", hasInit |-> FALSE],
              [kind |-> "slot",   type |-> "T", hasInit |-> TRUE],
              [kind |-> "const",  type |-> "T", hasInit |-> TRUE],
              [kind |-> "input",  type |-> "T", hasInit |-> FALSE],
              [kind |-> "output", type |-> "T", hasInit |-> FALSE] >>
MCType      == {"T", "Raw", "Alien"}
MCVal       == {a, b, raw, alien}
MCTypeOf    == a :> "T" @@ b :> "T" @@ raw :> "Raw" @@ alien :> "Alien"
MCCoercible == {<<"Raw", "T">>}
=============================================================================
