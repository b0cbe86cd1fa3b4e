----------------------------- MODULE MCResolver -----------------------------
(***************************************************************************)
(* Two names a script may declare, a module, and a host with two kinds of  *)
(* declarations: state, whose slots are written state.x and may be assigned*)
(* to, and indicator, whose slots have a bare name, an initializer and one *)
(* allowed type.                                                           *)
(***************************************************************************)
EXTENDS Resolver, TLC

MCIdent   == {"x", "y", "math", "state", "emit"}
MCRegType == {"Int", "Float", "Bool", "Math", "Alert"}
MCSpelling == [t \in MCRegType |-> IF t = "Math" THEN <<"math">> ELSE <<t>>]

MCKinds ==
    "state" :> [namespaced |-> TRUE, assignable |-> TRUE,
                initializer |-> "optional", allowed |-> {}]
    @@ "indicator" :> [namespaced |-> FALSE, assignable |-> FALSE,
                       initializer |-> "required", allowed |-> {"Int"}]

Parameter(n, t, e) == [name |-> n, type |-> t, exact |-> e]

MCUnary      == "Int" :> "Int"
MCBinary     == <<"Int", "Int">> :> "Int" @@ <<"Float", "Float">> :> "Float"
MCMemberRule == <<"Math", "a">> :> "Float"
MCCallRule   ==
    <<"Math", "b">> :> [params |-> <<Parameter("a", "Float", FALSE),
                                     Parameter("b", "Int", TRUE)>>,
                        type |-> "Float"]
MCCoercion == <<"Int", "Float">> :> "Float"
MCFields   == "Alert" :> <<Parameter("a", "Int", FALSE)>>
MCArgLists == {<<"">>, <<"a">>, <<"", "">>, <<"", "b">>, <<"", "a">>, <<"b", "value">>}

Header(word, name, type, init) ==
    [word |-> word, name |-> name, type |-> type, init |-> init]

MCScript == {
    <<Header("const", "x", "absent", TRUE), Header("output", "y", "Alert", FALSE)>>,
    <<Header("const", "y", "absent", TRUE), Header("state", "x", "Float", TRUE)>>,
    <<Header("input", "x", "Int", FALSE), Header("indicator", "y", "absent", TRUE)>>,
    <<Header("const", "x", "absent", TRUE), Header("output", "y", "unknown", FALSE)>>,
    <<Header("other", "y", "Int", FALSE), Header("state", "x", "unknown", FALSE),
      Header("state", "x", "Float", FALSE), Header("indicator", "y", "absent", FALSE)>> }

\* A host that calls one of its types state.x.
MCDotted == [MCSpelling EXCEPT !["Alert"] = <<"state", "x">>]
=============================================================================
