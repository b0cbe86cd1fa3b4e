------------------------------ MODULE Builder ------------------------------
(***************************************************************************)
(* A builder compiles one script against its registry (tascript.go).       *)
(* Compile runs no host code, so the host's calls come before and after it;*)
(* inside, the resolver registers the types of the script's structured     *)
(* ports one at a time (resolver/resolver.go:253-334), then the registry   *)
(* is sealed.  Everything else in a script is its being sound or not.      *)
(***************************************************************************)
EXTENDS Registry

CONSTANTS Script    \* the scripts a host may compile

(***************************************************************************)
(* A script parses or not; ports are its structured ports in source order, *)
(* each with the name its type is registered under (output.x) and its      *)
(* fields; sound says whether anything else in it is wrong.                *)
(***************************************************************************)
Port == [type : Name, fields : Fields]

ASSUME ScriptAssumption ==
    /\ Script \subseteq [parses : BOOLEAN, sound : BOOLEAN, ports : Seq(Port)]
    /\ \A s \in Script : \A j, k \in DOMAIN s.ports :
          s.ports[j].type = s.ports[k].type => j = k

VARIABLES
    spent,      \* Builder.spent
    ports,      \* of the script being resolved or resolved last
    resolved,   \* how many of them are resolved
    rejected,   \* whether the resolver has reported a diagnostic
    program     \* "none", "resolving", "rejected" or "executable"

builderVars == <<spent, ports, resolved, rejected, program>>
vars == <<regVars, builderVars>>

TypeOK ==
    /\ RegTypeOK
    /\ spent \in BOOLEAN
    /\ ports \in Seq(Port)
    /\ resolved \in 0..Len(ports)
    /\ rejected \in BOOLEAN
    /\ program \in {"none", "resolving", "rejected", "executable"}

Init ==
    /\ DefaultRegistry
    /\ spent = FALSE
    /\ ports = << >>
    /\ resolved = 0
    /\ rejected = FALSE
    /\ program = "none"

HostTurn == program # "resolving"

HostRegisters == HostTurn /\ RegisterCalls /\ UNCHANGED builderVars

-----------------------------------------------------------------------------

ErrBuilderSpent == spent

\* The parser's diagnostics are returned before anything is resolved, and
\* before the registry is sealed.
Compile(s) ==
    /\ HostTurn
    /\ \/ /\ ErrBuilderSpent
          /\ Fail("ErrBuilderSpent")
          /\ UNCHANGED <<builderVars, library>>
       \/ /\ ~ErrBuilderSpent /\ ~s.parses
          /\ spent' = TRUE
          /\ program' = "rejected"
          /\ answer' = "diagnostics"
          /\ UNCHANGED <<tables, sealed, library, ports, resolved, rejected>>
       \/ /\ ~ErrBuilderSpent /\ s.parses
          /\ spent' = TRUE
          /\ program' = "resolving"
          /\ ports' = s.ports
          /\ resolved' = 0
          /\ rejected' = ~s.sound
          /\ UNCHANGED regVars

NextPort == ports[resolved + 1]

\* Every field type must be known before the port's type is registered.
FieldsKnown(p) == \A m \in DOMAIN p.fields : p.fields[m] \in DOMAIN types

\* Fault: an error of RegisterScriptType is not reported.
Registers(p) ==
    /\ FieldsKnown(p)
    /\ RegisterScriptType(p.type, p.fields)
    /\ UNCHANGED rejected

ResolvesPort(p) ==
    /\ FieldsKnown(p)
    /\ RegisterScriptType(p.type, p.fields)
    /\ rejected' = (rejected \/ answer' # "ok")

ResolvePort ==
    /\ program = "resolving" /\ resolved < Len(ports)
    /\ \/ ResolvesPort(NextPort)
       \/ ~FieldsKnown(NextPort) /\ rejected' = TRUE /\ UNCHANGED regVars
    /\ resolved' = resolved + 1
    /\ UNCHANGED <<library, spent, ports, program>>

\* The resolver is done: Compile seals the registry, then looks at the
\* diagnostics.
FinishCompile ==
    /\ program = "resolving" /\ resolved = Len(ports)
    /\ Seal
    /\ program' = IF rejected THEN "rejected" ELSE "executable"
    /\ answer' = IF rejected THEN "diagnostics" ELSE "ok"
    /\ UNCHANGED <<tables, library, spent, ports, resolved, rejected>>

Next ==
    \/ HostRegisters
    \/ \E s \in Script : Compile(s)
    \/ ResolvePort
    \/ FinishCompile

Spec == Init /\ [][Next]_vars

-----------------------------------------------------------------------------
(* Safety *)

\* The program an executable runs is the one that was resolved: each structured
\* port has the type of its own declaration, under the name a sink must report,
\* not one the host or another port had registered under that name.
PortsOwnTheirTypes ==
    program = "executable" =>
        \A k \in DOMAIN ports :
            /\ ports[k].type \in DOMAIN types
            /\ types[ports[k].type] = [shape |-> "", fields |-> ports[k].fields]
            /\ \A m \in DOMAIN ports[k].fields :
                  <<"member", ports[k].type, m>> \in DOMAIN rules

\* Nothing registered is ever taken back or replaced.
Extends(m, n) == \A k \in DOMAIN m : k \in DOMAIN n /\ n[k] = m[k]
NothingReplaced ==
    [][/\ Extends(types, types')
       /\ Extends(declKinds, declKinds')
       /\ Extends(rules, rules')]_vars

\* stdlib.Register succeeds at most once, and only as a whole: a registry where
\* it failed half-way, or where a host has a name of the library, never gets
\* the rest of it by another call that returns no error (stdlib.go:6-11).
LibraryWholeOrRefused ==
    [][library # "ok" /\ library' = "ok" =>
          /\ library = "none"
          /\ \A k \in DOMAIN Library :
                LET e == Library[k] IN
                /\ e.name \notin DOMAIN types
                /\ e.name \in DOMAIN types' /\ types'[e.name].shape = e.shape
                /\ DOMAIN e.rules \subseteq DOMAIN rules']_vars

\* The registry behind an executable does not change under it, and no second
\* program is compiled against it (registry.go:101 "it already backs a compiled
\* program").
ProgramKeepsRegistry ==
    [][program = "executable" => UNCHANGED tables /\ program' = program]_vars
=============================================================================
