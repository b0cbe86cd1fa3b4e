----------------------------- MODULE Lifecycle -----------------------------
(***************************************************************************)
(* What an executable promises its host (docs/SPEC.md 4.1, 4.2), without   *)
(* call stacks, re-entrancy or pending coercions: a program is created,    *)
(* loads its declarations, seeds its slots in the body of Init, is         *)
(* initialized or has failed for good, and from then on runs one           *)
(* activation after another.                                               *)
(***************************************************************************)
CONSTANTS Slots, Inputs, Val, Nothing

VARIABLES phase, cells, inputs

vars == <<phase, cells, inputs>>

Phases == {"created", "loading", "seeding", "initialized", "running", "failed"}

TypeOK ==
    /\ phase \in Phases
    /\ cells \in [Slots -> Val \cup {Nothing}]
    /\ inputs \in [Inputs -> Val \cup {Nothing}]

Init ==
    /\ phase = "created"
    /\ cells = [s \in Slots |-> Nothing]
    /\ inputs = [i \in Inputs |-> Nothing]

Write(s, v) == cells' = [cells EXCEPT ![s] = v]

\* The host fills slots in its own turn only, never while a tick is under way.
HostFill(s, v) ==
    /\ phase \in {"created", "initialized", "failed"}
    /\ Write(s, v)
    /\ UNCHANGED <<phase, inputs>>

\* An input never changes under the activation that reads it.
HostBind(i, v) ==
    /\ phase # "running"
    /\ inputs' = [inputs EXCEPT ![i] = v]
    /\ UNCHANGED <<phase, cells>>

BeginInit ==
    /\ phase = "created"
    /\ phase' \in {"loading", "seeding", "failed"}
    /\ UNCHANGED <<cells, inputs>>

\* Rule A: an initializer writes a slot that is empty, and only the load phase
\* runs initializers.
Initialize(s, v) ==
    /\ phase = "loading"
    /\ cells[s] = Nothing
    /\ Write(s, v)
    /\ phase' \in {"loading", "seeding"}
    /\ UNCHANGED inputs

EndLoad ==
    /\ phase = "loading"
    /\ phase' = "seeding"
    /\ UNCHANGED <<cells, inputs>>

Assign(s, v) ==
    /\ phase \in {"seeding", "running"}
    /\ Write(s, v)
    /\ UNCHANGED <<phase, inputs>>

\* Rule B: nothing is empty when Init succeeds.
InitSucceeds ==
    /\ phase = "seeding"
    /\ \A s \in Slots : cells[s] # Nothing
    /\ phase' = "initialized"
    /\ UNCHANGED <<cells, inputs>>

InitFails ==
    /\ phase \in {"loading", "seeding"}
    /\ phase' = "failed"
    /\ UNCHANGED <<cells, inputs>>

\* An activation starts from a complete store and with every input bound.
BeginRun ==
    /\ phase = "initialized"
    /\ \A i \in Inputs : inputs[i] # Nothing
    /\ phase' = "running"
    /\ UNCHANGED <<cells, inputs>>

\* Completed or aborted, the program can run again; what it wrote stays.
EndRun ==
    /\ phase = "running"
    /\ phase' = "initialized"
    /\ UNCHANGED <<cells, inputs>>

Next ==
    \/ \E s \in Slots, v \in Val : HostFill(s, v) \/ Initialize(s, v) \/ Assign(s, v)
    \/ \E i \in Inputs, v \in Val : HostBind(i, v)
    \/ BeginInit \/ EndLoad \/ InitSucceeds \/ InitFails \/ BeginRun \/ EndRun

Spec == Init /\ [][Next]_vars
=============================================================================
