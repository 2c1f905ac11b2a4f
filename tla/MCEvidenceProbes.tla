-------------------------- MODULE MCEvidenceProbes --------------------------
(* Finite instances of EvidenceProbes for TLC. *)
EXTENDS EvidenceProbes

(* A horizon due at once, one that matures later, one whose due_at cannot  *)
(* be read, and one without a probe that matures later.                    *)
Immediate == [due |-> 0, broken |-> FALSE, nameless |-> FALSE, max |-> 2]

Later == [due |-> 1, broken |-> FALSE, nameless |-> FALSE, max |-> 2]

Broken == [due |-> 0, broken |-> TRUE, nameless |-> FALSE, max |-> 2]

Nameless == [due |-> 1, broken |-> FALSE, nameless |-> TRUE, max |-> 2]

(* Two horizons, an empty plan, a broken horizon and a nameless one. *)
MixedPlans == << <<Immediate, Later>>, <<>>, <<Immediate, Broken>>, <<Nameless>> >>

(* Two bindings, so that a worker's knowledge of the second one ages. *)
TwoPlans == << <<Immediate>>, <<Immediate>> >>

(* A single horizon, for two workers to meet at. *)
OneHorizon == << <<Immediate>> >>
=============================================================================
