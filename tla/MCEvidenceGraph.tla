----------------------------- MODULE MCEvidenceGraph -----------------------------
(* Finite instances of EvidenceGraph for TLC. *)
EXTENDS EvidenceGraph, TLC

CONSTANTS same, other, q1, q2

\* Two adapters find one value.
NodePlace == (same :> 1) @@ (other :> 1)
EdgePlace == (same :> 1) @@ (other :> 1)
ProvenancePlace == (same :> 3) @@ (other :> 1)
Finish == {<<"succeeded", "complete">>}
RequestSymmetry == Permutations(Requests)
================================================================================
