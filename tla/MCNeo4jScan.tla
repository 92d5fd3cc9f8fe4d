------------------------------ MODULE MCNeo4jScan ------------------------------
(* Finite instances of Neo4jScan for TLC. *)
EXTENDS Neo4jScan, TLC

CONSTANTS c1, c2, c3, sweeper

SomeEndings == {<<"succeeded", "complete">>, <<"running", "retryable_worker_failure">>}
ClientSymmetry == Permutations(Clients \ {Sweeper})
================================================================================
