------------------------------ MODULE MCRateLimit ------------------------------
(* Finite instances of RateLimit for TLC. *)
EXTENDS RateLimit, TLC

CONSTANTS c1, c2

ClientSymmetry == Permutations(Clients)
================================================================================
