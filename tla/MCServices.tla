------------------------------- MODULE MCServices -------------------------------
(* Finite instances of Services for TLC. *)
EXTENDS Services

CONSTANTS p1, p2
================================================================================
