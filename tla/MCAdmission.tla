------------------------------- MODULE MCAdmission -------------------------------
(* Finite instances of Admission for TLC. *)
EXTENDS Admission, TLC

CONSTANTS r1, r2, a, b, k1, k2, b1, b2
================================================================================
