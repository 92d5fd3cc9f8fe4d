----------------------------- MODULE MCScanProgress -----------------------------
(* Finite instances of ScanProgress for TLC. *)
EXTENDS ScanProgress

CONSTANTS s1, s2, r1, r2
================================================================================
