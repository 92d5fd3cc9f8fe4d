----------------------------- MODULE MCToolExecution -----------------------------
(* Finite instances of ToolExecution for TLC. *)
EXTENDS ToolExecution
================================================================================
