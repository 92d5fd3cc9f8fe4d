---------------------------- MODULE MCScanLifecycle ----------------------------
(* Finite instances of ScanLifecycle for TLC. *)
EXTENDS ScanLifecycle, TLC

CONSTANTS w1, w2, c1, creator, t1, t2, ra, rb

OneTarget == [r \in Runs |-> t1]
RunPerTarget == [r \in Runs |-> IF r = ra THEN t1 ELSE t2]
WorkerSymmetry == Permutations(Workers)
================================================================================
