--------------------------- MODULE MCReconciliation ---------------------------
(* Reconciliation for TLC: calls are interchangeable.                       *)
EXTENDS Reconciliation, TLC

ReconSymmetry == Permutations(Calls)
=============================================================================
