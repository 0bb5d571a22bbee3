-------------------------- MODULE MCDecisionService --------------------------
(* DecisionService for TLC: calls are interchangeable.  (The liveness run    *)
(* does not use the symmetry.)                                               *)
EXTENDS DecisionService, TLC

CallSymmetry == Permutations(Calls)
=============================================================================
