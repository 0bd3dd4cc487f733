--------------------------- MODULE MCPlanQueue ---------------------------
(* Instances of PlanQueue for TLC. *)
EXTENDS PlanQueue, TLC

Symmetry == Permutations(Job) \cup Permutations(Worker)
=============================================================================
