----------------------------- MODULE MCRunLease -----------------------------
(* Instances of RunLease for TLC. *)
EXTENDS RunLease, TLC

\* Identities are interchangeable: used by the runs that check no liveness.
Symmetry == Permutations(Run) \cup Permutations(Daemon) \cup Permutations(Poll)
=============================================================================
