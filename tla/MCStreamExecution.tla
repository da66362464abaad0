-------------------------- MODULE MCStreamExecution --------------------------
(* Small instances of StreamExecution for TLC.                             *)
EXTENDS StreamExecution, TLC

Symmetry == Permutations(Handlers) \cup Permutations(Reconcilers)
=============================================================================
