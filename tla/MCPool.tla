------------------------------- MODULE MCPool -------------------------------
(* Instances of Pool for TLC.                                              *)
EXTENDS Pool, TLC

\* Executions and runtimes are told apart by nothing but their identity.
Symmetry == Permutations(Callers) \cup Permutations(Runtimes)

=============================================================================
