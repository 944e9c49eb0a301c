------------------------------- MODULE MCHTTP -------------------------------
(* Instances of HTTPSession for TLC.                                       *)
EXTENDS HTTPSession, TLC

\* Callers and session ids are told apart by nothing but their identity.
Symmetry == Permutations(Callers) \cup Permutations(Sessions)

=============================================================================
