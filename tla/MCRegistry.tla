----------------------------- MODULE MCRegistry -----------------------------
(* Instances of Registry for TLC.                                          *)
EXTENDS Registry, TLC

\* Threads of a kind, names, configurations and transports are told apart
\* by nothing but their identity.
Symmetry ==
    Permutations(Names) \cup Permutations(Configs) \cup Permutations(Transports)
       \cup Permutations(Handlers) \cup Permutations(Peers)

=============================================================================
