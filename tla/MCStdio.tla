------------------------------ MODULE MCStdio ------------------------------
(* Instances of StdioTransport for TLC.                                    *)
EXTENDS StdioTransport, TLC

\* Calls of a kind are told apart by nothing but their identity.
Symmetry == Permutations(Lists) \cup Permutations(Others)

=============================================================================
