--------------------------- MODULE MCStdioServer ---------------------------
(* Instances of StdioServer for TLC.                                       *)
EXTENDS StdioServer, TLC

Symmetry == Permutations(Notifiers)

=============================================================================
