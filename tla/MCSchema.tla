------------------------------ MODULE MCSchema ------------------------------
(* Instances of SchemaCapture for TLC.                                     *)
EXTENDS SchemaCapture, TLC

Symmetry == Permutations(Tools) \cup Permutations(Hooks)
                \cup Permutations(Configs) \cup Permutations(Scripts)

=============================================================================
