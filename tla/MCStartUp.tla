------------------------------ MODULE MCStartUp ------------------------------
(* Instances of StartUp for TLC.                                           *)
EXTENDS StartUp

=============================================================================
