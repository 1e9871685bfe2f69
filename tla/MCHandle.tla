------------------------------ MODULE MCHandle ------------------------------
(* Instance of HandleDemo for TLC.                                         *)
EXTENDS HandleDemo, TLC

MCSessions == Procs \X (1..4)
Symmetry == Permutations(Handles)
=============================================================================
