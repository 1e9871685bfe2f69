------------------------------- MODULE MCKey -------------------------------
(* Instance of KeyDemo for TLC.                                            *)
EXTENDS KeyDemo, TLC

Symmetry == Permutations(Handles) \cup Permutations(Sessions)
=============================================================================
