------------------------------ MODULE MCChannel ------------------------------
(* Instances of Channel for TLC.                                            *)
EXTENDS Channel, TLC

Symmetry == Permutations(Co) \cup Permutations(Val)
=============================================================================
