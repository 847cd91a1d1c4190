---------------------------- MODULE MCTimedChannel ----------------------------
(* Instances of TimedChannel for TLC.                                       *)
EXTENDS TimedChannel, TLC

Symmetry == Permutations(Co)
=============================================================================
