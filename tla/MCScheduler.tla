----------------------------- MODULE MCScheduler -----------------------------
EXTENDS Scheduler, TLC

(* The coroutines other than the main one are interchangeable.              *)
CoSymmetry == Permutations(Co \ {MainCo})
=============================================================================
