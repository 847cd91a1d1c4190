----------------------------- MODULE MCSemaphore -----------------------------
(* Instances of Semaphore for TLC.                                          *)
EXTENDS Semaphore, TLC

Symmetry == Permutations(Co) \cup Permutations(Task)
=============================================================================
