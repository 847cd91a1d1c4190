----------------------------- MODULE MCContainers ------------------------------
(* The growing ring and the containers that threads share in one run: a     *)
(* behaviour is about the ring, and leaves the containers alone, or about   *)
(* one of them.                                                             *)
EXTENDS RingQueue, Containers, TLC

CONSTANTS a1, a2, a3, b1, b2

MCSizes == {1, 4}

VARIABLE growing

MCInit ==
  /\ Init /\ ContainersInit
  /\ growing \in BOOLEAN
  /\ IF growing THEN container = "ring" ELSE m_capacity = DEFAULT_SIZE

MCNext ==
  /\ UNCHANGED growing
  /\ \/ growing /\ Next /\ UNCHANGED containerVars
     \/ ~growing /\ ContainersNext /\ UNCHANGED vars

MCSpec == MCInit /\ [][MCNext]_<<growing, vars, containerVars>>

Symmetry == Permutations({a1, a2, a3}) \cup Permutations({b1, b2})
===============================================================================
