----------------------------- MODULE MCServices -------------------------------
(* The spin lock and the services in one run: a behaviour is about one of   *)
(* them.  While it is about a service the lock is left alone, and while it  *)
(* is about the lock the services are.                                      *)
EXTENDS SpinLock, Services, TLC

CONSTANTS a1, a2, a3, b1, b2, p, q

VARIABLE locking

(* The services that a behaviour is not about begin in one state.           *)
Idle ==
  /\ service # "cfs" =>
       /\ contended /\ own = [c \in Co |-> 0]
       /\ occupy_thread = [c \in Co |-> p]
  /\ service # "pool" => firstBlock = a1

MCInit ==
  /\ Init /\ ServicesInit /\ Idle
  /\ locking \in BOOLEAN /\ (locking => service = "timers")

MCNext ==
  /\ UNCHANGED locking
  /\ \/ locking /\ Next /\ UNCHANGED serviceVars
     \/ ~locking /\ ServicesNext /\ UNCHANGED vars

MCSpec == MCInit /\ [][MCNext]_<<locking, vars, serviceVars>>

Symmetry == Permutations({b1, b2})
===============================================================================
