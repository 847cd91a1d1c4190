-------------------------------- MODULE Multiset --------------------------------
(***************************************************************************)
(* What an ordered container promises, without nodes, levels and locks: how *)
(* many copies of each key are in it.                                      *)
(***************************************************************************)
EXTENDS Naturals

CONSTANT Key

VARIABLES
  bag,      \* key -> its copies
  answer    \* what the last erase or exists gave

vars == <<bag, answer>>

Init == bag = [k \in Key |-> 0] /\ answer = FALSE

Insert(k) == bag' = [bag EXCEPT ![k] = @ + 1] /\ UNCHANGED answer

Erase(k) ==
  /\ answer' = (bag[k] > 0)
  /\ bag' = [bag EXCEPT ![k] = IF @ > 0 THEN @ - 1 ELSE 0]

Exists(k) == answer' = (bag[k] > 0) /\ UNCHANGED bag

Next == \E k \in Key : Insert(k) \/ Erase(k) \/ Exists(k)

Spec == Init /\ [][Next]_vars
===============================================================================
