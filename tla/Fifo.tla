---------------------------------- MODULE Fifo ----------------------------------
(***************************************************************************)
(* What a ring promises, without indices and memory: a sequence of values  *)
(* that leave in the order in which they came.                             *)
(***************************************************************************)
EXTENDS Naturals, Sequences

CONSTANTS
  Value,
  NoValue,     \* the answer of a call that found the queue empty, or full
  Limit        \* how many values fit

VARIABLES
  q,        \* the values in it
  answer    \* what the last call that answers gave

vars == <<q, answer>>

Init == q = <<>> /\ answer = NoValue

Put(v) == Len(q) < Limit /\ q' = Append(q, v) /\ UNCHANGED answer

Refuse == Len(q) = Limit /\ answer' = NoValue /\ UNCHANGED q

Take == q # <<>> /\ answer' = Head(q) /\ q' = Tail(q)

Discard == q # <<>> /\ q' = Tail(q) /\ UNCHANGED answer

Look == q # <<>> /\ answer' = Head(q) /\ UNCHANGED q

Nothing == q = <<>> /\ answer' = NoValue /\ UNCHANGED q

Next ==
  \/ \E v \in Value : Put(v)
  \/ Refuse \/ Take \/ Discard \/ Look \/ Nothing

Spec == Init /\ [][Next]_vars
===============================================================================
