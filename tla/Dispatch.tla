------------------------------- MODULE Dispatch -------------------------------
(***************************************************************************)
(* What the scheduler promises, without heaps, buffers, tokens and locks:  *)
(* a coroutine that is submitted once is executed once, by one scheduler,  *)
(* which executes nothing else meanwhile; and one that is queued or        *)
(* executing is not submitted again.                                       *)
(***************************************************************************)
CONSTANTS Worker, Task, NoTask

VARIABLES queued,      \* submitted, not yet taken
          executing    \* what each worker executes

vars == <<queued, executing>>

Init == queued = {} /\ executing = [w \in Worker |-> NoTask]

Submit(c) == /\ c \notin queued
             /\ \A w \in Worker : executing[w] # c
             /\ queued' = queued \cup {c}
             /\ UNCHANGED executing

Take(w, c) == /\ executing[w] = NoTask
              /\ c \in queued
              /\ queued' = queued \ {c}
              /\ executing' = [executing EXCEPT ![w] = c]

Release(w) == /\ executing[w] # NoTask
              /\ executing' = [executing EXCEPT ![w] = NoTask]
              /\ UNCHANGED queued

Next == \/ \E c \in Task : Submit(c)
        \/ \E w \in Worker : Release(w) \/ \E c \in Task : Take(w, c)

Spec == Init /\ [][Next]_vars
=============================================================================
