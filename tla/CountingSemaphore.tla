--------------------------- MODULE CountingSemaphore ---------------------------
(***************************************************************************)
(* What Sem_t promises its callers: it starts with init_count permits,     *)
(* signal adds one, wait takes one, at once or after it has been put among *)
(* the waiting coroutines, and the permits never run below zero.           *)
(***************************************************************************)
EXTENDS Naturals

CONSTANTS Co, init_count

VARIABLES permits,   \* signalled and not yet taken
          waiting    \* coroutines blocked in wait

Init == permits = init_count /\ waiting = {}

Signal == permits' = permits + 1 /\ UNCHANGED waiting

Take(c) == /\ c \notin waiting
           /\ permits > 0
           /\ permits' = permits - 1
           /\ UNCHANGED waiting

Block(c) == /\ c \notin waiting
            /\ waiting' = waiting \cup {c}
            /\ UNCHANGED permits

Grant(c) == /\ c \in waiting
            /\ permits > 0
            /\ permits' = permits - 1
            /\ waiting' = waiting \ {c}

Next == Signal \/ \E c \in Co : Take(c) \/ Block(c) \/ Grant(c)

Spec == Init /\ [][Next]_<<permits, waiting>>

(* As long as permits and waiting coroutines meet, one of them is granted.  *)
FairSpec == Spec /\ WF_<<permits, waiting>>(\E c \in Co : Grant(c))
=============================================================================
