--------------------------------- MODULE Join ---------------------------------
(***************************************************************************)
(* What awaiting a coroutine promises: a coroutine is created, ends once,  *)
(* and is destroyed after it has ended and nobody waits for it; an await   *)
(* of it returns after its end, and does return.                           *)
(***************************************************************************)
CONSTANTS Co, None

VARIABLES
  phase,      \* "none", "live" or "ended"
  awaited     \* the coroutine that a coroutine waits for

vars == <<phase, awaited>>

Init ==
  /\ phase \in [Co -> {"none", "live"}]
  /\ awaited = [c \in Co |-> None]

Create(d) ==
  /\ phase[d] = "none"
  /\ phase' = [phase EXCEPT ![d] = "live"]
  /\ UNCHANGED awaited

Call(c, d) ==
  /\ phase[c] = "live" /\ phase[d] # "none"
  /\ awaited[c] = None
  /\ awaited' = [awaited EXCEPT ![c] = d]
  /\ UNCHANGED phase

End(d) ==
  /\ phase[d] = "live" /\ awaited[d] = None
  /\ phase' = [phase EXCEPT ![d] = "ended"]
  /\ UNCHANGED awaited

Return(c) ==
  /\ awaited[c] # None
  /\ phase[awaited[c]] = "ended"
  /\ awaited' = [awaited EXCEPT ![c] = None]
  /\ UNCHANGED phase

Destroy(d) ==
  /\ phase[d] = "ended"
  /\ \A c \in Co : awaited[c] # d
  /\ phase' = [phase EXCEPT ![d] = "none"]
  /\ UNCHANGED awaited

Next == \E c \in Co : \/ Create(c) \/ End(c) \/ Return(c) \/ Destroy(c)
                      \/ \E d \in Co : Call(c, d)

Spec == Init /\ [][Next]_vars /\ \A c \in Co : WF_vars(Return(c))
===============================================================================
