--------------------------------- MODULE Lock ---------------------------------
(***************************************************************************)
(* What a spin lock promises: at most one holder at a time, who took the   *)
(* lock while it was free and gives it back himself; a thread that only    *)
(* tries may give up.                                                      *)
(***************************************************************************)
CONSTANT Thread

VARIABLES holders, trying

vars == <<holders, trying>>

Init == holders = {} /\ trying = {}

Call(t) ==
  /\ t \notin trying \cup holders
  /\ trying' = trying \cup {t}
  /\ UNCHANGED holders

Acquire(t) ==
  /\ holders = {} /\ t \in trying
  /\ holders' = {t}
  /\ trying' = trying \ {t}

GiveUp(t) ==
  /\ t \in trying
  /\ trying' = trying \ {t}
  /\ UNCHANGED holders

Release(t) ==
  /\ t \in holders
  /\ holders' = holders \ {t}
  /\ UNCHANGED trying

Next == \E t \in Thread : Call(t) \/ Acquire(t) \/ GiveUp(t) \/ Release(t)

Spec == Init /\ [][Next]_vars
===============================================================================
