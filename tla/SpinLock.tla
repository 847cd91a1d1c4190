------------------------------- MODULE SpinLock -------------------------------
(***************************************************************************)
(* spin_lock (utils/include/spin_lock.h) and spin_lock_sleep               *)
(* (utils/include/spin_lock_sleep.h): one flag, exchanged to take the lock *)
(* and read in between.  How long a pause between two reads is, is left    *)
(* open, and so is by how much it reduces max_spin.                        *)
(***************************************************************************)
EXTENDS Integers

CONSTANTS
  Thread,
  MaxSpin      \* the argument of try_lock_for and try_lock_for_backoff

ASSUME SpinLockAssumption == MaxSpin \in Nat \ {0}

VARIABLES
  m_lock,
  pc,          \* "idle", "exchange", "spin", "tryLoad", "tryExchange",
               \* "held", "failed"
  call,        \* the operation: "lock", "wait" (wait_until_lockable), "for", "try"
  max_spin,
  seen         \* whether the lock was held at some time of the operation (history)

vars == <<m_lock, pc, call, max_spin, seen>>

Calls == {"lock", "wait", "for", "try"}

TypeOK ==
  /\ m_lock \in BOOLEAN
  /\ pc \in [Thread -> {"idle", "exchange", "spin", "tryLoad", "tryExchange",
                        "held", "failed"}]
  /\ call \in [Thread -> Calls]
  /\ max_spin \in [Thread -> 0 .. MaxSpin]
  /\ seen \in [Thread -> BOOLEAN]

Init ==
  /\ m_lock = FALSE
  /\ pc = [t \in Thread |-> "idle"]
  /\ call = [t \in Thread |-> "lock"]
  /\ max_spin = [t \in Thread |-> 0]
  /\ seen = [t \in Thread |-> FALSE]

-----------------------------------------------------------------------------
Goto(t, from, to) == pc[t] = from /\ pc' = [pc EXCEPT ![t] = to]

Call(t, op) ==
  /\ Goto(t, "idle", IF op = "try" THEN "tryLoad" ELSE "exchange")
  /\ call' = [call EXCEPT ![t] = op]
  /\ max_spin' = [max_spin EXCEPT ![t] = IF op = "for" THEN MaxSpin ELSE 0]
  /\ seen' = [seen EXCEPT ![t] = m_lock]
  /\ UNCHANGED m_lock

(* Mutant: the flag is read and then set. *)
exchange_ignoring(t, from, otherwise) ==
  /\ Goto(t, from, "held")
  /\ m_lock' = TRUE
  /\ seen' = [u \in Thread |-> TRUE]
  /\ UNCHANGED <<call, max_spin>>

(* lock->exchange(true): the lock is taken when the flag was not set.       *)
exchange(t, from, otherwise) ==
  /\ m_lock' = TRUE
  /\ \/ ~m_lock /\ Goto(t, from, "held") /\ seen' = [u \in Thread |-> TRUE]
     \/ m_lock /\ Goto(t, from, otherwise) /\ UNCHANGED seen
  /\ UNCHANGED <<call, max_spin>>

(* SpinSleeper: a pause, or a yield after many, costs a try at least one    *)
(* turn; what is left of n.                                                 *)
pause(n) == 0 .. n - 1

(* The reads between two exchanges; try_lock_for ends when its turns are    *)
(* used up.                                                                 *)
spin(t) ==
  /\ pc[t] = "spin"
  /\ \/ /\ call[t] = "for" /\ max_spin[t] = 0
        /\ Goto(t, "spin", "failed") /\ UNCHANGED max_spin
     \/ /\ ~m_lock
        /\ call[t] = "for" => max_spin[t] > 0
        /\ Goto(t, "spin", "exchange") /\ UNCHANGED max_spin
     \/ /\ m_lock /\ call[t] = "for" /\ max_spin[t] > 0
        /\ \E n \in pause(max_spin[t]) : max_spin' = [max_spin EXCEPT ![t] = n]
        /\ UNCHANGED pc
  /\ UNCHANGED <<m_lock, call, seen>>

(* Mutant: the negation is dropped. *)
try_load_held(t) ==
  /\ Goto(t, "tryLoad", IF m_lock THEN "tryExchange" ELSE "failed")
  /\ UNCHANGED <<m_lock, call, max_spin, seen>>

(* try_lock: a read, and an exchange only if the lock looks free.           *)
try_load(t) ==
  /\ Goto(t, "tryLoad", IF m_lock THEN "failed" ELSE "tryExchange")
  /\ UNCHANGED <<m_lock, call, max_spin, seen>>

(* A try returns false.                                                     *)
return_false(t) ==
  /\ Goto(t, "failed", "idle")
  /\ UNCHANGED <<m_lock, call, max_spin, seen>>

unlock(t) ==
  /\ Goto(t, "held", "idle")
  /\ m_lock' = FALSE
  /\ UNCHANGED <<call, max_spin, seen>>

Next ==
  \E t \in Thread :
    \/ \E op \in Calls : Call(t, op)
    \/ exchange(t, "exchange", "spin") \/ spin(t)
    \/ try_load(t) \/ exchange(t, "tryExchange", "failed") \/ return_false(t)
    \/ unlock(t)

Spec == Init /\ [][Next]_vars

-----------------------------------------------------------------------------
Holders == {t \in Thread : pc[t] = "held"}

(* An operation that returns false has had the lock held by somebody else   *)
(* at some time since it was called (try_lock, try_lock_for).               *)
FailsOnlyIfHeld == \A t \in Thread : pc[t] = "failed" => seen[t]

(* The flag implements Lock: exchanges, reads and stores of any number of   *)
(* threads let one of them in at a time (lock, try_lock, unlock).           *)
Trying == {t \in Thread : pc[t] \in {"exchange", "spin", "tryLoad", "tryExchange"}}

L == INSTANCE Lock WITH holders <- Holders, trying <- Trying

ImplementsLock == L!Spec
===============================================================================
