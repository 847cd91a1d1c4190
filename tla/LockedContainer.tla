----------------------------- MODULE LockedContainer ----------------------------
(***************************************************************************)
(* LockedContainer (data_structure/include/LockedContainer.h) around a     *)
(* RandomStack (data_structure/include/RandomStack.h): the queue in which  *)
(* Sem_t keeps its waiters.  Everything happens under m_lock but the look  *)
(* at m_size by which wait_and_pop finds out that there is nothing.        *)
(***************************************************************************)
EXTENDS Integers, SequencesExt

CONSTANTS
  Thread, Item, None,
  MaxCalls     \* bound on the calls of one thread

LockedContainerAssumption ==
  None \notin Thread \cup Item /\ MaxCalls \in Nat

VARIABLES
  m_data,      \* RandomStack's vector
  m_size,      \* what LockedContainer counts
  m_lock,      \* its holder
  pc, arg,     \* where a thread is, and what it pushes
  got,         \* thread -> the items it was given (history)
  pushed,      \* the items that were pushed (history)
  calls

vars == <<m_data, m_size, m_lock, pc, arg, got, pushed, calls>>

TypeOK ==
  /\ m_data \in Seq(Item)
  /\ m_size \in 0 .. Cardinality(Item)
  /\ m_lock \in Thread \cup {None}
  /\ pc \in [Thread -> {"idle", "push", "push_size", "push_unlock", "try", "wait",
                        "wait_lock", "swap", "pop_size", "pop_unlock", "wait_unlock"}]
  /\ arg \in [Thread -> Item \cup {None}]
  /\ got \in [Thread -> SUBSET Item]
  /\ pushed \subseteq Item
  /\ calls \in [Thread -> 0 .. MaxCalls]

Init ==
  /\ m_data = <<>> /\ m_size = 0 /\ m_lock = None
  /\ pc = [t \in Thread |-> "idle"] /\ arg = [t \in Thread |-> None]
  /\ got = [t \in Thread |-> {}] /\ pushed = {}
  /\ calls = [t \in Thread |-> 0]

-----------------------------------------------------------------------------
Goto(t, from, to) == pc[t] = from /\ pc' = [pc EXCEPT ![t] = to]
lock(t) == m_lock = None /\ m_lock' = t
unlock(t) == m_lock = t /\ m_lock' = None

Call(t, to) ==
  /\ Goto(t, "idle", to)
  /\ calls[t] < MaxCalls /\ calls' = [calls EXCEPT ![t] = @ + 1]
  /\ UNCHANGED <<m_data, m_size, m_lock, got>>

(* push(data)                                                               *)
push(t) ==
  /\ Call(t, "push")
  /\ \E x \in Item \ pushed :
       arg' = [arg EXCEPT ![t] = x] /\ pushed' = pushed \cup {x}

push_data(t) ==
  /\ Goto(t, "push", "push_size") /\ lock(t)
  /\ m_data' = Append(m_data, arg[t])
  /\ arg' = [arg EXCEPT ![t] = None]
  /\ UNCHANGED <<m_size, got, pushed, calls>>

push_size(t) ==
  /\ Goto(t, "push_size", "push_unlock")
  /\ m_size' = m_size + 1
  /\ UNCHANGED <<m_data, m_lock, arg, got, pushed, calls>>

try_pop(t) == Call(t, "try") /\ UNCHANGED <<arg, pushed>>
wait_and_pop(t) == Call(t, "wait") /\ UNCHANGED <<arg, pushed>>

(* The look at m_size, with no lock: nothing to do while it is 0.           *)
wait_look(t) ==
  /\ Goto(t, "wait", "wait_lock") /\ m_size # 0
  /\ UNCHANGED <<m_data, m_size, m_lock, arg, got, pushed, calls>>

(* RandomStack::pop: the last item.                                         *)
pop_data(t, from) ==
  /\ Goto(t, from, "swap") /\ lock(t)
  /\ m_data # <<>>
  /\ got' = [got EXCEPT ![t] = @ \cup {Last(m_data)}]
  /\ m_data' = Front(m_data)
  /\ UNCHANGED <<m_size, arg, pushed, calls>>

(* One time in four a random item changes places with the one that is last  *)
(* now.                                                                     *)
pop_swap(t) ==
  /\ Goto(t, "swap", "pop_size")
  /\ \/ UNCHANGED m_data
     \/ /\ Len(m_data) > 1
        /\ \E i \in DOMAIN m_data :
             m_data' = [m_data EXCEPT ![i] = Last(m_data), ![Len(m_data)] = m_data[i]]
  /\ UNCHANGED <<m_size, m_lock, arg, got, pushed, calls>>

pop_size(t) ==
  /\ Goto(t, "pop_size", "pop_unlock")
  /\ m_size' = m_size - 1
  /\ UNCHANGED <<m_data, m_lock, arg, got, pushed, calls>>

(* try_pop gives nothing; wait_and_pop goes on.                             *)
nothing(t) ==
  /\ m_data = <<>> /\ lock(t)
  /\ Goto(t, "try", "pop_unlock") \/ Goto(t, "wait_lock", "wait_unlock")
  /\ UNCHANGED <<m_data, m_size, arg, got, pushed, calls>>

leave(t) ==
  /\ \/ Goto(t, "push_unlock", "idle")
     \/ Goto(t, "pop_unlock", "idle")
     \/ Goto(t, "wait_unlock", "wait")
  /\ unlock(t)
  /\ UNCHANGED <<m_data, m_size, arg, got, pushed, calls>>

Step(t) ==
  \/ push_data(t) \/ push_size(t)
  \/ wait_look(t)
  \/ pop_data(t, "try") \/ pop_data(t, "wait_lock")
  \/ pop_swap(t) \/ pop_size(t) \/ nothing(t) \/ leave(t)

Next ==
  \E t \in Thread : push(t) \/ try_pop(t) \/ wait_and_pop(t) \/ Step(t)

Spec == Init /\ [][Next]_vars

-----------------------------------------------------------------------------
(* An item that was pushed is in the hands of its pusher, in the stack or   *)
(* with one thread: a waiter of a semaphore is woken once                  *)
(* (LockedContainer.h push, try_pop, wait_and_pop; RandomStack.h pop).     *)
EachOnce ==
  LET Places(x) == {<<"push", t>> : t \in {u \in Thread : arg[u] = x}}
                     \cup {<<"data", i>> : i \in {j \in DOMAIN m_data : m_data[j] = x}}
                     \cup {<<"got", t>> : t \in {u \in Thread : x \in got[u]}}
  IN \A x \in Item : Cardinality(Places(x)) = IF x \in pushed THEN 1 ELSE 0

(* m_size, which wait_and_pop reads without the lock, is what the stack     *)
(* holds whenever the lock is free: nobody waits beside an item, and nobody *)
(* who has seen one waits for ever under the lock (LockedContainer.h:40).   *)
SizeExact == m_lock = None => m_size = Len(m_data)

===============================================================================
