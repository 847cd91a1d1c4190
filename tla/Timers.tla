-------------------------------- MODULE Timers --------------------------------
(***************************************************************************)
(* Timer (timer/Timer.cpp) and TimerTask (timer/TimerTask.cpp): every timer *)
(* has an ordered set of tasks under a lock and a thread that runs the     *)
(* callbacks of the tasks whose time has come; the task's user may cancel  *)
(* it or give it another time meanwhile.  A task is used once, and by one  *)
(* user at a time.                                                         *)
(***************************************************************************)
EXTENDS Integers, FiniteSets

CONSTANTS
  Timer, Task, None,
  MaxTime,     \* bound on the clock
  MaxResets    \* bound on the resets of one task

TimersAssumption == None \notin Timer /\ MaxTime \in Nat /\ MaxResets \in Nat

VARIABLES
  now,
  m_task,                 \* timer -> the tasks in it
  timer,                  \* task -> its timer pointer
  end_time, m_duration, is_canceled, is_handled,
  pc,                     \* what the user of a task is doing
  tick, end_point, expired,   \* the timer's thread
  calls,                  \* task -> the callbacks that ran, TRUE for a timeout (history)
  resets

taskVars == <<timer, end_time, m_duration, is_canceled, is_handled>>
tickVars == <<tick, end_point, expired>>
vars == <<now, m_task, taskVars, pc, tickVars, calls, resets>>

Time == 0 .. MaxTime

TypeOK ==
  /\ now \in Time
  /\ m_task \in [Timer -> SUBSET Task]
  /\ timer \in [Task -> Timer \cup {None}]
  /\ end_time \in [Task -> Time] /\ m_duration \in [Task -> -MaxTime .. MaxTime]
  /\ is_canceled \in [Task -> BOOLEAN] /\ is_handled \in [Task -> BOOLEAN]
  /\ pc \in [Task -> {"new", "user", "cancel", "canceling", "callback", "reset", "push"}]
  /\ tick \in [Timer -> {"idle", "lock", "callbacks"}]
  /\ end_point \in [Timer -> Time]
  /\ expired \in [Timer -> SUBSET Task]
  /\ calls \in [Task -> [BOOLEAN -> Nat]]
  /\ resets \in [Task -> 0 .. MaxResets]

Init ==
  /\ now = 0
  /\ m_task = [k \in Timer |-> {}]
  /\ timer = [t \in Task |-> None]
  /\ end_time = [t \in Task |-> 0] /\ m_duration = [t \in Task |-> 0]
  /\ is_canceled = [t \in Task |-> FALSE] /\ is_handled = [t \in Task |-> FALSE]
  /\ pc = [t \in Task |-> "new"]
  /\ tick = [k \in Timer |-> "idle"] /\ end_point = [k \in Timer |-> 0]
  /\ expired = [k \in Timer |-> {}]
  /\ calls = [t \in Task |-> [b \in BOOLEAN |-> 0]]
  /\ resets = [t \in Task |-> 0]

-----------------------------------------------------------------------------
Goto(t, from, to) == pc[t] = from /\ pc' = [pc EXCEPT ![t] = to]

(* create_task, then apply_task or apply_task_until.                        *)
apply_task(t, k, until) ==
  /\ Goto(t, "new", "user") /\ now =< until
  /\ m_duration' = [m_duration EXCEPT ![t] = until - now]
  /\ end_time' = [end_time EXCEPT ![t] = until]
  /\ timer' = [timer EXCEPT ![t] = k]
  /\ m_task' = [m_task EXCEPT ![k] = @ \cup {t}]
  /\ UNCHANGED <<now, is_canceled, is_handled, tickVars, calls, resets>>

(* What cancel and reset look at first, without a lock.                     *)
Open(t) == ~is_canceled[t] /\ ~is_handled[t] /\ timer[t] # None

cancel(t) ==
  /\ Open(t) /\ Goto(t, "user", "cancel")
  /\ UNCHANGED <<now, m_task, taskVars, tickVars, calls, resets>>

(* Mutant: the task is removed from the set whether or not it is there. *)
remove_from_timer_unchecked(t, from, to) ==
  /\ Goto(t, from, to)
  /\ m_task' = [m_task EXCEPT ![timer[t]] = @ \ {t}]
  /\ timer' = [timer EXCEPT ![t] = None]

(* Under the timer's lock: false when the task is in the set no more.       *)
remove_from_timer(t, from, to) ==
  \/ /\ Goto(t, from, to)
     /\ t \in m_task[timer[t]]
     /\ m_task' = [m_task EXCEPT ![timer[t]] = @ \ {t}]
     /\ timer' = [timer EXCEPT ![t] = None]
  \/ /\ Goto(t, from, "user")
     /\ t \notin m_task[timer[t]]
     /\ UNCHANGED <<m_task, timer>>

cancel_remove(t) ==
  /\ remove_from_timer(t, "cancel", "callback")
  /\ UNCHANGED <<now, end_time, m_duration, is_canceled, is_handled, tickVars,
                 calls, resets>>

cancel_callback(t) ==
  /\ Goto(t, "callback", "canceling")
  /\ calls' = [calls EXCEPT ![t][FALSE] = @ + 1]
  /\ UNCHANGED <<now, m_task, taskVars, tickVars, resets>>

cancel_store(t) ==
  /\ Goto(t, "canceling", "user")
  /\ is_canceled' = [is_canceled EXCEPT ![t] = TRUE]
  /\ UNCHANGED <<now, m_task, timer, end_time, m_duration, is_handled, tickVars,
                 calls, resets>>

(* reset(duration, from_now), reset_until(until), refresh().                *)
reset(t) ==
  /\ Open(t) /\ Goto(t, "user", "reset")
  /\ resets[t] < MaxResets /\ resets' = [resets EXCEPT ![t] = @ + 1]
  /\ UNCHANGED <<now, m_task, taskVars, tickVars, calls>>

reset_remove(t) ==
  /\ remove_from_timer(t, "reset", "push")
  /\ UNCHANGED <<now, end_time, m_duration, is_canceled, is_handled, tickVars,
                 calls, resets>>

(* The new end and duration, from now, from the old start or until a time.  *)
NewTimes(t) ==
  {<<now + d, d>> : d \in Time}
    \cup {<<end_time[t] - m_duration[t] + d, d>> : d \in Time}
    \cup {<<u, u - now>> : u \in Time}

(* Into the timer of the thread the user runs on now.                       *)
push_to_timer(t, k) ==
  /\ Goto(t, "push", "user")
  /\ \E n \in NewTimes(t) :
       /\ n[1] \in Time
       /\ end_time' = [end_time EXCEPT ![t] = n[1]]
       /\ m_duration' = [m_duration EXCEPT ![t] = n[2]]
  /\ timer' = [timer EXCEPT ![t] = k]
  /\ m_task' = [m_task EXCEPT ![k] = @ \cup {t}]
  /\ UNCHANGED <<now, is_canceled, is_handled, tickVars, calls, resets>>

-----------------------------------------------------------------------------
(* process_expired: the clock is read first, ...                            *)
read_clock(k) ==
  /\ tick[k] = "idle" /\ tick' = [tick EXCEPT ![k] = "lock"]
  /\ end_point' = [end_point EXCEPT ![k] = now]
  /\ UNCHANGED <<now, m_task, taskVars, pc, expired, calls, resets>>

need_to_handle(t, time) == time >= end_time[t]

(* ... then, under the lock, the tasks from the front of the ordered set.   *)
pick_all_expired(k) ==
  LET ts == {t \in m_task[k] : need_to_handle(t, end_point[k])} IN
  /\ tick[k] = "lock"
  /\ tick' = [tick EXCEPT ![k] = IF ts = {} THEN "idle" ELSE "callbacks"]
  /\ m_task' = [m_task EXCEPT ![k] = @ \ ts]
  /\ is_handled' = [t \in Task |-> is_handled[t] \/ t \in ts]
  /\ expired' = [expired EXCEPT ![k] = ts]
  /\ UNCHANGED <<now, timer, end_time, m_duration, is_canceled, pc, end_point,
                 calls, resets>>

(* The callbacks run in the order of the set, without the lock.             *)
process_expired(k) ==
  /\ tick[k] = "callbacks"
  /\ \E t \in expired[k] :
       /\ \A u \in expired[k] : end_time[t] =< end_time[u]
       /\ calls' = [calls EXCEPT ![t][TRUE] = @ + 1]
       /\ expired' = [expired EXCEPT ![k] = @ \ {t}]
  /\ tick' = [tick EXCEPT ![k] = IF expired'[k] = {} THEN "idle" ELSE "callbacks"]
  /\ UNCHANGED <<now, m_task, taskVars, pc, end_point, resets>>

Pass ==
  /\ now < MaxTime /\ now' = now + 1
  /\ UNCHANGED <<m_task, taskVars, pc, tickVars, calls, resets>>

TaskStep(t) ==
  \/ cancel_remove(t) \/ cancel_callback(t) \/ cancel_store(t)
  \/ reset_remove(t) \/ \E k \in Timer : push_to_timer(t, k)

TickStep(k) == read_clock(k) \/ pick_all_expired(k) \/ process_expired(k)

Next ==
  \/ Pass
  \/ \E k \in Timer : TickStep(k)
  \/ \E t \in Task :
       \/ TaskStep(t) \/ cancel(t) \/ reset(t)
       \/ \E k \in Timer, until \in Time : apply_task(t, k, until)

Spec == Init /\ [][Next]_vars

-----------------------------------------------------------------------------
(* A task's callback runs once: with true from the timer's thread or with   *)
(* false from cancel, whichever order they come in, and a task that is      *)
(* cancelled is in no timer's hands.                                        *)
OneCallback ==
  \A t \in Task :
    /\ calls[t][TRUE] + calls[t][FALSE] =< 1
    /\ is_canceled[t] => \A k \in Timer : t \notin m_task[k] \cup expired[k]

(* A task that is in a set is in that of its timer, in no other, and open:  *)
(* remove_from_timer looks for it in the right place.                       *)
FoundByPointer ==
  \A t \in Task, k \in Timer :
    t \in m_task[k] => timer[t] = k /\ ~is_handled[t] /\ ~is_canceled[t]

(* No timeout before the task's time, that of its last reset included: once *)
(* the timer's thread has a task in hand, no reset gives it another time.   *)
NotEarly == \A k \in Timer : \A t \in expired[k] : end_time[t] =< now

(* A timer's task is called back at most once, and who looks for one finds  *)
(* it where the last step of the other thread left it (cancel, reset,       *)
(* process_expired).                                                        *)
CallbacksOnce == TypeOK /\ OneCallback /\ FoundByPointer /\ NotEarly
===============================================================================
