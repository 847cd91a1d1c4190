------------------------------ MODULE Semaphore ------------------------------
(***************************************************************************)
(* Sem_t (sync/Sem_t.cpp) with the timers its timed waits use              *)
(* (timer/Timer.cpp, timer/TimerTask.cpp).                                 *)
(*                                                                         *)
(* The atomic m_value holds two numbers, the count and the waiters.  A     *)
(* wait that finds no count adds itself to the waiters, leaves its         *)
(* scheduler and only then enters a queue: a plain wait one of the         *)
(* QUEUE_NUMBER wait queues, in turn; a timed wait the set cancelable_wait *)
(* and its thread's timer.  A signal that finds waiters takes one of them  *)
(* off the number and then looks for a coroutine to wake.                  *)
(*                                                                         *)
(* The callers are the coroutines and the tick threads of the timers,      *)
(* which signal for a wait that has timed out.  pc[x] is where x is in     *)
(* Sem_t; got, slot and current are the locals wrap_opt, idx and task.     *)
(***************************************************************************)
EXTENDS Integers, FiniteSets

CONSTANTS
  Co,              \* coroutines
  Timer,           \* timers, each with its tick thread
  Task,            \* TimerTask objects
  NoCo, NoTask,    \* no owner, no task
  QUEUE_NUMBER,    \* number of wait queues (16)
  init_count,      \* Sem_t(val)
  COUNT_BOUND      \* the model's bound: coroutines signal while count is below it

ASSUME SemaphoreAssumption ==
  /\ Co \cap Timer = {}
  /\ IsFiniteSet(Co) /\ IsFiniteSet(Timer) /\ IsFiniteSet(Task)
  /\ NoTask \notin Task
  /\ NoCo \notin Co
  /\ QUEUE_NUMBER \in Nat \ {0}
  /\ init_count \in Nat
  /\ COUNT_BOUND \in Nat

Caller == Co \cup Timer
Queue  == 0 .. QUEUE_NUMBER - 1

VARIABLES
  count,       \* m_value & COUNT_MASK
  waiters,     \* m_value >> WAITER_SHIFT
  waitQ,       \* wait_q: the coroutines in each queue
  pushIdx,     \* q_push_idx % QUEUE_NUMBER
  popIdx,      \* q_pop_idx % QUEUE_NUMBER
  cancelable,  \* cancelable_wait: the tasks of the wraps in it
  owner,       \* the coroutine a task is for, NoCo when the object is free
  armed,       \* armed[k]: m_task of timer k
  expired,     \* expired[k]: the vector process_expired works through
  pc,
  got,         \* the wrap a signaller has popped from cancelable_wait
  slot,        \* the queue a waiter pushes to or a signaller pops from
  current,     \* the task whose callback a tick thread is in
  balance      \* init_count + signals - waits that were granted (history)

valueVars == <<count, waiters>>
queueVars == <<waitQ, pushIdx, popIdx>>
timerVars == <<cancelable, owner, armed, expired, current>>
vars == <<valueVars, queueVars, timerVars, pc, got, slot, balance>>

Pc == {"run", "interrupt", "push", "register", "parked",     \* wait
       "pick", "wait_and_pop", "cancel",                     \* signal
       "tick", "callback", "apply"}                          \* tick thread

TypeOK ==
  /\ count \in Nat
  /\ waiters \in Nat
  /\ waitQ \in [Queue -> SUBSET Co]
  /\ pushIdx \in Queue
  /\ popIdx \in Queue
  /\ cancelable \in SUBSET Task
  /\ owner \in [Task -> Co \cup {NoCo}]
  /\ armed \in [Timer -> SUBSET Task]
  /\ expired \in [Timer -> SUBSET Task]
  /\ pc \in [Caller -> Pc]
  /\ got \in [Caller -> Task \cup {NoTask}]
  /\ slot \in [Caller -> Queue]
  /\ current \in [Timer -> Task \cup {NoTask}]
  /\ balance \in Int

Init ==
  /\ count = init_count
  /\ waiters = 0
  /\ waitQ = [q \in Queue |-> {}]
  /\ pushIdx = 0
  /\ popIdx = 0
  /\ cancelable = {}
  /\ owner = [t \in Task |-> NoCo]
  /\ armed = [k \in Timer |-> {}]
  /\ expired = [k \in Timer |-> {}]
  /\ pc = [x \in Caller |-> IF x \in Co THEN "run" ELSE "tick"]
  /\ got = [x \in Caller |-> NoTask]
  /\ slot = [x \in Caller |-> 0]
  /\ current = [k \in Timer |-> NoTask]
  /\ balance = init_count

Goto(x, from, to) == pc[x] = from /\ pc' = [pc EXCEPT ![x] = to]

NextQueue(q) == (q + 1) % QUEUE_NUMBER

-----------------------------------------------------------------------------
(* wait, wait_for, try_wait.                                                *)

(* A permit is taken by any spin, the last one included.                    *)
TakePermit(c) ==
  /\ pc[c] = "run"
  /\ count > 0
  /\ count' = count - 1
  /\ balance' = balance - 1
  /\ UNCHANGED <<waiters, queueVars, timerVars, pc, got, slot>>

(* The last spin of wait_impl and of wait_timed_impl finds no count.        *)
AddWaiter(c, to) ==
  /\ Goto(c, "run", to)
  /\ count = 0
  /\ waiters' = waiters + 1
  /\ UNCHANGED <<count, queueVars, timerVars, got, slot, balance>>

(* interrupt, remove_from_scheduler, q_push_idx++.                          *)
take_slot(c) ==
  /\ Goto(c, "interrupt", "push")
  /\ slot' = [slot EXCEPT ![c] = pushIdx]
  /\ pushIdx' = NextQueue(pushIdx)
  /\ UNCHANGED <<valueVars, waitQ, popIdx, timerVars, got, balance>>

push_wait_q(c) ==
  /\ Goto(c, "push", "parked")
  /\ waitQ' = [waitQ EXCEPT ![slot[c]] = @ \cup {c}]
  /\ UNCHANGED <<valueVars, pushIdx, popIdx, timerVars, got, slot, balance>>

(* A task object is free again when nothing holds a pointer to it.          *)
Held(t) == \/ t \in cancelable
           \/ \E k \in Timer : t \in armed[k] \cup expired[k] \/ current[k] = t
           \/ \E x \in Caller : got[x] = t

(* create_task and apply_task_until: the task enters the timer and the wrap *)
(* cancelable_wait under the timer's lock.                                  *)
apply_task_until(c, k, t) ==
  /\ Goto(c, "register", "parked")
  /\ ~Held(t)
  /\ owner' = [owner EXCEPT ![t] = c]
  /\ armed' = [armed EXCEPT ![k] = @ \cup {t}]
  /\ cancelable' = cancelable \cup {t}
  /\ UNCHANGED <<valueVars, queueVars, expired, current, got, slot, balance>>

-----------------------------------------------------------------------------
(* signal.                                                                  *)

(* Where signal returns to: the coroutine, or the timeout callback.         *)
Return(x) == IF x \in Co THEN "run" ELSE "apply"

(* Mutant: a signal that takes a waiter off also leaves a count. *)
inc_count_fn_twice(x) ==
  \/ /\ waiters = 0
     /\ count' = count + 1
     /\ pc' = [pc EXCEPT ![x] = Return(x)]
     /\ UNCHANGED waiters
  \/ /\ waiters > 0
     /\ waiters' = waiters - 1
     /\ count' = count + 1
     /\ pc' = [pc EXCEPT ![x] = "pick"]

(* The update of m_value: a count more, or a waiter less.                   *)
inc_count_fn(x) ==
  \/ /\ waiters = 0
     /\ count' = count + 1
     /\ pc' = [pc EXCEPT ![x] = Return(x)]
     /\ UNCHANGED waiters
  \/ /\ waiters > 0
     /\ waiters' = waiters - 1
     /\ pc' = [pc EXCEPT ![x] = "pick"]
     /\ UNCHANGED count

signal(c) ==
  /\ pc[c] = "run"
  /\ count < COUNT_BOUND
  /\ inc_count_fn(c)
  /\ balance' = balance + 1
  /\ UNCHANGED <<queueVars, timerVars, got, slot>>

(* Mutant: q_pop_idx is not advanced. *)
pick_from_wait_q_same(x) ==
  \/ /\ Goto(x, "pick", "cancel")
     /\ \E t \in cancelable :
          /\ cancelable' = cancelable \ {t}
          /\ got' = [got EXCEPT ![x] = t]
     /\ UNCHANGED <<valueVars, queueVars, owner, armed, expired, current, slot, balance>>
  \/ /\ Goto(x, "pick", "wait_and_pop")
     /\ cancelable = {}
     /\ slot' = [slot EXCEPT ![x] = popIdx]
     /\ UNCHANGED <<valueVars, queueVars, timerVars, got, balance>>

(* pick_from_wait_q: any wrap of cancelable_wait (its order is by address), *)
(* or the next wait queue.                                                  *)
pick_from_wait_q(x) ==
  \/ /\ Goto(x, "pick", "cancel")
     /\ \E t \in cancelable :
          /\ cancelable' = cancelable \ {t}
          /\ got' = [got EXCEPT ![x] = t]
     /\ UNCHANGED <<valueVars, queueVars, owner, armed, expired, current, slot, balance>>
  \/ /\ Goto(x, "pick", "wait_and_pop")
     /\ cancelable = {}
     /\ slot' = [slot EXCEPT ![x] = popIdx]
     /\ popIdx' = NextQueue(popIdx)
     /\ UNCHANGED <<valueVars, waitQ, pushIdx, timerVars, got, balance>>

(* The wait for that queue, then apply: the coroutine goes on.              *)
wait_and_pop(x) ==
  /\ pc[x] = "wait_and_pop"
  /\ \E c \in waitQ[slot[x]] :
       /\ waitQ' = [waitQ EXCEPT ![slot[x]] = @ \ {c}]
       /\ pc' = [pc EXCEPT ![x] = Return(x), ![c] = "run"]
  /\ balance' = balance - 1
  /\ UNCHANGED <<valueVars, pushIdx, popIdx, timerVars, got, slot>>

(* Mutant: the result of remove_from_timer is not looked at. *)
cancel_unchecked(x) ==
  LET t == got[x] IN
  /\ pc[x] = "cancel"
  /\ got' = [got EXCEPT ![x] = NoTask]
  /\ armed' = [k \in Timer |-> armed[k] \ {t}]
  /\ pc' = [pc EXCEPT ![x] = Return(x), ![owner[t]] = "run"]
  /\ balance' = balance - 1
  /\ UNCHANGED <<valueVars, queueVars, cancelable, owner, expired, current, slot>>

(* Mutant: a failed cancel goes on to the next waiter instead of returning. *)
cancel_next(x) ==
  LET t == got[x]
      in == {k \in Timer : t \in armed[k]} IN
  /\ pc[x] = "cancel"
  /\ got' = [got EXCEPT ![x] = NoTask]
  /\ \/ /\ in # {}
        /\ armed' = [k \in Timer |-> armed[k] \ {t}]
        /\ pc' = [pc EXCEPT ![x] = Return(x), ![owner[t]] = "run"]
        /\ balance' = balance - 1
     \/ /\ in = {}
        /\ pc' = [pc EXCEPT ![x] = "pick"]
        /\ UNCHANGED <<armed, balance>>
  /\ UNCHANGED <<valueVars, queueVars, cancelable, owner, expired, current, slot>>

(* TimerTask::cancel: a task that is still in its timer is taken out and    *)
(* its coroutine applied; otherwise signal returns and wakes nobody.        *)
cancel(x) ==
  LET t == got[x]
      in == {k \in Timer : t \in armed[k]} IN
  /\ pc[x] = "cancel"
  /\ got' = [got EXCEPT ![x] = NoTask]
  /\ \/ /\ in # {}
        /\ armed' = [k \in Timer |-> armed[k] \ {t}]
        /\ pc' = [pc EXCEPT ![x] = Return(x), ![owner[t]] = "run"]
        /\ balance' = balance - 1
     \/ /\ in = {}
        /\ pc' = [pc EXCEPT ![x] = Return(x)]
        /\ UNCHANGED <<armed, balance>>
  /\ UNCHANGED <<valueVars, queueVars, cancelable, owner, expired, current, slot>>

-----------------------------------------------------------------------------
(* The tick thread: process_expired.                                        *)

(* Under the timer's lock; which tasks have expired is a matter of time.    *)
pick_all_expired(k, ts) ==
  /\ Goto(k, "tick", "callback")
  /\ ts # {}
  /\ expired' = [expired EXCEPT ![k] = ts]
  /\ armed' = [armed EXCEPT ![k] = @ \ ts]
  /\ UNCHANGED <<valueVars, queueVars, cancelable, owner, current, got, slot, balance>>

(* Mutant: a timed-out wait does not give its place back. *)
timer_callback_fn_keeps(k) ==
  /\ Goto(k, "callback", "apply")
  /\ \E t \in expired[k] :
       /\ expired' = [expired EXCEPT ![k] = @ \ {t}]
       /\ current' = [current EXCEPT ![k] = t]
  /\ UNCHANGED <<valueVars, queueVars, cancelable, owner, armed, got, slot, balance>>

(* The callback of a wait that has timed out: ans := false, signal(false).  *)
timer_callback_fn(k) ==
  /\ pc[k] = "callback"
  /\ \E t \in expired[k] :
       /\ expired' = [expired EXCEPT ![k] = @ \ {t}]
       /\ current' = [current EXCEPT ![k] = t]
  /\ inc_count_fn(k)
  /\ UNCHANGED <<queueVars, cancelable, owner, armed, got, slot, balance>>

(* Mutant: only the first of the expired tasks is processed. *)
timeout_apply_first(k) ==
  /\ pc[k] = "apply"
  /\ pc' = [pc EXCEPT ![k] = "tick", ![owner[current[k]]] = "run"]
  /\ current' = [current EXCEPT ![k] = NoTask]
  /\ UNCHANGED <<valueVars, queueVars, cancelable, owner, armed, expired, got, slot, balance>>

(* Then its coroutine is applied; wait_for returns false.                   *)
timeout_apply(k) ==
  /\ pc[k] = "apply"
  /\ pc' = [pc EXCEPT ![k] = IF expired[k] = {} THEN "tick" ELSE "callback",
                      ![owner[current[k]]] = "run"]
  /\ current' = [current EXCEPT ![k] = NoTask]
  /\ UNCHANGED <<valueVars, queueVars, cancelable, owner, armed, expired, got, slot, balance>>

-----------------------------------------------------------------------------
wait(c)     == TakePermit(c) \/ AddWaiter(c, "interrupt")
wait_for(c) == TakePermit(c) \/ AddWaiter(c, "register")
try_wait(c) == TakePermit(c)

(* What user code chooses to do.  A program without timed waits has no task.*)
UserStep(c) == wait(c) \/ (Task # {} /\ wait_for(c)) \/ try_wait(c) \/ signal(c)

WaitStep(c) == \/ take_slot(c) \/ push_wait_q(c)
               \/ \E k \in Timer, t \in Task : apply_task_until(c, k, t)

SignalStep(x) == pick_from_wait_q(x) \/ wait_and_pop(x) \/ cancel(x)

TickStep(k) == \/ \E ts \in SUBSET armed[k] : pick_all_expired(k, ts)
               \/ timer_callback_fn(k) \/ timeout_apply(k)

Next == \/ \E c \in Co : UserStep(c) \/ WaitStep(c)
        \/ \E x \in Caller : SignalStep(x)
        \/ \E k \in Timer : TickStep(k)

(* The library's own steps go on, and the end_time of every task passes.    *)
(* Nothing is assumed of the coroutines' own steps.                         *)
Fairness == /\ \A c \in Co : WF_vars(WaitStep(c))
            /\ \A x \in Caller : WF_vars(SignalStep(x))
            /\ \A k \in Timer : WF_vars(TickStep(k))
            /\ \A k \in Timer, t \in Task :
                 SF_vars(\E ts \in SUBSET armed[k] : t \in ts /\ pick_all_expired(k, ts))

Spec == Init /\ [][Next]_vars
FairSpec == Spec /\ Fairness
-----------------------------------------------------------------------------
(* Signals that have taken a waiter off the number and not yet woken one.   *)
InFlight == {x \in Caller : pc[x] \in {"pick", "wait_and_pop", "cancel"}}

TimedOut == {current[k] : k \in Timer} \ {NoTask}

(* Coroutines that are counted as waiters: of those that have not returned  *)
(* from a wait, a timed-out one has given its place back.                   *)
Waiting == {c \in Co : pc[c] \in {"interrupt", "push", "register", "parked"}}
           \ {owner[t] : t \in TimedOut}

InTimer(t) == \E k \in Timer : t \in armed[k] \cup expired[k]

(* Wraps that wait in cancelable_wait, or with a signaller, for a coroutine *)
(* that has timed out and signalled already: each will swallow a signal.    *)
Stale == {t \in cancelable \cup {got[x] : x \in Caller} : t # NoTask /\ ~InTimer(t)}

(* Expired tasks whose wrap has swallowed a signal already: each will       *)
(* signal when its callback runs.                                           *)
Swallowed == {t \in UNION {expired[k] : k \in Timer} :
                t \notin cancelable /\ \A x \in Caller : got[x] # t}

(* The number of waiters in m_value is the number of waiting coroutines, up *)
(* to the signals under way and to the two ways in which a timeout and a    *)
(* signal can miss each other.                                              *)
WaitersMatch ==
  waiters + Cardinality(InFlight)
    = Cardinality(Waiting) + Cardinality(Stale) - Cardinality(Swallowed)

(* No permit is made or lost, except the one that every stale wrap owes: a  *)
(* timeout whose signal reaches another timed wait grants a permit that     *)
(* nobody has signalled, and its own wrap takes it back later.              *)
Conservation ==
  balance = count + Cardinality(InFlight) + Cardinality(Swallowed) - Cardinality(Stale)

(* When no signal is under way, no coroutine waits while there is a permit. *)
NoLostPermit ==
  count > 0 /\ InFlight = {} /\ Swallowed = {} => Waiting = {}

(* Every parked coroutine has one place from which it will be woken, and    *)
(* nobody else has one: cancel and pick_all_expired never both wake it, and *)
(* never neither.                                                           *)
Wakers(c) == {q \in Queue : c \in waitQ[q]}
TimerWakers(c) == {t \in Task : owner[t] = c /\ (InTimer(t) \/ t \in TimedOut)}

OneWaker ==
  \A c \in Co : Cardinality(Wakers(c)) + Cardinality(TimerWakers(c))
                 = (IF pc[c] = "parked" THEN 1 ELSE 0)

(* Without timed waits Sem_t is a counting semaphore, in safety and in      *)
(* liveness; a permit is on its way while a signal looks for its waiter.    *)
CS == INSTANCE CountingSemaphore
        WITH permits <- count + Cardinality(InFlight), waiting <- Waiting

ImplementsSemaphore == CS!FairSpec

(* The wait for a queue in pick_from_wait_q ends: the counted waiter comes  *)
(* to that very queue.                                                      *)
SignalReturns == \A c \in Co : c \in InFlight ~> pc[c] = "run"

(* A signaller that waits for a queue no plain wait is on its way to.       *)
Stuck(x) == pc[x] = "wait_and_pop" /\ waitQ[slot[x]] = {}

(* A timed wait ends, unless some signaller waits for ever for an empty     *)
(* queue.                                                                   *)
TimedWaitEnds ==
  \A c \in Co : TimerWakers(c) # {} ~> (pc[c] = "run" \/ \E x \in Caller : []Stuck(x))
=============================================================================
