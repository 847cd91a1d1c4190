--------------------------- MODULE SemaphoreProofs ---------------------------
(***************************************************************************)
(* Every waiting coroutine of a semaphore has one place from which it will *)
(* be woken, the two numbers in m_value agree with the coroutines that     *)
(* wait and the signals under way, and without timed waits Sem_t is the    *)
(* counting semaphore CountingSemaphore.                                   *)
(***************************************************************************)
EXTENDS Semaphore, FiniteSetTheorems, TLAPS

(* A task that a timer will process, or whose callback it is in.            *)
Live(t) == \E k \in Timer : t \in armed[k] \cup expired[k] \/ current[k] = t

(* A wrap that a signal can still find.                                     *)
Wrapped(t) == t \in cancelable \/ \E x \in Caller : got[x] = t

SignalPc == {"pick", "wait_and_pop", "cancel"}
WaitPc   == {"interrupt", "push", "register", "parked"}

(* Where the coroutines and the tick threads can be.                        *)
PcSays ==
  /\ \A c \in Co : pc[c] \notin {"tick", "callback", "apply"}
  /\ \A k \in Timer : pc[k] \in {"tick", "callback", "apply"} \cup SignalPc

(* A signaller holds a wrap while it cancels it, and no two hold the same.  *)
GotSays ==
  /\ \A x \in Caller : got[x] # NoTask <=> pc[x] = "cancel"
  /\ \A x \in Caller : got[x] \notin cancelable
  /\ \A x, y \in Caller : got[x] = got[y] => x = y \/ got[x] = NoTask

(* A task is in one place of one timer.                                     *)
TimerSays ==
  /\ \A k \in Timer : current[k] # NoTask <=> pc[k] \in {"apply"} \cup SignalPc
  /\ \A k \in Timer : pc[k] = "tick" => expired[k] = {}
  /\ \A k, l \in Timer : \A t \in armed[k] :
       t \notin expired[l] /\ t # current[l] /\ (t \in armed[l] => k = l)
  /\ \A k, l \in Timer : \A t \in expired[k] :
       t # current[l] /\ (t \in expired[l] => k = l)
  /\ \A k, l \in Timer : current[k] = current[l] => k = l \/ current[k] = NoTask

(* Only cancel takes a wrap away for good, and it disarms the task.         *)
ArmedSays == \A k \in Timer : \A t \in armed[k] : Wrapped(t)

(* A parked coroutine is in one queue or has one live task.                 *)
ParkSays ==
  /\ \A q \in Queue : \A c \in waitQ[q] : pc[c] = "parked"
  /\ \A q, r \in Queue : \A c \in waitQ[q] : c \in waitQ[r] => q = r
  /\ \A t \in Task : Live(t) =>
       /\ owner[t] \in Co
       /\ pc[owner[t]] = "parked"
       /\ \A q \in Queue : owner[t] \notin waitQ[q]
  /\ \A t, u \in Task : Live(t) /\ Live(u) /\ owner[t] = owner[u] => t = u
  /\ \A c \in Co : pc[c] = "parked" =>
       (\E q \in Queue : c \in waitQ[q]) \/ (\E t \in Task : Live(t) /\ owner[t] = c)

(* The inductive strengthening of OneWaker.                                 *)
PlaceInv == PcSays /\ GotSays /\ TimerSays /\ ArmedSays /\ ParkSays

(* m_value never holds both a count and a waiter.                           *)
OneNumber == count = 0 \/ waiters = 0

-----------------------------------------------------------------------------
(* The two outcomes of cancel, and what a timeout finds.                    *)

(* cancel(x) finds task t of coroutine c in timer k.                        *)
Cancels(x, k, t, c) ==
  /\ got[x] = t /\ t \in armed[k] /\ owner[t] = c /\ pc[c] = "parked"
  /\ armed' = [armed EXCEPT ![k] = @ \ {t}]
  /\ pc' = [pc EXCEPT ![x] = Return(x), ![c] = "run"]
  /\ balance' = balance - 1

(* cancel(x) comes too late.                                                *)
MissesTask(x) ==
  /\ \A k \in Timer : got[x] \notin armed[k]
  /\ pc' = [pc EXCEPT ![x] = Return(x)]
  /\ UNCHANGED <<armed, balance>>

(* A task that is cancelled is in one timer, and its coroutine is parked.   *)
LEMMA CancelCases ==
  ASSUME TypeOK, PlaceInv, NEW x \in Caller, cancel(x)
  PROVE  \/ \E k \in Timer, t \in Task, c \in Co : Cancels(x, k, t, c)
         \/ MissesTask(x)
<1>1. CASE \E k \in Timer : got[x] \in armed[k]
  <2>1. PICK k \in Timer : got[x] \in armed[k]
    BY <1>1
  <2>2. \A l \in Timer : got[x] \in armed[l] => l = k
    BY <2>1 DEF PlaceInv, TimerSays
  <2>3. got[x] \in Task /\ owner[got[x]] \in Co /\ pc[owner[got[x]]] = "parked"
    BY <2>1 DEF TypeOK, PlaceInv, ParkSays, Live
  <2>4. [l \in Timer |-> armed[l] \ {got[x]}] = [armed EXCEPT ![k] = @ \ {got[x]}]
    BY <2>1, <2>2 DEF TypeOK
  <2>5. Cancels(x, k, got[x], owner[got[x]])
    BY <2>1, <2>3, <2>4 DEF cancel, Cancels
  <2> QED BY <2>3, <2>5
<1>2. CASE \A k \in Timer : got[x] \notin armed[k]
  BY <1>2 DEF cancel, MissesTask
<1> QED BY <1>1, <1>2

(* wait_and_pop(x) takes a parked coroutine out of its queue.               *)
LEMMA PopCases ==
  ASSUME TypeOK, PlaceInv, NEW x \in Caller, wait_and_pop(x)
  PROVE  \E c \in Co : /\ c \in waitQ[slot[x]] /\ pc[c] = "parked" /\ pc[x] = "wait_and_pop"
                      /\ waitQ' = [waitQ EXCEPT ![slot[x]] = @ \ {c}]
                      /\ pc' = [pc EXCEPT ![x] = Return(x), ![c] = "run"]
<1>1. PICK c \in waitQ[slot[x]] : /\ waitQ' = [waitQ EXCEPT ![slot[x]] = @ \ {c}]
                                  /\ pc' = [pc EXCEPT ![x] = Return(x), ![c] = "run"]
  BY DEF wait_and_pop
<1>2. c \in Co /\ pc[c] = "parked" /\ pc[x] = "wait_and_pop"
  BY <1>1 DEF TypeOK, PlaceInv, ParkSays, wait_and_pop
<1> QED BY <1>1, <1>2

(* A task whose timeout runs belongs to a parked coroutine.                 *)
LEMMA TimeoutTask ==
  ASSUME TypeOK, PlaceInv, NEW k \in Timer, pc[k] = "apply"
  PROVE  /\ current[k] \in Task /\ Live(current[k])
         /\ owner[current[k]] \in Co /\ pc[owner[current[k]]] = "parked"
BY DEF TypeOK, PlaceInv, TimerSays, ParkSays, Live

-----------------------------------------------------------------------------
(* PlaceInv is inductive.                                                   *)

(* Where the threads are,                                                   *)
LEMMA PcStep ==
  ASSUME TypeOK, PlaceInv, [Next]_vars
  PROVE  PcSays'
<1> USE SemaphoreAssumption DEF Caller, PlaceInv
<1>1. ASSUME NEW c \in Co, TakePermit(c) PROVE PcSays'
  BY <1>1 DEF TakePermit, TypeOK, PcSays, TimerSays, valueVars, queueVars, timerVars,
      SignalPc
<1>2. ASSUME NEW c \in Co, NEW to \in {"interrupt", "register"}, AddWaiter(c, to) PROVE PcSays'
  BY <1>2 DEF AddWaiter, Goto, TypeOK, PcSays, TimerSays, valueVars, queueVars,
      timerVars, SignalPc
<1>3. ASSUME NEW c \in Co, take_slot(c) PROVE PcSays'
  BY <1>3 DEF take_slot, Goto, TypeOK, PcSays, TimerSays, valueVars, queueVars,
      timerVars, SignalPc
<1>4. ASSUME NEW c \in Co, push_wait_q(c) PROVE PcSays'
  BY <1>4 DEF push_wait_q, Goto, TypeOK, PcSays, TimerSays, valueVars, queueVars,
      timerVars, SignalPc
<1>5. ASSUME NEW c \in Co, NEW k \in Timer, NEW t \in Task, apply_task_until(c, k, t) PROVE PcSays'
  BY <1>5 DEF apply_task_until, Goto, Held, TypeOK, PcSays, TimerSays, valueVars,
      queueVars, timerVars, SignalPc
<1>6. ASSUME NEW c \in Co, signal(c) PROVE PcSays'
  BY <1>6 DEF signal, inc_count_fn, Return, TypeOK, PcSays, TimerSays, valueVars,
      queueVars, timerVars, SignalPc
<1>7. ASSUME NEW x \in Caller, pick_from_wait_q(x) PROVE PcSays'
  BY <1>7 DEF pick_from_wait_q, Goto, TypeOK, PcSays, TimerSays, valueVars, queueVars,
      timerVars, SignalPc
<1>8. ASSUME NEW x \in Caller, wait_and_pop(x) PROVE PcSays'
  BY <1>8 DEF wait_and_pop, Return, TypeOK, PcSays, TimerSays, valueVars, queueVars,
      timerVars, SignalPc
<1>9. ASSUME NEW x \in Caller, cancel(x) PROVE PcSays'
  <2>0. /\ pc[x] = "cancel" /\ got' = [got EXCEPT ![x] = NoTask]
        /\ UNCHANGED <<valueVars, queueVars, cancelable, owner, expired, current, slot>>
    BY <1>9 DEF cancel
  <2>1. CASE \E k \in Timer, t \in Task, c \in Co : Cancels(x, k, t, c)
    BY <2>0, <2>1 DEF Cancels, Return, TypeOK, PcSays, TimerSays, valueVars, queueVars,
        SignalPc
  <2>2. CASE MissesTask(x)
    BY <2>0, <2>2 DEF MissesTask, Return, TypeOK, PcSays, TimerSays, valueVars,
        queueVars, SignalPc
  <2> QED BY <1>9, <2>1, <2>2, CancelCases
<1>10. ASSUME NEW k \in Timer, NEW ts \in SUBSET armed[k], pick_all_expired(k, ts) PROVE PcSays'
  BY <1>10 DEF pick_all_expired, Goto, TypeOK, PcSays, TimerSays, valueVars, queueVars,
      timerVars, SignalPc
<1>11. ASSUME NEW k \in Timer, timer_callback_fn(k) PROVE PcSays'
  BY <1>11 DEF timer_callback_fn, inc_count_fn, Return, TypeOK, PcSays, TimerSays,
      valueVars, queueVars, timerVars, SignalPc
<1>12. ASSUME NEW k \in Timer, timeout_apply(k) PROVE PcSays'
  <2>1. /\ owner[current[k]] \in Co /\ pc[owner[current[k]]] = "parked" /\ pc[k] = "apply"
    BY <1>12, TimeoutTask DEF timeout_apply
  <2> QED BY <1>12, <2>1 DEF timeout_apply, TypeOK, PcSays, TimerSays, valueVars,
      queueVars, SignalPc
<1>13. CASE UNCHANGED vars
  BY <1>13 DEF vars, PcSays, TimerSays, valueVars, queueVars, timerVars
<1> QED BY <1>1, <1>2, <1>3, <1>4, <1>5, <1>6, <1>7, <1>8, <1>9, <1>10, <1>11, <1>12, <1>13
  DEF Next, UserStep, WaitStep, SignalStep, TickStep, wait, wait_for, try_wait

(* who holds which wrap,                                                    *)
LEMMA GotStep ==
  ASSUME TypeOK, PlaceInv, [Next]_vars
  PROVE  GotSays'
<1> USE SemaphoreAssumption DEF Caller, PlaceInv
<1>1. ASSUME NEW c \in Co, TakePermit(c) PROVE GotSays'
  BY <1>1 DEF TakePermit, TypeOK, PcSays, GotSays, valueVars, queueVars, timerVars, SignalPc
<1>2. ASSUME NEW c \in Co, NEW to \in {"interrupt", "register"}, AddWaiter(c, to) PROVE GotSays'
  BY <1>2 DEF AddWaiter, Goto, TypeOK, PcSays, GotSays, valueVars, queueVars, timerVars,
      SignalPc
<1>3. ASSUME NEW c \in Co, take_slot(c) PROVE GotSays'
  BY <1>3 DEF take_slot, Goto, TypeOK, PcSays, GotSays, valueVars, queueVars, timerVars,
      SignalPc
<1>4. ASSUME NEW c \in Co, push_wait_q(c) PROVE GotSays'
  BY <1>4 DEF push_wait_q, Goto, TypeOK, PcSays, GotSays, valueVars, queueVars,
      timerVars, SignalPc
<1>5. ASSUME NEW c \in Co, NEW k \in Timer, NEW t \in Task, apply_task_until(c, k, t) PROVE GotSays'
  BY <1>5 DEF apply_task_until, Goto, Held, TypeOK, PcSays, GotSays, valueVars,
      queueVars, timerVars, SignalPc
<1>6. ASSUME NEW c \in Co, signal(c) PROVE GotSays'
  BY <1>6 DEF signal, inc_count_fn, Return, TypeOK, PcSays, GotSays, valueVars,
      queueVars, timerVars, SignalPc
<1>7. ASSUME NEW x \in Caller, pick_from_wait_q(x) PROVE GotSays'
  BY <1>7 DEF pick_from_wait_q, Goto, TypeOK, PcSays, GotSays, valueVars, queueVars,
      timerVars, SignalPc
<1>8. ASSUME NEW x \in Caller, wait_and_pop(x) PROVE GotSays'
  <2>1. PICK c \in Co : /\ c \in waitQ[slot[x]] /\ pc[c] = "parked" /\ pc[x] = "wait_and_pop"
                       /\ waitQ' = [waitQ EXCEPT ![slot[x]] = @ \ {c}]
                       /\ pc' = [pc EXCEPT ![x] = Return(x), ![c] = "run"]
    BY <1>8, PopCases
  <2>2. UNCHANGED <<got, cancelable>> /\ Return(x) # "cancel"
    BY <1>8 DEF wait_and_pop, timerVars, Return
  <2>3. \A y \in Caller : pc'[y] = "cancel" <=> pc[y] = "cancel"
    BY <2>1, <2>2 DEF TypeOK
  <2> QED BY <2>2, <2>3 DEF GotSays
<1>9. ASSUME NEW x \in Caller, cancel(x) PROVE GotSays'
  <2>0. /\ pc[x] = "cancel" /\ got' = [got EXCEPT ![x] = NoTask]
        /\ UNCHANGED <<valueVars, queueVars, cancelable, owner, expired, current, slot>>
    BY <1>9 DEF cancel
  <2>1. CASE \E k \in Timer, t \in Task, c \in Co : Cancels(x, k, t, c)
    BY <2>0, <2>1 DEF Cancels, Return, TypeOK, PcSays, GotSays, valueVars, queueVars,
        SignalPc
  <2>2. CASE MissesTask(x)
    BY <2>0, <2>2 DEF MissesTask, Return, TypeOK, PcSays, GotSays, valueVars, queueVars,
        SignalPc
  <2> QED BY <1>9, <2>1, <2>2, CancelCases
<1>10. ASSUME NEW k \in Timer, NEW ts \in SUBSET armed[k], pick_all_expired(k, ts) PROVE GotSays'
  BY <1>10 DEF pick_all_expired, Goto, TypeOK, PcSays, GotSays, valueVars, queueVars,
      timerVars, SignalPc
<1>11. ASSUME NEW k \in Timer, timer_callback_fn(k) PROVE GotSays'
  BY <1>11 DEF timer_callback_fn, inc_count_fn, Return, TypeOK, PcSays, GotSays,
      valueVars, queueVars, timerVars, SignalPc
<1>12. ASSUME NEW k \in Timer, timeout_apply(k) PROVE GotSays'
  <2>1. /\ owner[current[k]] \in Co /\ pc[owner[current[k]]] = "parked" /\ pc[k] = "apply"
    BY <1>12, TimeoutTask DEF timeout_apply
  <2> QED BY <1>12, <2>1 DEF timeout_apply, TypeOK, PcSays, GotSays, valueVars,
      queueVars, SignalPc
<1>13. CASE UNCHANGED vars
  BY <1>13 DEF vars, PcSays, GotSays, valueVars, queueVars, timerVars
<1> QED BY <1>1, <1>2, <1>3, <1>4, <1>5, <1>6, <1>7, <1>8, <1>9, <1>10, <1>11, <1>12, <1>13
  DEF Next, UserStep, WaitStep, SignalStep, TickStep, wait, wait_for, try_wait

(* where the tasks are,                                                     *)
LEMMA TimerStep ==
  ASSUME TypeOK, PlaceInv, [Next]_vars
  PROVE  TimerSays'
<1> USE SemaphoreAssumption DEF Caller, PlaceInv
<1>1. ASSUME NEW c \in Co, TakePermit(c) PROVE TimerSays'
  BY <1>1 DEF TakePermit, TypeOK, PcSays, TimerSays, valueVars, queueVars, timerVars,
      SignalPc
<1>2. ASSUME NEW c \in Co, NEW to \in {"interrupt", "register"}, AddWaiter(c, to) PROVE TimerSays'
  BY <1>2 DEF AddWaiter, Goto, TypeOK, PcSays, TimerSays, valueVars, queueVars,
      timerVars, SignalPc
<1>3. ASSUME NEW c \in Co, take_slot(c) PROVE TimerSays'
  BY <1>3 DEF take_slot, Goto, TypeOK, PcSays, TimerSays, valueVars, queueVars,
      timerVars, SignalPc
<1>4. ASSUME NEW c \in Co, push_wait_q(c) PROVE TimerSays'
  BY <1>4 DEF push_wait_q, Goto, TypeOK, PcSays, TimerSays, valueVars, queueVars,
      timerVars, SignalPc
<1>5. ASSUME NEW c \in Co, NEW k \in Timer, NEW t \in Task, apply_task_until(c, k, t) PROVE TimerSays'
  BY <1>5 DEF apply_task_until, Goto, Held, TypeOK, PcSays, TimerSays, valueVars,
      queueVars, timerVars, SignalPc
<1>6. ASSUME NEW c \in Co, signal(c) PROVE TimerSays'
  BY <1>6 DEF signal, inc_count_fn, Return, TypeOK, PcSays, TimerSays, valueVars,
      queueVars, timerVars, SignalPc
<1>7. ASSUME NEW x \in Caller, pick_from_wait_q(x) PROVE TimerSays'
  BY <1>7 DEF pick_from_wait_q, Goto, TypeOK, PcSays, TimerSays, valueVars, queueVars,
      timerVars, SignalPc
<1>8. ASSUME NEW x \in Caller, wait_and_pop(x) PROVE TimerSays'
  BY <1>8 DEF wait_and_pop, Return, TypeOK, PcSays, TimerSays, valueVars, queueVars,
      timerVars, SignalPc
<1>9. ASSUME NEW x \in Caller, cancel(x) PROVE TimerSays'
  <2>0. /\ pc[x] = "cancel" /\ got' = [got EXCEPT ![x] = NoTask]
        /\ UNCHANGED <<valueVars, queueVars, cancelable, owner, expired, current, slot>>
    BY <1>9 DEF cancel
  <2>1. CASE \E k \in Timer, t \in Task, c \in Co : Cancels(x, k, t, c)
    BY <2>0, <2>1, SMTT(30) DEF Cancels, Return, TypeOK, PcSays, TimerSays, valueVars,
        queueVars, SignalPc
  <2>2. CASE MissesTask(x)
    BY <2>0, <2>2 DEF MissesTask, Return, TypeOK, PcSays, TimerSays, valueVars,
        queueVars, SignalPc
  <2> QED BY <1>9, <2>1, <2>2, CancelCases
<1>10. ASSUME NEW k \in Timer, NEW ts \in SUBSET armed[k], pick_all_expired(k, ts) PROVE TimerSays'
  BY <1>10 DEF pick_all_expired, Goto, TypeOK, PcSays, TimerSays, valueVars, queueVars,
      timerVars, SignalPc
<1>11. ASSUME NEW k \in Timer, timer_callback_fn(k) PROVE TimerSays'
  BY <1>11 DEF timer_callback_fn, inc_count_fn, Return, TypeOK, PcSays, TimerSays,
      valueVars, queueVars, timerVars, SignalPc
<1>12. ASSUME NEW k \in Timer, timeout_apply(k) PROVE TimerSays'
  <2>1. /\ owner[current[k]] \in Co /\ pc[owner[current[k]]] = "parked" /\ pc[k] = "apply"
    BY <1>12, TimeoutTask DEF timeout_apply
  <2> QED BY <1>12, <2>1 DEF timeout_apply, TypeOK, PcSays, TimerSays, valueVars,
      queueVars, SignalPc
<1>13. CASE UNCHANGED vars
  BY <1>13 DEF vars, PcSays, TimerSays, valueVars, queueVars, timerVars
<1> QED BY <1>1, <1>2, <1>3, <1>4, <1>5, <1>6, <1>7, <1>8, <1>9, <1>10, <1>11, <1>12, <1>13
  DEF Next, UserStep, WaitStep, SignalStep, TickStep, wait, wait_for, try_wait

(* that an armed task still has its wrap,                                   *)
LEMMA ArmedStep ==
  ASSUME TypeOK, PlaceInv, [Next]_vars
  PROVE  ArmedSays'
<1> USE SemaphoreAssumption DEF Caller, PlaceInv
<1>1. ASSUME NEW c \in Co, TakePermit(c) PROVE ArmedSays'
  BY <1>1 DEF TakePermit, TypeOK, PcSays, ArmedSays, Wrapped, GotSays, valueVars,
      queueVars, timerVars, SignalPc
<1>2. ASSUME NEW c \in Co, NEW to \in {"interrupt", "register"}, AddWaiter(c, to) PROVE ArmedSays'
  BY <1>2 DEF AddWaiter, Goto, TypeOK, PcSays, ArmedSays, Wrapped, GotSays, valueVars,
      queueVars, timerVars, SignalPc
<1>3. ASSUME NEW c \in Co, take_slot(c) PROVE ArmedSays'
  BY <1>3 DEF take_slot, Goto, TypeOK, PcSays, ArmedSays, Wrapped, GotSays, valueVars,
      queueVars, timerVars, SignalPc
<1>4. ASSUME NEW c \in Co, push_wait_q(c) PROVE ArmedSays'
  BY <1>4 DEF push_wait_q, Goto, TypeOK, PcSays, ArmedSays, Wrapped, GotSays, valueVars,
      queueVars, timerVars, SignalPc
<1>5. ASSUME NEW c \in Co, NEW k \in Timer, NEW t \in Task, apply_task_until(c, k, t) PROVE ArmedSays'
  BY <1>5 DEF apply_task_until, Goto, Held, TypeOK, PcSays, ArmedSays, Wrapped, GotSays,
      valueVars, queueVars, timerVars, SignalPc
<1>6. ASSUME NEW c \in Co, signal(c) PROVE ArmedSays'
  BY <1>6 DEF signal, inc_count_fn, Return, TypeOK, PcSays, ArmedSays, Wrapped, GotSays,
      valueVars, queueVars, timerVars, SignalPc
<1>7. ASSUME NEW x \in Caller, pick_from_wait_q(x) PROVE ArmedSays'
  BY <1>7 DEF pick_from_wait_q, Goto, TypeOK, PcSays, ArmedSays, Wrapped, GotSays,
      valueVars, queueVars, timerVars, SignalPc
<1>8. ASSUME NEW x \in Caller, wait_and_pop(x) PROVE ArmedSays'
  BY <1>8 DEF wait_and_pop, Return, TypeOK, PcSays, ArmedSays, Wrapped, GotSays,
      valueVars, queueVars, timerVars, SignalPc
<1>9. ASSUME NEW x \in Caller, cancel(x) PROVE ArmedSays'
  BY <1>9 DEF cancel, Return, TypeOK, PcSays, ArmedSays, Wrapped, GotSays, valueVars,
      queueVars, timerVars, SignalPc
<1>10. ASSUME NEW k \in Timer, NEW ts \in SUBSET armed[k], pick_all_expired(k, ts) PROVE ArmedSays'
  BY <1>10 DEF pick_all_expired, Goto, TypeOK, PcSays, ArmedSays, Wrapped, GotSays,
      valueVars, queueVars, timerVars, SignalPc
<1>11. ASSUME NEW k \in Timer, timer_callback_fn(k) PROVE ArmedSays'
  BY <1>11 DEF timer_callback_fn, inc_count_fn, Return, TypeOK, PcSays, ArmedSays,
      Wrapped, GotSays, valueVars, queueVars, timerVars, SignalPc
<1>12. ASSUME NEW k \in Timer, timeout_apply(k) PROVE ArmedSays'
  BY <1>12 DEF timeout_apply, TypeOK, PcSays, ArmedSays, Wrapped, GotSays, valueVars,
      queueVars, timerVars, SignalPc
<1>13. CASE UNCHANGED vars
  BY <1>13 DEF vars, PcSays, ArmedSays, Wrapped, GotSays, valueVars, queueVars, timerVars
<1> QED BY <1>1, <1>2, <1>3, <1>4, <1>5, <1>6, <1>7, <1>8, <1>9, <1>10, <1>11, <1>12, <1>13
  DEF Next, UserStep, WaitStep, SignalStep, TickStep, wait, wait_for, try_wait

(* and where each parked coroutine is woken from.                           *)
LEMMA ParkStep ==
  ASSUME TypeOK, PlaceInv, [Next]_vars
  PROVE  ParkSays'
<1> USE SemaphoreAssumption DEF Caller, PlaceInv
<1>1. ASSUME NEW c \in Co, TakePermit(c) PROVE ParkSays'
  BY <1>1 DEF TakePermit, TypeOK, PcSays, ParkSays, Live, valueVars, queueVars,
      timerVars, SignalPc
<1>2. ASSUME NEW c \in Co, NEW to \in {"interrupt", "register"}, AddWaiter(c, to) PROVE ParkSays'
  BY <1>2 DEF AddWaiter, Goto, TypeOK, PcSays, ParkSays, Live, valueVars, queueVars,
      timerVars, SignalPc
<1>3. ASSUME NEW c \in Co, take_slot(c) PROVE ParkSays'
  BY <1>3 DEF take_slot, Goto, TypeOK, PcSays, ParkSays, Live, valueVars, queueVars,
      timerVars, SignalPc
<1>4. ASSUME NEW c \in Co, push_wait_q(c) PROVE ParkSays'
  BY <1>4 DEF push_wait_q, Goto, TypeOK, PcSays, ParkSays, Live, valueVars, queueVars,
      timerVars, SignalPc
<1>5. ASSUME NEW c \in Co, NEW k \in Timer, NEW t \in Task, apply_task_until(c, k, t) PROVE ParkSays'
  <2>1. \A u \in Task : Live(u)' <=> Live(u) \/ u = t
    BY <1>5 DEF apply_task_until, TypeOK, Live
  <2>2. ~Live(t)
    BY <1>5 DEF apply_task_until, Held, Live
  <2> QED BY <1>5, <2>1, <2>2 DEF apply_task_until, Goto, TypeOK, PcSays, ParkSays,
      valueVars, queueVars, timerVars
<1>6. ASSUME NEW c \in Co, signal(c) PROVE ParkSays'
  BY <1>6 DEF signal, inc_count_fn, Return, TypeOK, PcSays, ParkSays, Live, valueVars,
      queueVars, timerVars, SignalPc
<1>7. ASSUME NEW x \in Caller, pick_from_wait_q(x) PROVE ParkSays'
  BY <1>7 DEF pick_from_wait_q, Goto, TypeOK, PcSays, ParkSays, Live, valueVars,
      queueVars, timerVars, SignalPc
<1>8. ASSUME NEW x \in Caller, wait_and_pop(x) PROVE ParkSays'
  <2>1. PICK c \in Co : /\ c \in waitQ[slot[x]] /\ pc[c] = "parked" /\ pc[x] = "wait_and_pop"
                       /\ waitQ' = [waitQ EXCEPT ![slot[x]] = @ \ {c}]
                       /\ pc' = [pc EXCEPT ![x] = Return(x), ![c] = "run"]
    BY <1>8, PopCases
  <2>2. \A t \in Task : (Live(t)' <=> Live(t)) /\ owner'[t] = owner[t]
    BY <1>8 DEF wait_and_pop, Live, timerVars
  <2>3. slot[x] \in Queue /\ Return(x) # "parked"
    BY DEF TypeOK, Return
  <2>4. \A q \in Queue : waitQ'[q] = waitQ[q] \ {c}
    BY <2>1, <2>3 DEF TypeOK, ParkSays
  <2>5. \A d \in Co : pc'[d] = "parked" <=> pc[d] = "parked" /\ d # c
    BY <2>1, <2>3 DEF TypeOK
  <2>6. \A t \in Task : Live(t) => owner[t] # c
    BY <2>1, <2>3 DEF ParkSays
  <2>7. \A q \in Queue : waitQ[q] \subseteq Co
    BY DEF TypeOK
  <2> QED BY <2>2, <2>4, <2>5, <2>6, <2>7 DEF ParkSays
<1>9. ASSUME NEW x \in Caller, cancel(x) PROVE ParkSays'
  <2>0. /\ pc[x] = "cancel" /\ UNCHANGED <<queueVars, owner, expired, current>>
    BY <1>9 DEF cancel
  <2>1. ASSUME NEW k \in Timer, NEW t \in Task, NEW c \in Co, Cancels(x, k, t, c) PROVE ParkSays'
    <3>1. \A u \in Task : Live(u)' <=> Live(u) /\ u # t
      BY <2>0, <2>1 DEF Cancels, TypeOK, TimerSays, Live
    <3>2. Live(t)
      BY <2>1 DEF Cancels, Live
    <3> QED BY <2>0, <2>1, <3>1, <3>2 DEF Cancels, Return, TypeOK, PcSays, ParkSays,
        queueVars
  <2>2. CASE MissesTask(x)
    <3>1. \A u \in Task : Live(u)' <=> Live(u)
      BY <2>0, <2>2 DEF MissesTask, Live
    <3> QED BY <2>0, <2>2, <3>1 DEF MissesTask, Return, TypeOK, PcSays, ParkSays, queueVars
  <2> QED BY <1>9, <2>1, <2>2, CancelCases
<1>10. ASSUME NEW k \in Timer, NEW ts \in SUBSET armed[k], pick_all_expired(k, ts) PROVE ParkSays'
  <2>1. \A u \in Task : Live(u)' <=> Live(u)
    BY <1>10 DEF pick_all_expired, Goto, TypeOK, TimerSays, Live
  <2> QED BY <1>10, <2>1 DEF pick_all_expired, Goto, TypeOK, PcSays, ParkSays,
      valueVars, queueVars, timerVars
<1>11. ASSUME NEW k \in Timer, timer_callback_fn(k) PROVE ParkSays'
  <2>1. \A u \in Task : Live(u)' <=> Live(u)
    BY <1>11 DEF timer_callback_fn, TypeOK, TimerSays, Live, SignalPc
  <2> QED BY <1>11, <2>1 DEF timer_callback_fn, inc_count_fn, Return, TypeOK, PcSays,
      ParkSays, valueVars, queueVars, timerVars
<1>12. ASSUME NEW k \in Timer, timeout_apply(k) PROVE ParkSays'
  <2>1. \A u \in Task : Live(u)' <=> Live(u) /\ u # current[k]
    BY <1>12 DEF timeout_apply, TypeOK, TimerSays, Live
  <2>2. /\ current[k] \in Task /\ Live(current[k]) /\ pc[k] = "apply"
        /\ owner[current[k]] \in Co /\ pc[owner[current[k]]] = "parked"
    BY <1>12, TimeoutTask DEF timeout_apply
  <2> QED BY <1>12, <2>1, <2>2 DEF timeout_apply, TypeOK, PcSays, ParkSays, valueVars,
      queueVars, timerVars
<1>13. CASE UNCHANGED vars
  BY <1>13 DEF vars, PcSays, ParkSays, Live, valueVars, queueVars, timerVars
<1> QED BY <1>1, <1>2, <1>3, <1>4, <1>5, <1>6, <1>7, <1>8, <1>9, <1>10, <1>11, <1>12, <1>13
  DEF Next, UserStep, WaitStep, SignalStep, TickStep, wait, wait_for, try_wait

(* A step of one number of m_value keeps the types.                         *)
LEMMA ValueTypes ==
  ASSUME TypeOK, NEW x \in Caller, inc_count_fn(x)
  PROVE  count' \in Nat /\ waiters' \in Nat /\ pc' \in [Caller -> Pc]
<1>1. "pick" \in Pc /\ Return(x) \in Pc
  BY DEF Pc, Return
<1> QED BY <1>1 DEF inc_count_fn, TypeOK

(* The queue after the last is the first.                                   *)
LEMMA NextQueueType == ASSUME NEW q \in Queue PROVE NextQueue(q) \in Queue
BY SemaphoreAssumption DEF NextQueue, Queue

(* Every step keeps the types.                                              *)
LEMMA TypeStep ==
  ASSUME TypeOK, PlaceInv, [Next]_vars
  PROVE  TypeOK'
<1> USE SemaphoreAssumption DEF Pc, Caller
<1>1. ASSUME NEW c \in Co, TakePermit(c) PROVE TypeOK'
  BY <1>1 DEF TakePermit, TypeOK, queueVars, timerVars
<1>2. ASSUME NEW c \in Co, NEW to \in {"interrupt", "register"}, AddWaiter(c, to) PROVE TypeOK'
  BY <1>2 DEF AddWaiter, Goto, TypeOK, queueVars, timerVars
<1>3. ASSUME NEW c \in Co, take_slot(c) PROVE TypeOK'
  BY <1>3, NextQueueType DEF take_slot, Goto, TypeOK, valueVars, timerVars
<1>4. ASSUME NEW c \in Co, push_wait_q(c) PROVE TypeOK'
  BY <1>4 DEF push_wait_q, Goto, TypeOK, valueVars, timerVars
<1>5. ASSUME NEW c \in Co, NEW k \in Timer, NEW t \in Task, apply_task_until(c, k, t) PROVE TypeOK'
  BY <1>5 DEF apply_task_until, Goto, TypeOK, valueVars, queueVars
<1>6. ASSUME NEW c \in Co, signal(c) PROVE TypeOK'
  BY <1>6, ValueTypes DEF signal, TypeOK, queueVars, timerVars
<1>7. ASSUME NEW x \in Caller, pick_from_wait_q(x) PROVE TypeOK'
  BY <1>7, NextQueueType DEF pick_from_wait_q, Goto, TypeOK, valueVars, queueVars, timerVars
<1>8. ASSUME NEW x \in Caller, wait_and_pop(x) PROVE TypeOK'
  <2>1. PICK c \in Co : pc' = [pc EXCEPT ![x] = Return(x), ![c] = "run"]
    BY <1>8 DEF wait_and_pop, TypeOK
  <2>2. pc' \in [Caller -> Pc] /\ waitQ' \in [Queue -> SUBSET Co]
    BY <1>8, <2>1 DEF Return, wait_and_pop, TypeOK
  <2> QED BY <1>8, <2>2 DEF wait_and_pop, TypeOK, valueVars, timerVars
<1>9. ASSUME NEW x \in Caller, cancel(x) PROVE TypeOK'
  <2>0. /\ got' = [got EXCEPT ![x] = NoTask]
        /\ UNCHANGED <<valueVars, queueVars, cancelable, owner, expired, current, slot>>
    BY <1>9 DEF cancel
  <2>1. CASE \E k \in Timer, t \in Task, c \in Co : Cancels(x, k, t, c)
    <3>1. PICK k \in Timer, t \in Task, c \in Co : Cancels(x, k, t, c)
      BY <2>1
    <3>2. pc' \in [Caller -> Pc] /\ armed' \in [Timer -> SUBSET Task]
      BY <3>1 DEF Cancels, Return, TypeOK
    <3> QED BY <2>0, <3>1, <3>2 DEF Cancels, TypeOK, valueVars, queueVars
  <2>2. CASE MissesTask(x)
    BY <2>0, <2>2 DEF MissesTask, Return, TypeOK, valueVars, queueVars
  <2> QED BY <1>9, <2>1, <2>2, CancelCases
<1>10. ASSUME NEW k \in Timer, NEW ts \in SUBSET armed[k], pick_all_expired(k, ts) PROVE TypeOK'
  BY <1>10 DEF pick_all_expired, Goto, TypeOK, valueVars, queueVars
<1>11. ASSUME NEW k \in Timer, timer_callback_fn(k) PROVE TypeOK'
  BY <1>11, ValueTypes DEF timer_callback_fn, TypeOK, queueVars
<1>12. ASSUME NEW k \in Timer, timeout_apply(k) PROVE TypeOK'
  BY <1>12 DEF timeout_apply, TypeOK, valueVars, queueVars
<1>13. CASE UNCHANGED vars
  BY <1>13 DEF vars, TypeOK, valueVars, queueVars, timerVars
<1> QED BY <1>1, <1>2, <1>3, <1>4, <1>5, <1>6, <1>7, <1>8, <1>9, <1>10, <1>11, <1>12, <1>13
  DEF Next, UserStep, WaitStep, SignalStep, TickStep, wait, wait_for, try_wait

(* Types and places hold initially and in every step.                       *)
LEMMA InitPlaces == Init => TypeOK /\ PlaceInv
BY SemaphoreAssumption DEF Init, TypeOK, Caller, Queue, Pc, PlaceInv, PcSays, GotSays,
    TimerSays,
   ArmedSays, ParkSays, Live, SignalPc

(* The same of a step.                                                      *)
LEMMA NextPlaces == TypeOK /\ PlaceInv /\ [Next]_vars => TypeOK' /\ PlaceInv'
BY TypeStep, PcStep, GotStep, TimerStep, ArmedStep, ParkStep DEF PlaceInv

(* m_value, the queues, the wraps and the timers keep their types: count and*)
(* waiters never run below zero, and whoever cancels holds a task.          *)
THEOREM SemaphoreTypes == Spec => []TypeOK
<1> QED BY InitPlaces, NextPlaces, PTL DEF Spec

-----------------------------------------------------------------------------
(* What PlaceInv says of the parked coroutines is OneWaker.                 *)
LEMMA PlacesWakeOnce == ASSUME TypeOK, PlaceInv PROVE OneWaker
<1> SUFFICES ASSUME NEW c \in Co
             PROVE  Cardinality(Wakers(c)) + Cardinality(TimerWakers(c))
                      = (IF pc[c] = "parked" THEN 1 ELSE 0)
  BY DEF OneWaker
<1>1. \A t \in Task : t \in TimerWakers(c) <=> Live(t) /\ owner[t] = c
  BY SemaphoreAssumption DEF TimerWakers, InTimer, TimedOut, Live
<1>2. \A q : q \in Wakers(c) <=> q \in Queue /\ c \in waitQ[q]
  BY DEF Wakers
<1>3. TimerWakers(c) \subseteq Task
  BY DEF TimerWakers
<1>4. CASE \E q \in Queue : c \in waitQ[q]
  <2>1. PICK q \in Queue : Wakers(c) = {q}
    BY <1>2, <1>4 DEF PlaceInv, ParkSays
  <2>2. TimerWakers(c) = {} /\ pc[c] = "parked"
    BY <1>1, <1>3, <1>4 DEF PlaceInv, ParkSays
  <2> QED BY <2>1, <2>2, FS_EmptySet, FS_Singleton
<1>5. CASE \E t \in Task : Live(t) /\ owner[t] = c
  <2>1. PICK t \in Task : TimerWakers(c) = {t}
    BY <1>1, <1>3, <1>5 DEF PlaceInv, ParkSays
  <2>2. Wakers(c) = {} /\ pc[c] = "parked"
    BY <1>2, <1>5 DEF PlaceInv, ParkSays
  <2> QED BY <2>1, <2>2, FS_EmptySet, FS_Singleton
<1>6. CASE pc[c] # "parked"
  <2>1. Wakers(c) = {} /\ TimerWakers(c) = {}
    BY <1>1, <1>2, <1>3, <1>6 DEF PlaceInv, ParkSays
  <2> QED BY <1>6, <2>1, FS_EmptySet
<1> QED BY <1>4, <1>5, <1>6 DEF PlaceInv, ParkSays

(* A parked coroutine is woken from exactly one place, and nobody else is   *)
(* woken: a signal's cancel and an expiry never both wake it, never neither.*)
THEOREM ParkedHaveOneWaker == Spec => []OneWaker
<1>1. TypeOK /\ PlaceInv => OneWaker
  BY PlacesWakeOnce
<1> QED BY InitPlaces, NextPlaces, <1>1, PTL DEF Spec

-----------------------------------------------------------------------------
(* The sets the accounts count, element by element.                         *)
LEMMA Added ==
  ASSUME NEW S, NEW T, NEW x, IsFiniteSet(S), x \notin S, \A y : y \in T <=> y \in S \/ y = x
  PROVE  Cardinality(T) = Cardinality(S) + 1
<1>1. T = S \cup {x}
  OBVIOUS
<1> QED BY <1>1, FS_AddElement

(* One element less.                                                        *)
LEMMA Removed ==
  ASSUME NEW S, NEW T, NEW x, IsFiniteSet(S), x \in S, \A y : y \in T <=> y \in S /\ y # x
  PROVE  Cardinality(T) = Cardinality(S) - 1
<1>1. T = S \ {x}
  OBVIOUS
<1> QED BY <1>1, FS_RemoveElement

CountedSays ==
  /\ \A x : x \in InFlight <=> x \in Caller /\ pc[x] \in SignalPc
  /\ \A c : c \in Waiting <=> /\ c \in Co /\ pc[c] \in WaitPc
                             /\ \A k \in Timer : current[k] = NoTask \/ owner[current[k]] # c
  /\ \A t : t \in Stale <=> /\ t \in Task /\ Wrapped(t)
                           /\ \A k \in Timer : t \notin armed[k] /\ t \notin expired[k]
  /\ \A t : t \in Swallowed <=> (\E k \in Timer : t \in expired[k]) /\ ~Wrapped(t)

CountsFinite ==
  /\ IsFiniteSet(InFlight) /\ Cardinality(InFlight) \in Nat
  /\ IsFiniteSet(Waiting) /\ Cardinality(Waiting) \in Nat
  /\ IsFiniteSet(Stale) /\ Cardinality(Stale) \in Nat
  /\ IsFiniteSet(Swallowed) /\ Cardinality(Swallowed) \in Nat

(* Who is in the sets that WaitersMatch and Conservation count.             *)
LEMMA Counted == TypeOK => CountedSays
<1> SUFFICES ASSUME TypeOK PROVE CountedSays
  OBVIOUS
<1>1. \A x : x \in InFlight <=> x \in Caller /\ pc[x] \in SignalPc
  BY DEF InFlight, SignalPc
<1>2. \A t : t \in TimedOut <=> t # NoTask /\ \E k \in Timer : current[k] = t
  BY DEF TimedOut
<1>3. \A c : c \in Waiting <=> /\ c \in Co /\ pc[c] \in WaitPc
                             /\ ~ \E t \in TimedOut : owner[t] = c
  BY DEF Waiting, WaitPc
<1>4. \A t : t \in Stale <=> /\ t \in Task /\ Wrapped(t)
                           /\ \A k \in Timer : t \notin armed[k] /\ t \notin expired[k]
  BY SemaphoreAssumption DEF Stale, Wrapped, InTimer, TypeOK
<1> DEFINE U == UNION {expired[k] : k \in Timer}
<1>5. \A t : t \in U <=> \E k \in Timer : t \in expired[k]
  OBVIOUS
<1>6. Swallowed = {t \in U : t \notin cancelable /\ \A x \in Caller : got[x] # t}
  BY DEF Swallowed
<1> HIDE DEF U
<1>7. \A t : t \in Swallowed <=> (\E k \in Timer : t \in expired[k]) /\ ~Wrapped(t)
  BY <1>5, <1>6 DEF Wrapped
<1> QED BY <1>1, <1>2, <1>3, <1>4, <1>7 DEF CountedSays

(* These sets are finite.                                                   *)
LEMMA CountedFinite == TypeOK => CountsFinite
<1> SUFFICES ASSUME TypeOK PROVE CountsFinite
  OBVIOUS
<1>1. IsFiniteSet(Caller)
  BY SemaphoreAssumption, FS_Union DEF Caller
<1>2. InFlight \subseteq Caller /\ Waiting \subseteq Co /\ Stale \subseteq Task /\ Swallowed \subseteq Task
  BY Counted DEF CountedSays, TypeOK
<1> QED BY <1>1, <1>2, SemaphoreAssumption, FS_Subset, FS_CardinalityType DEF CountsFinite

(* Both of the next state.                                                  *)
LEMMA CountedNext == TypeOK' => CountedSays' /\ CountsFinite'
BY Counted, CountedFinite, PTL

(* The same elements.                                                       *)
LEMMA Same ==
  ASSUME NEW S, NEW T, \A y : y \in T <=> y \in S
  PROVE  Cardinality(T) = Cardinality(S) 
<1>1. T = S
  OBVIOUS
<1> QED BY <1>1

(* The accounts after a step, from what it changes.                         *)
LEMMA Balanced ==
  ASSUME TypeOK, TypeOK', WaitersMatch, Conservation,
         waiters' = waiters + ((Cardinality(Waiting)' - Cardinality(Waiting))
                               + (Cardinality(Stale)' - Cardinality(Stale))
                               - (Cardinality(Swallowed)' - Cardinality(Swallowed))
                               - (Cardinality(InFlight)' - Cardinality(InFlight))),
         balance' = balance + ((count' - count)
                               + (Cardinality(InFlight)' - Cardinality(InFlight))
                               + (Cardinality(Swallowed)' - Cardinality(Swallowed))
                               - (Cardinality(Stale)' - Cardinality(Stale)))
  PROVE  WaitersMatch' /\ Conservation'
<1>1. waiters \in Nat /\ count \in Nat /\ balance \in Int
  BY DEF TypeOK
<1>2. /\ Cardinality(InFlight) \in Nat /\ Cardinality(Waiting) \in Nat
      /\ Cardinality(Stale) \in Nat /\ Cardinality(Swallowed) \in Nat
  BY CountedFinite DEF CountsFinite
<1>3. PICK n \in Nat, i \in Nat, w \in Nat, s \in Nat, e \in Nat :
        /\ n = count' /\ i = Cardinality(InFlight)' /\ w = Cardinality(Waiting)'
        /\ s = Cardinality(Stale)' /\ e = Cardinality(Swallowed)'
  BY CountedNext DEF CountsFinite, TypeOK
<1>4. waiters + Cardinality(InFlight)
        = Cardinality(Waiting) + Cardinality(Stale) - Cardinality(Swallowed)
  BY DEF WaitersMatch
<1>5. balance = count + Cardinality(InFlight) + Cardinality(Swallowed) - Cardinality(Stale)
  BY DEF Conservation
<1>6. waiters' + i = w + s - e
  BY <1>1, <1>2, <1>3, <1>4
<1>7. balance' = n + i + e - s
  BY <1>1, <1>2, <1>3, <1>5
<1> QED BY <1>3, <1>6, <1>7 DEF WaitersMatch, Conservation

(* A step that counts nobody in or out.                                     *)
LEMMA Level ==
  ASSUME CountsFinite, WaitersMatch, Conservation, count \in Nat, count' \in Nat, balance \in Int,
         \A y : y \in InFlight' <=> y \in InFlight, \A y : y \in Waiting' <=> y \in Waiting,
         \A y : y \in Stale' <=> y \in Stale, \A y : y \in Swallowed' <=> y \in Swallowed,
         waiters' = waiters, balance' = balance + (count' - count)
  PROVE  WaitersMatch' /\ Conservation'
<1>1. InFlight' = InFlight /\ Waiting' = Waiting /\ Stale' = Stale /\ Swallowed' = Swallowed
  BY Same
<1>2. PICK n \in Nat : n = count'
  OBVIOUS
<1>3. WaitersMatch'
  BY <1>1 DEF WaitersMatch
<1>4. balance' = n + Cardinality(InFlight) + Cardinality(Swallowed) - Cardinality(Stale)
  BY <1>2 DEF Conservation, CountsFinite
<1> QED BY <1>1, <1>2, <1>3, <1>4 DEF Conservation

(* A coroutine that a signal wakes was counted, and the signal is over.     *)
LEMMA WokenBySignal ==
  ASSUME TypeOK, CountedSays, CountsFinite, CountedSays', NEW x \in Caller, NEW c \in Co,
         pc[x] \in SignalPc, pc[c] = "parked", pc' = [pc EXCEPT ![x] = Return(x), ![c] = "run"],
         UNCHANGED <<current, owner>>,
         \A k \in Timer : current[k] = NoTask \/ owner[current[k]] # c
  PROVE  /\ Cardinality(InFlight)' = Cardinality(InFlight) + (-1)
         /\ Cardinality(Waiting)' = Cardinality(Waiting) + (-1)
<1>1. /\ pc'[x] = Return(x) /\ pc'[c] = "run" /\ x # c
      /\ \A y \in Caller : y # x /\ y # c => pc'[y] = pc[y]
  BY DEF TypeOK, Caller, SignalPc
<1>2. Return(x) \notin SignalPc /\ Return(x) \notin WaitPc
  BY DEF Return, SignalPc, WaitPc
<1>3. x \in InFlight /\ \A y : y \in InFlight' <=> y \in InFlight /\ y # x
  <2>1. pc[c] \notin SignalPc /\ pc'[c] \notin SignalPc /\ pc'[x] \notin SignalPc
    BY <1>1, <1>2 DEF SignalPc
  <2>2. \A y \in Caller : pc'[y] \in SignalPc <=> pc[y] \in SignalPc /\ y # x
    BY <1>1, <2>1
  <2> QED BY <2>2 DEF CountedSays
<1>5. pc[x] \notin WaitPc /\ pc[c] \in WaitPc /\ pc'[c] \notin WaitPc /\ pc'[x] \notin WaitPc
  BY <1>1, <1>2 DEF SignalPc, WaitPc
<1>6. \A y \in Co : pc'[y] \in WaitPc <=> pc[y] \in WaitPc /\ y # c
  BY <1>1, <1>5 DEF Caller
<1>4. c \in Waiting /\ \A y : y \in Waiting' <=> y \in Waiting /\ y # c
  BY <1>5, <1>6 DEF CountedSays
<1> QED BY <1>3, <1>4, Removed DEF CountsFinite

(* A coroutine whose timeout runs was counted, and is no longer.            *)
LEMMA TimedOutWaiter ==
  ASSUME TypeOK, PlaceInv, CountedSays, CountsFinite, CountedSays',
         NEW k \in Timer, NEW t \in expired[k], pc[k] = "callback",
         \A y \in Caller : y # k => pc'[y] = pc[y],
         current' = [current EXCEPT ![k] = t], UNCHANGED owner
  PROVE  Cardinality(Waiting)' = Cardinality(Waiting) + (-1)
<1>1. t \in Task /\ owner[t] \in Co /\ pc[owner[t]] = "parked" /\ Live(t)
  BY DEF TypeOK, PlaceInv, ParkSays, Live
<1>2. current[k] = NoTask /\ t # NoTask
  BY <1>1, SemaphoreAssumption DEF PlaceInv, TimerSays, SignalPc
<1>3. \A l \in Timer : current[l] # NoTask => Live(current[l]) /\ current[l] \in Task /\ current[l] # t
  BY DEF TypeOK, PlaceInv, TimerSays, Live
<1>4. \A l \in Timer : current[l] = NoTask \/ owner[current[l]] # owner[t]
  BY <1>1, <1>3 DEF PlaceInv, ParkSays
<1>5. \A y \in Co : pc'[y] = pc[y]
  BY SemaphoreAssumption DEF Caller
<1>6. current'[k] = t /\ \A l \in Timer : l # k => current'[l] = current[l]
  BY DEF TypeOK
<1>7. owner[t] \in Waiting /\ \A y : y \in Waiting' <=> y \in Waiting /\ y # owner[t]
  BY <1>1, <1>2, <1>4, <1>5, <1>6 DEF CountedSays, WaitPc
<1> QED BY <1>7, Removed DEF CountsFinite

(* No step makes or loses a waiter or a permit that the accounts do not     *)
(* show.                                                                    *)
LEMMA AccountStep ==
  ASSUME TypeOK, TypeOK', PlaceInv, WaitersMatch, Conservation, [Next]_vars
  PROVE  WaitersMatch' /\ Conservation'
<1>a. CountedSays /\ CountsFinite /\ CountedSays' /\ CountsFinite'
  BY Counted, CountedFinite, CountedNext
<1>b. /\ count \in Nat /\ count' \in Nat /\ waiters \in Nat /\ balance \in Int
      /\ Cardinality(InFlight) \in Nat /\ Cardinality(Waiting) \in Nat
      /\ Cardinality(Stale) \in Nat /\ Cardinality(Swallowed) \in Nat
  BY <1>a DEF TypeOK, CountsFinite
<1> USE SemaphoreAssumption DEF Caller, PlaceInv
<1>1. ASSUME NEW c \in Co, TakePermit(c) PROVE WaitersMatch' /\ Conservation'
  <2>1. \A y : y \in InFlight' <=> y \in InFlight
    BY <1>a, <1>1, SMTT(30) DEF CountedSays, TypeOK, TakePermit, SignalPc
  <2>2. \A y : y \in Waiting' <=> y \in Waiting
    BY <1>a, <1>1, SMTT(30) DEF CountedSays, TypeOK, TakePermit, WaitPc, timerVars
  <2>3. \A y : y \in Stale' <=> y \in Stale
    BY <1>a, <1>1, SMTT(30) DEF CountedSays, TypeOK, TakePermit, timerVars, Wrapped
  <2>4. \A y : y \in Swallowed' <=> y \in Swallowed
    BY <1>a, <1>1, SMTT(30) DEF CountedSays, TypeOK, TakePermit, timerVars, Wrapped
  <2>5. waiters' = waiters /\ balance' = balance + (count' - count)
    BY <1>1 DEF TypeOK, TakePermit, valueVars
  <2> QED BY <1>a, <1>b, <2>1, <2>2, <2>3, <2>4, <2>5, Level
<1>2. ASSUME NEW c \in Co, NEW to \in {"interrupt", "register"}, AddWaiter(c, to) PROVE WaitersMatch' /\ Conservation'
  <2>1. Cardinality(InFlight)' = Cardinality(InFlight)
    <3>1. \A y : y \in InFlight' <=> y \in InFlight
      BY <1>a, <1>2, SMTT(30) DEF CountedSays, TypeOK, AddWaiter, Goto, SignalPc
    <3> QED BY <1>a, <3>1, Same DEF CountsFinite
  <2>2. Cardinality(Waiting)' = Cardinality(Waiting) + 1
    <3>1. c \notin Waiting /\ \A y : y \in Waiting' <=> y \in Waiting \/ y = c
      BY <1>a, <1>2, SMTT(30) DEF CountedSays, TypeOK, AddWaiter, Goto, TimerSays,
          ParkSays, Live, WaitPc, timerVars
    <3> QED BY <1>a, <3>1, Added DEF CountsFinite
  <2>3. Cardinality(Stale)' = Cardinality(Stale)
    <3>1. \A y : y \in Stale' <=> y \in Stale
      BY <1>a, <1>2, SMTT(30) DEF CountedSays, TypeOK, AddWaiter, TimerSays, timerVars,
          Wrapped
    <3> QED BY <1>a, <3>1, Same DEF CountsFinite
  <2>4. Cardinality(Swallowed)' = Cardinality(Swallowed)
    <3>1. \A y : y \in Swallowed' <=> y \in Swallowed
      BY <1>a, <1>2, SMTT(30) DEF CountedSays, TypeOK, AddWaiter, TimerSays, timerVars,
          Wrapped
    <3> QED BY <1>a, <3>1, Same DEF CountsFinite
  <2>5. count' = count + (0) /\ waiters' = waiters + (1) /\ balance' = balance + (0)
    BY <1>2 DEF TypeOK, AddWaiter, valueVars
  <2> QED BY <1>b, <2>1, <2>2, <2>3, <2>4, <2>5, Balanced
<1>3. ASSUME NEW c \in Co, take_slot(c) PROVE WaitersMatch' /\ Conservation'
  <2>1. \A y : y \in InFlight' <=> y \in InFlight
    BY <1>a, <1>3, SMTT(30) DEF CountedSays, TypeOK, take_slot, Goto, SignalPc
  <2>2. \A y : y \in Waiting' <=> y \in Waiting
    BY <1>a, <1>3, SMTT(30) DEF CountedSays, TypeOK, take_slot, Goto, WaitPc, timerVars
  <2>3. \A y : y \in Stale' <=> y \in Stale
    BY <1>a, <1>3, SMTT(30) DEF CountedSays, TypeOK, take_slot, timerVars, Wrapped
  <2>4. \A y : y \in Swallowed' <=> y \in Swallowed
    BY <1>a, <1>3, SMTT(30) DEF CountedSays, TypeOK, take_slot, timerVars, Wrapped
  <2>5. waiters' = waiters /\ balance' = balance + (count' - count)
    BY <1>3 DEF TypeOK, take_slot, valueVars
  <2> QED BY <1>a, <1>b, <2>1, <2>2, <2>3, <2>4, <2>5, Level
<1>4. ASSUME NEW c \in Co, push_wait_q(c) PROVE WaitersMatch' /\ Conservation'
  <2>1. \A y : y \in InFlight' <=> y \in InFlight
    BY <1>a, <1>4, SMTT(30) DEF CountedSays, TypeOK, push_wait_q, Goto, SignalPc
  <2>2. \A y : y \in Waiting' <=> y \in Waiting
    BY <1>a, <1>4, SMTT(30) DEF CountedSays, TypeOK, push_wait_q, Goto, WaitPc, timerVars
  <2>3. \A y : y \in Stale' <=> y \in Stale
    BY <1>a, <1>4, SMTT(30) DEF CountedSays, TypeOK, push_wait_q, timerVars, Wrapped
  <2>4. \A y : y \in Swallowed' <=> y \in Swallowed
    BY <1>a, <1>4, SMTT(30) DEF CountedSays, TypeOK, push_wait_q, timerVars, Wrapped
  <2>5. waiters' = waiters /\ balance' = balance + (count' - count)
    BY <1>4 DEF TypeOK, push_wait_q, valueVars
  <2> QED BY <1>a, <1>b, <2>1, <2>2, <2>3, <2>4, <2>5, Level
<1>5. ASSUME NEW c \in Co, NEW k \in Timer, NEW t \in Task, apply_task_until(c, k, t) PROVE WaitersMatch' /\ Conservation'
  <2>1. \A y : y \in InFlight' <=> y \in InFlight
    BY <1>a, <1>5, SMTT(30) DEF CountedSays, TypeOK, apply_task_until, Goto, Held, SignalPc
  <2>2. \A y : y \in Waiting' <=> y \in Waiting
    BY <1>a, <1>5, SMTT(30) DEF CountedSays, TypeOK, apply_task_until, Goto, Held,
        WaitPc, timerVars
  <2>3. \A y : y \in Stale' <=> y \in Stale
    BY <1>a, <1>5, SMTT(30) DEF CountedSays, TypeOK, apply_task_until, Held, timerVars,
        Wrapped
  <2>4. \A y : y \in Swallowed' <=> y \in Swallowed
    BY <1>a, <1>5, SMTT(30) DEF CountedSays, TypeOK, apply_task_until, Held, timerVars,
        Wrapped
  <2>5. waiters' = waiters /\ balance' = balance + (count' - count)
    BY <1>5 DEF TypeOK, apply_task_until, valueVars
  <2> QED BY <1>a, <1>b, <2>1, <2>2, <2>3, <2>4, <2>5, Level
<1>6. ASSUME NEW c \in Co, signal(c), waiters = 0 PROVE WaitersMatch' /\ Conservation'
  <2>1. \A y : y \in InFlight' <=> y \in InFlight
    BY <1>a, <1>6, SMTT(30) DEF CountedSays, TypeOK, signal, inc_count_fn, Return, SignalPc
  <2>2. \A y : y \in Waiting' <=> y \in Waiting
    BY <1>a, <1>6, SMTT(30) DEF CountedSays, TypeOK, signal, inc_count_fn, Return,
        WaitPc, timerVars
  <2>3. \A y : y \in Stale' <=> y \in Stale
    BY <1>a, <1>6, SMTT(30) DEF CountedSays, TypeOK, signal, inc_count_fn, timerVars,
        Wrapped
  <2>4. \A y : y \in Swallowed' <=> y \in Swallowed
    BY <1>a, <1>6, SMTT(30) DEF CountedSays, TypeOK, signal, inc_count_fn, timerVars,
        Wrapped
  <2>5. waiters' = waiters /\ balance' = balance + (count' - count)
    BY <1>6 DEF TypeOK, signal, inc_count_fn, valueVars
  <2> QED BY <1>a, <1>b, <2>1, <2>2, <2>3, <2>4, <2>5, Level
<1>7. ASSUME NEW c \in Co, signal(c), waiters > 0 PROVE WaitersMatch' /\ Conservation'
  <2>1. Cardinality(InFlight)' = Cardinality(InFlight) + 1
    <3>1. c \notin InFlight /\ \A y : y \in InFlight' <=> y \in InFlight \/ y = c
      BY <1>a, <1>7, SMTT(30) DEF CountedSays, TypeOK, signal, inc_count_fn, SignalPc
    <3> QED BY <1>a, <3>1, Added DEF CountsFinite
  <2>2. Cardinality(Waiting)' = Cardinality(Waiting)
    <3>1. \A y : y \in Waiting' <=> y \in Waiting
      BY <1>a, <1>7, SMTT(30) DEF CountedSays, TypeOK, signal, inc_count_fn, WaitPc,
          timerVars
    <3> QED BY <1>a, <3>1, Same DEF CountsFinite
  <2>3. Cardinality(Stale)' = Cardinality(Stale)
    <3>1. \A y : y \in Stale' <=> y \in Stale
      BY <1>a, <1>7, SMTT(30) DEF CountedSays, TypeOK, signal, inc_count_fn, timerVars,
          Wrapped
    <3> QED BY <1>a, <3>1, Same DEF CountsFinite
  <2>4. Cardinality(Swallowed)' = Cardinality(Swallowed)
    <3>1. \A y : y \in Swallowed' <=> y \in Swallowed
      BY <1>a, <1>7, SMTT(30) DEF CountedSays, TypeOK, signal, inc_count_fn, timerVars,
          Wrapped
    <3> QED BY <1>a, <3>1, Same DEF CountsFinite
  <2>5. count' = count + (0) /\ waiters' = waiters + (-1) /\ balance' = balance + (1)
    BY <1>7 DEF TypeOK, signal, inc_count_fn, valueVars
  <2> QED BY <1>b, <2>1, <2>2, <2>3, <2>4, <2>5, Balanced
<1>8. ASSUME NEW x \in Caller, pick_from_wait_q(x) PROVE WaitersMatch' /\ Conservation'
  <2>1. \A y : y \in InFlight' <=> y \in InFlight
    BY <1>a, <1>8, SMTT(30) DEF CountedSays, TypeOK, pick_from_wait_q, Goto, SignalPc
  <2>2. \A y : y \in Waiting' <=> y \in Waiting
    BY <1>a, <1>8, SMTT(30) DEF CountedSays, TypeOK, pick_from_wait_q, Goto, GotSays,
        WaitPc, timerVars
  <2>3. \A y : y \in Stale' <=> y \in Stale
    BY <1>a, <1>8, SMTT(30) DEF CountedSays, TypeOK, pick_from_wait_q, Goto, GotSays,
        timerVars, Wrapped
  <2>4. \A y : y \in Swallowed' <=> y \in Swallowed
    BY <1>a, <1>8, SMTT(30) DEF CountedSays, TypeOK, pick_from_wait_q, Goto, GotSays,
        timerVars, Wrapped
  <2>5. waiters' = waiters /\ balance' = balance + (count' - count)
    BY <1>8, <1>b DEF pick_from_wait_q, valueVars
  <2> QED BY <1>a, <1>b, <2>1, <2>2, <2>3, <2>4, <2>5, Level
<1>9. ASSUME NEW x \in Caller, wait_and_pop(x) PROVE WaitersMatch' /\ Conservation'
  <2>0. PICK c \in Co : /\ pc' = [pc EXCEPT ![x] = Return(x), ![c] = "run"]
                       /\ pc[x] = "wait_and_pop" /\ pc[c] = "parked"
                       /\ UNCHANGED <<current, owner>>
                       /\ \A k \in Timer : current[k] = NoTask \/ owner[current[k]] # c
    <3>1. PICK c \in waitQ[slot[x]] : pc' = [pc EXCEPT ![x] = Return(x), ![c] = "run"]
      BY <1>9 DEF wait_and_pop
    <3>2. c \in Co /\ pc[c] = "parked"
      BY <3>1 DEF TypeOK, ParkSays
    <3>3. \A k \in Timer : current[k] = NoTask \/ owner[current[k]] # c
      BY <3>1 DEF TypeOK, ParkSays, Live
    <3> QED BY <1>9, <3>1, <3>2, <3>3 DEF wait_and_pop, timerVars
  <2>1. Cardinality(InFlight)' = Cardinality(InFlight) + (-1)
    BY <1>a, <2>0, WokenBySignal DEF SignalPc
  <2>2. Cardinality(Waiting)' = Cardinality(Waiting) + (-1)
    BY <1>a, <2>0, WokenBySignal DEF SignalPc
  <2>3. Cardinality(Stale)' = Cardinality(Stale)
    <3>1. \A y : y \in Stale' <=> y \in Stale
      BY <1>a, <1>9, <2>0, SMTT(30) DEF CountedSays, TypeOK, wait_and_pop, timerVars,
          Wrapped
    <3> QED BY <1>a, <3>1, Same DEF CountsFinite
  <2>4. Cardinality(Swallowed)' = Cardinality(Swallowed)
    <3>1. \A y : y \in Swallowed' <=> y \in Swallowed
      BY <1>a, <1>9, <2>0, SMTT(30) DEF CountedSays, TypeOK, wait_and_pop, timerVars,
          Wrapped
    <3> QED BY <1>a, <3>1, Same DEF CountsFinite
  <2>5. count' = count + (0) /\ waiters' = waiters + (0) /\ balance' = balance + (-1)
    BY <1>9, <2>0 DEF TypeOK, wait_and_pop, valueVars
  <2> QED BY <1>b, <2>1, <2>2, <2>3, <2>4, <2>5, Balanced
<1>10. ASSUME NEW x \in Caller, cancel(x), NEW k \in Timer, NEW t \in Task, NEW c \in Co, Cancels(x, k, t, c) PROVE WaitersMatch' /\ Conservation'
  <2>0. /\ pc[x] = "cancel" /\ got' = [got EXCEPT ![x] = NoTask]
        /\ UNCHANGED <<valueVars, cancelable, owner, expired, current>>
        /\ \A l \in Timer : current[l] = NoTask \/ owner[current[l]] # c
    <3>1. \A l \in Timer : current[l] # NoTask =>
            current[l] \in Task /\ Live(current[l]) /\ current[l] # t
      BY <1>10 DEF Cancels, TypeOK, TimerSays, Live
    <3>2. Live(t) /\ owner[t] = c
      BY <1>10 DEF Cancels, Live
    <3>3. \A l \in Timer : current[l] = NoTask \/ owner[current[l]] # c
      BY <3>1, <3>2 DEF ParkSays
    <3> QED BY <1>10, <3>3 DEF cancel
  <2>1. Cardinality(InFlight)' = Cardinality(InFlight) + (-1)
    BY <1>a, <2>0, <1>10, WokenBySignal DEF SignalPc, Cancels
  <2>2. Cardinality(Waiting)' = Cardinality(Waiting) + (-1)
    BY <1>a, <2>0, <1>10, WokenBySignal DEF SignalPc, Cancels
  <2>3. Cardinality(Stale)' = Cardinality(Stale)
    <3>1. \A y : y \in Stale' <=> y \in Stale
      BY <1>a, <1>10, <2>0, SMTT(30) DEF CountedSays, TypeOK, Cancels, GotSays,
          TimerSays, timerVars, Wrapped
    <3> QED BY <1>a, <3>1, Same DEF CountsFinite
  <2>4. Cardinality(Swallowed)' = Cardinality(Swallowed)
    <3>1. \A y : y \in Swallowed' <=> y \in Swallowed
      <4>1. \A y \in Task : y # t => (Wrapped(y)' <=> Wrapped(y))
        BY <1>10, <2>0 DEF Cancels, Wrapped, TypeOK
      <4>2. \A l \in Timer : t \notin expired[l] /\ expired[l] \subseteq Task
        BY <1>10 DEF Cancels, TimerSays, TypeOK
      <4> QED BY <1>a, <2>0, <4>1, <4>2 DEF CountedSays
    <3> QED BY <1>a, <3>1, Same DEF CountsFinite
  <2>5. count' = count + (0) /\ waiters' = waiters + (0) /\ balance' = balance + (-1)
    BY <1>10, <2>0 DEF TypeOK, Cancels, valueVars
  <2> QED BY <1>b, <2>1, <2>2, <2>3, <2>4, <2>5, Balanced
<1>11. ASSUME NEW x \in Caller, cancel(x), MissesTask(x), NEW k \in Timer, got[x] \in expired[k] PROVE WaitersMatch' /\ Conservation'
  <2>0. /\ pc[x] = "cancel" /\ got' = [got EXCEPT ![x] = NoTask]
        /\ UNCHANGED <<valueVars, cancelable, owner, expired, current>>
    BY <1>11 DEF cancel
  <2>1. Cardinality(InFlight)' = Cardinality(InFlight) + (-1)
    <3>1. x \in InFlight /\ \A y : y \in InFlight' <=> y \in InFlight /\ y # x
      BY <1>a, <1>11, <2>0, SMTT(30) DEF CountedSays, TypeOK, MissesTask, Return,
          PcSays, SignalPc
    <3> QED BY <1>a, <3>1, Removed DEF CountsFinite
  <2>2. Cardinality(Waiting)' = Cardinality(Waiting)
    <3>1. \A y : y \in Waiting' <=> y \in Waiting
      BY <1>a, <1>11, <2>0, SMTT(30) DEF CountedSays, TypeOK, MissesTask, Return,
          PcSays, GotSays, WaitPc, timerVars
    <3> QED BY <1>a, <3>1, Same DEF CountsFinite
  <2>3. Cardinality(Stale)' = Cardinality(Stale)
    <3>1. \A y : y \in Stale' <=> y \in Stale
      BY <1>a, <1>11, <2>0, SMTT(30) DEF CountedSays, TypeOK, MissesTask, GotSays,
          timerVars, Wrapped
    <3> QED BY <1>a, <3>1, Same DEF CountsFinite
  <2>4. Cardinality(Swallowed)' = Cardinality(Swallowed) + 1
    <3>1. got[x] \notin Swallowed /\ \A y : y \in Swallowed' <=> y \in Swallowed \/ y = got[x]
      BY <1>a, <1>11, <2>0, SMTT(30) DEF CountedSays, TypeOK, MissesTask, GotSays,
          timerVars, Wrapped
    <3> QED BY <1>a, <3>1, Added DEF CountsFinite
  <2>5. count' = count + (0) /\ waiters' = waiters + (0) /\ balance' = balance + (0)
    BY <1>11, <2>0 DEF TypeOK, MissesTask, valueVars
  <2> QED BY <1>b, <2>1, <2>2, <2>3, <2>4, <2>5, Balanced
<1>12. ASSUME NEW x \in Caller, cancel(x), MissesTask(x), \A k \in Timer : got[x] \notin expired[k] PROVE WaitersMatch' /\ Conservation'
  <2>0. /\ pc[x] = "cancel" /\ got' = [got EXCEPT ![x] = NoTask]
        /\ UNCHANGED <<valueVars, cancelable, owner, expired, current>>
    BY <1>12 DEF cancel
  <2>1. Cardinality(InFlight)' = Cardinality(InFlight) + (-1)
    <3>1. x \in InFlight /\ \A y : y \in InFlight' <=> y \in InFlight /\ y # x
      BY <1>a, <1>12, <2>0, SMTT(30) DEF CountedSays, TypeOK, MissesTask, Return,
          PcSays, SignalPc
    <3> QED BY <1>a, <3>1, Removed DEF CountsFinite
  <2>2. Cardinality(Waiting)' = Cardinality(Waiting)
    <3>1. \A y : y \in Waiting' <=> y \in Waiting
      BY <1>a, <1>12, <2>0, SMTT(30) DEF CountedSays, TypeOK, MissesTask, Return,
          PcSays, GotSays, WaitPc, timerVars
    <3> QED BY <1>a, <3>1, Same DEF CountsFinite
  <2>3. Cardinality(Stale)' = Cardinality(Stale) + (-1)
    <3>1. got[x] \in Stale /\ \A y : y \in Stale' <=> y \in Stale /\ y # got[x]
      BY <1>a, <1>12, <2>0, SMTT(30) DEF CountedSays, TypeOK, MissesTask, GotSays,
          timerVars, Wrapped
    <3> QED BY <1>a, <3>1, Removed DEF CountsFinite
  <2>4. Cardinality(Swallowed)' = Cardinality(Swallowed)
    <3>1. \A y : y \in Swallowed' <=> y \in Swallowed
      BY <1>a, <1>12, <2>0, SMTT(30) DEF CountedSays, TypeOK, MissesTask, GotSays,
          timerVars, Wrapped
    <3> QED BY <1>a, <3>1, Same DEF CountsFinite
  <2>5. count' = count + (0) /\ waiters' = waiters + (0) /\ balance' = balance + (0)
    BY <1>12, <2>0 DEF TypeOK, MissesTask, valueVars
  <2> QED BY <1>b, <2>1, <2>2, <2>3, <2>4, <2>5, Balanced
<1>13. ASSUME NEW k \in Timer, NEW ts \in SUBSET armed[k], pick_all_expired(k, ts) PROVE WaitersMatch' /\ Conservation'
  <2>1. \A y : y \in InFlight' <=> y \in InFlight
    BY <1>a, <1>13, SMTT(30) DEF CountedSays, TypeOK, pick_all_expired, Goto, SignalPc
  <2>2. \A y : y \in Waiting' <=> y \in Waiting
    BY <1>a, <1>13, SMTT(30) DEF CountedSays, TypeOK, pick_all_expired, Goto, TimerSays,
        WaitPc, timerVars
  <2>3. \A y : y \in Stale' <=> y \in Stale
    BY <1>a, <1>13, SMTT(30) DEF CountedSays, TypeOK, pick_all_expired, Goto, ArmedSays,
        TimerSays, timerVars, Wrapped
  <2>4. \A y : y \in Swallowed' <=> y \in Swallowed
    BY <1>a, <1>13, SMTT(30) DEF CountedSays, TypeOK, pick_all_expired, Goto, ArmedSays,
        TimerSays, timerVars, Wrapped
  <2>5. waiters' = waiters /\ balance' = balance + (count' - count)
    BY <1>13 DEF TypeOK, pick_all_expired, valueVars
  <2> QED BY <1>a, <1>b, <2>1, <2>2, <2>3, <2>4, <2>5, Level
<1>14. ASSUME NEW k \in Timer, timer_callback_fn(k), NEW t \in expired[k],
               expired' = [expired EXCEPT ![k] = @ \ {t}], current' = [current EXCEPT ![k] = t],
               waiters = 0, Wrapped(t) PROVE WaitersMatch' /\ Conservation'
  <2>1. Cardinality(InFlight)' = Cardinality(InFlight)
    <3>1. \A y : y \in InFlight' <=> y \in InFlight
      BY <1>a, <1>14, SMTT(30) DEF CountedSays, TypeOK, timer_callback_fn, inc_count_fn,
          Return, PcSays, SignalPc
    <3> QED BY <1>a, <3>1, Same DEF CountsFinite
  <2>2. Cardinality(Waiting)' = Cardinality(Waiting) + (-1)
    BY <1>a, <1>14, TimedOutWaiter DEF timer_callback_fn, inc_count_fn, TypeOK
  <2>3. Cardinality(Stale)' = Cardinality(Stale) + 1
    <3>1. t \notin Stale /\ \A y : y \in Stale' <=> y \in Stale \/ y = t
      <4>1. /\ \A y : Wrapped(y)' <=> Wrapped(y)
            /\ UNCHANGED armed /\ t \in Task
        BY <1>14 DEF timer_callback_fn, Wrapped, TypeOK
      <4>2. /\ \A l \in Timer : t \notin armed[l] /\ (t \in expired[l] => l = k)
            /\ \A l \in Timer : l # k => expired'[l] = expired[l]
            /\ expired'[k] = expired[k] \ {t}
        BY <1>14 DEF TimerSays, TypeOK
      <4> QED BY <1>a, <1>14, <4>1, <4>2 DEF CountedSays
    <3> QED BY <1>a, <3>1, Added DEF CountsFinite
  <2>4. Cardinality(Swallowed)' = Cardinality(Swallowed)
    <3>1. \A y : y \in Swallowed' <=> y \in Swallowed
      BY <1>a, <1>14, SMTT(30) DEF CountedSays, TypeOK, timer_callback_fn, inc_count_fn,
          TimerSays, timerVars, Wrapped
    <3> QED BY <1>a, <3>1, Same DEF CountsFinite
  <2>5. count' = count + (1) /\ waiters' = waiters + (0) /\ balance' = balance + (0)
    BY <1>14 DEF TypeOK, timer_callback_fn, inc_count_fn, valueVars
  <2> QED BY <1>b, <2>1, <2>2, <2>3, <2>4, <2>5, Balanced
<1>15. ASSUME NEW k \in Timer, timer_callback_fn(k), NEW t \in expired[k],
               expired' = [expired EXCEPT ![k] = @ \ {t}], current' = [current EXCEPT ![k] = t],
               waiters = 0, ~Wrapped(t) PROVE WaitersMatch' /\ Conservation'
  <2>1. Cardinality(InFlight)' = Cardinality(InFlight)
    <3>1. \A y : y \in InFlight' <=> y \in InFlight
      BY <1>a, <1>15, SMTT(30) DEF CountedSays, TypeOK, timer_callback_fn, inc_count_fn,
          Return, PcSays, SignalPc
    <3> QED BY <1>a, <3>1, Same DEF CountsFinite
  <2>2. Cardinality(Waiting)' = Cardinality(Waiting) + (-1)
    BY <1>a, <1>15, TimedOutWaiter DEF timer_callback_fn, inc_count_fn, TypeOK
  <2>3. Cardinality(Stale)' = Cardinality(Stale)
    <3>1. \A y : y \in Stale' <=> y \in Stale
      BY <1>a, <1>15, SMTT(30) DEF CountedSays, TypeOK, timer_callback_fn, inc_count_fn,
          TimerSays, timerVars, Wrapped
    <3> QED BY <1>a, <3>1, Same DEF CountsFinite
  <2>4. Cardinality(Swallowed)' = Cardinality(Swallowed) + (-1)
    <3>1. t \in Swallowed /\ \A y : y \in Swallowed' <=> y \in Swallowed /\ y # t
      BY <1>a, <1>15, SMTT(30) DEF CountedSays, TypeOK, timer_callback_fn, inc_count_fn,
          TimerSays, timerVars, Wrapped
    <3> QED BY <1>a, <3>1, Removed DEF CountsFinite
  <2>5. count' = count + (1) /\ waiters' = waiters + (0) /\ balance' = balance + (0)
    BY <1>15 DEF TypeOK, timer_callback_fn, inc_count_fn, valueVars
  <2> QED BY <1>b, <2>1, <2>2, <2>3, <2>4, <2>5, Balanced
<1>16. ASSUME NEW k \in Timer, timer_callback_fn(k), NEW t \in expired[k],
               expired' = [expired EXCEPT ![k] = @ \ {t}], current' = [current EXCEPT ![k] = t],
               waiters > 0, Wrapped(t) PROVE WaitersMatch' /\ Conservation'
  <2>1. Cardinality(InFlight)' = Cardinality(InFlight) + 1
    <3>1. k \notin InFlight /\ \A y : y \in InFlight' <=> y \in InFlight \/ y = k
      BY <1>a, <1>16, SMTT(30) DEF CountedSays, TypeOK, timer_callback_fn, inc_count_fn,
          Return, PcSays, SignalPc
    <3> QED BY <1>a, <3>1, Added DEF CountsFinite
  <2>2. Cardinality(Waiting)' = Cardinality(Waiting) + (-1)
    BY <1>a, <1>16, TimedOutWaiter DEF timer_callback_fn, inc_count_fn, TypeOK
  <2>3. Cardinality(Stale)' = Cardinality(Stale) + 1
    <3>1. t \notin Stale /\ \A y : y \in Stale' <=> y \in Stale \/ y = t
      <4>1. /\ \A y : Wrapped(y)' <=> Wrapped(y)
            /\ UNCHANGED armed /\ t \in Task
        BY <1>16 DEF timer_callback_fn, Wrapped, TypeOK
      <4>2. /\ \A l \in Timer : t \notin armed[l] /\ (t \in expired[l] => l = k)
            /\ \A l \in Timer : l # k => expired'[l] = expired[l]
            /\ expired'[k] = expired[k] \ {t}
        BY <1>16 DEF TimerSays, TypeOK
      <4> QED BY <1>a, <1>16, <4>1, <4>2 DEF CountedSays
    <3> QED BY <1>a, <3>1, Added DEF CountsFinite
  <2>4. Cardinality(Swallowed)' = Cardinality(Swallowed)
    <3>1. \A y : y \in Swallowed' <=> y \in Swallowed
      BY <1>a, <1>16, SMTT(30) DEF CountedSays, TypeOK, timer_callback_fn, inc_count_fn,
          TimerSays, timerVars, Wrapped
    <3> QED BY <1>a, <3>1, Same DEF CountsFinite
  <2>5. count' = count + (0) /\ waiters' = waiters + (-1) /\ balance' = balance + (0)
    BY <1>16 DEF TypeOK, timer_callback_fn, inc_count_fn, valueVars
  <2> QED BY <1>b, <2>1, <2>2, <2>3, <2>4, <2>5, Balanced
<1>17. ASSUME NEW k \in Timer, timer_callback_fn(k), NEW t \in expired[k],
               expired' = [expired EXCEPT ![k] = @ \ {t}], current' = [current EXCEPT ![k] = t],
               waiters > 0, ~Wrapped(t) PROVE WaitersMatch' /\ Conservation'
  <2>1. Cardinality(InFlight)' = Cardinality(InFlight) + 1
    <3>1. k \notin InFlight /\ \A y : y \in InFlight' <=> y \in InFlight \/ y = k
      BY <1>a, <1>17, SMTT(30) DEF CountedSays, TypeOK, timer_callback_fn, inc_count_fn,
          Return, PcSays, SignalPc
    <3> QED BY <1>a, <3>1, Added DEF CountsFinite
  <2>2. Cardinality(Waiting)' = Cardinality(Waiting) + (-1)
    BY <1>a, <1>17, TimedOutWaiter DEF timer_callback_fn, inc_count_fn, TypeOK
  <2>3. Cardinality(Stale)' = Cardinality(Stale)
    <3>1. \A y : y \in Stale' <=> y \in Stale
      BY <1>a, <1>17, SMTT(30) DEF CountedSays, TypeOK, timer_callback_fn, inc_count_fn,
          TimerSays, timerVars, Wrapped
    <3> QED BY <1>a, <3>1, Same DEF CountsFinite
  <2>4. Cardinality(Swallowed)' = Cardinality(Swallowed) + (-1)
    <3>1. t \in Swallowed /\ \A y : y \in Swallowed' <=> y \in Swallowed /\ y # t
      BY <1>a, <1>17, SMTT(30) DEF CountedSays, TypeOK, timer_callback_fn, inc_count_fn,
          TimerSays, timerVars, Wrapped
    <3> QED BY <1>a, <3>1, Removed DEF CountsFinite
  <2>5. count' = count + (0) /\ waiters' = waiters + (-1) /\ balance' = balance + (0)
    BY <1>17 DEF TypeOK, timer_callback_fn, inc_count_fn, valueVars
  <2> QED BY <1>b, <2>1, <2>2, <2>3, <2>4, <2>5, Balanced
<1>18. ASSUME NEW k \in Timer, timeout_apply(k) PROVE WaitersMatch' /\ Conservation'
  <2>0. /\ owner[current[k]] \in Co /\ pc[owner[current[k]]] = "parked" /\ pc[k] = "apply"
        /\ Live(current[k]) /\ current[k] \in Task
    BY <1>18, TimeoutTask DEF timeout_apply
  <2>6. /\ pc'[k] \in {"tick", "callback"} /\ pc'[owner[current[k]]] = "run"
        /\ \A y \in Caller : y # k /\ y # owner[current[k]] => pc'[y] = pc[y]
    BY <1>18, <2>0 DEF timeout_apply, TypeOK
  <2>7. /\ current'[k] = NoTask /\ \A l \in Timer : l # k => current'[l] = current[l]
        /\ UNCHANGED owner
    BY <1>18 DEF timeout_apply, TypeOK
  <2>9. NoTask \notin Task
    OBVIOUS
  <2>1. \A y : y \in InFlight' <=> y \in InFlight
    BY <1>a, <2>0, <2>6 DEF CountedSays, SignalPc
  <2>2. \A y : y \in Waiting' <=> y \in Waiting
    <3>1. \A y \in Co : y # owner[current[k]] => pc'[y] = pc[y]
      BY <2>6
    <3>2. \A y \in Co : y # owner[current[k]] =>
            ((\A l \in Timer : current'[l] = NoTask \/ owner'[current'[l]] # y)
              <=> \A l \in Timer : current[l] = NoTask \/ owner[current[l]] # y)
      BY <2>7
    <3>3. owner[current[k]] \notin Waiting
      BY <1>a, <2>0, <2>9 DEF CountedSays
    <3>4. owner[current[k]] \notin Waiting'
      BY <1>a, <2>6 DEF CountedSays, WaitPc
    <3> QED BY <1>a, <3>1, <3>2, <3>3, <3>4 DEF CountedSays
  <2>3. \A y : y \in Stale' <=> y \in Stale
    BY <1>a, <1>18, <2>0, SMTT(30) DEF CountedSays, TypeOK, timeout_apply, TimerSays,
        timerVars, Wrapped
  <2>4. \A y : y \in Swallowed' <=> y \in Swallowed
    BY <1>a, <1>18, <2>0, SMTT(30) DEF CountedSays, TypeOK, timeout_apply, TimerSays,
        timerVars, Wrapped
  <2>5. waiters' = waiters /\ balance' = balance + (count' - count)
    BY <1>18, <2>0 DEF TypeOK, timeout_apply, valueVars
  <2> QED BY <1>a, <1>b, <2>1, <2>2, <2>3, <2>4, <2>5, Level
<1>19. CASE UNCHANGED vars
  <2>1. UNCHANGED <<InFlight, Waiting, Stale, Swallowed>>
    BY <1>19 DEF vars, valueVars, queueVars, timerVars, InFlight, Waiting, Stale,
        Swallowed, TimedOut, InTimer
  <2> QED BY <1>19, <2>1 DEF vars, valueVars, WaitersMatch, Conservation
<1>20. ASSUME NEW c \in Co, signal(c) PROVE waiters = 0 \/ waiters > 0
  BY <1>20 DEF signal, inc_count_fn
<1>21. ASSUME NEW x \in Caller, cancel(x) PROVE WaitersMatch' /\ Conservation'
  BY <1>10, <1>11, <1>12, <1>21, CancelCases
<1>22. ASSUME NEW k \in Timer, timer_callback_fn(k) PROVE WaitersMatch' /\ Conservation'
  BY <1>14, <1>15, <1>16, <1>17, <1>22 DEF timer_callback_fn, inc_count_fn
<1> QED BY <1>1, <1>2, <1>3, <1>4, <1>5, <1>6, <1>7, <1>8, <1>9, <1>13, <1>18, <1>19,
    <1>20, <1>21, <1>22
  DEF Next, UserStep, WaitStep, SignalStep, TickStep, wait, wait_for, try_wait

(* Initially nobody waits and nothing is owed.                              *)
LEMMA InitAccounts == Init => WaitersMatch /\ Conservation
<1> SUFFICES ASSUME Init PROVE WaitersMatch /\ Conservation
  OBVIOUS
<1>1. InFlight = {} /\ Waiting = {} /\ Stale = {} /\ Swallowed = {}
  BY InitPlaces, Counted, SemaphoreAssumption DEF Init, CountedSays, Caller, SignalPc,
      WaitPc, Wrapped
<1> QED BY <1>1, FS_EmptySet, SemaphoreAssumption DEF Init, WaitersMatch, Conservation

(* m_value counts the waiting coroutines, up to the signals under way, the  *)
(* wraps left behind and the wraps taken too early.                         *)
THEOREM WaitersCounted == Spec => []WaitersMatch
<1>1. TypeOK /\ PlaceInv /\ WaitersMatch /\ Conservation /\ [Next]_vars
        => WaitersMatch' /\ Conservation'
  BY NextPlaces, AccountStep
<1> QED BY InitPlaces, NextPlaces, InitAccounts, <1>1, PTL DEF Spec

(* signal and wait make and lose no permit but the one every stale wrap     *)
(* owes.                                                                    *)
THEOREM PermitsConserved == Spec => []Conservation
<1>1. TypeOK /\ PlaceInv /\ WaitersMatch /\ Conservation /\ [Next]_vars
        => WaitersMatch' /\ Conservation'
  BY NextPlaces, AccountStep
<1> QED BY InitPlaces, NextPlaces, InitAccounts, <1>1, PTL DEF Spec

-----------------------------------------------------------------------------
(* No step leaves a permit beside a waiter.                                 *)
LEMMA NumberStep == TypeOK /\ OneNumber /\ [Next]_vars => OneNumber'
<1> SUFFICES ASSUME TypeOK, OneNumber, [Next]_vars PROVE OneNumber'
  OBVIOUS
<1>1. \/ UNCHANGED <<count, waiters>>
      \/ count > 0 /\ UNCHANGED waiters
      \/ count = 0 /\ UNCHANGED count
      \/ waiters = 0 /\ UNCHANGED waiters
      \/ waiters > 0 /\ UNCHANGED count
  BY DEF Next, UserStep, WaitStep, SignalStep, TickStep, wait, wait_for, try_wait,
      TakePermit,
     AddWaiter, take_slot, push_wait_q, apply_task_until, signal, inc_count_fn, pick_from_wait_q,
     wait_and_pop, cancel, pick_all_expired, timer_callback_fn, timeout_apply, valueVars, vars
<1> QED BY <1>1 DEF TypeOK, OneNumber

(* When every signal has returned and none was swallowed, no coroutine      *)
(* waits while there is a permit.                                           *)
THEOREM PermitsFound == Spec => []NoLostPermit
<1>1. Init => OneNumber
  BY DEF Init, OneNumber
<1>2. TypeOK /\ WaitersMatch /\ OneNumber => NoLostPermit
  <2> SUFFICES ASSUME TypeOK, WaitersMatch, OneNumber, count > 0, InFlight = {}, Swallowed = {}
               PROVE  Waiting = {}
    BY DEF NoLostPermit
  <2>1. waiters = 0
    BY DEF OneNumber, TypeOK
  <2>2. Cardinality(InFlight) = 0 /\ Cardinality(Swallowed) = 0
    BY FS_EmptySet
  <2>3. /\ Cardinality(Waiting) \in Nat /\ Cardinality(Stale) \in Nat /\ IsFiniteSet(Waiting)
    BY CountedFinite DEF CountsFinite
  <2>4. Cardinality(Waiting) = 0
    BY <2>1, <2>2, <2>3 DEF WaitersMatch
  <2> QED BY <2>3, <2>4, FS_EmptySet
<1> QED BY InitPlaces, NextPlaces, WaitersCounted, NumberStep, <1>1, <1>2, PTL DEF Spec

-----------------------------------------------------------------------------
(* Without timed waits: every step is a step of CountingSemaphore, or       *)
(* changes neither the permits nor the waiting coroutines.                  *)
Permits == count + Cardinality(InFlight)

(* Without tasks no wrap is left behind or owed.                            *)
LEMMA Untimed ==
  ASSUME TypeOK, Task = {}
  PROVE  /\ cancelable = {} /\ \A k \in Timer : armed[k] = {} /\ expired[k] = {}
         /\ \A k \in Timer : current[k] = NoTask
         /\ \A x \in Caller : got[x] = NoTask
BY DEF TypeOK

(* Without tasks each step is one of CountingSemaphore or a stutter.        *)
LEMMA UntimedStep ==
  ASSUME Task = {}, TypeOK, PlaceInv, TypeOK', [Next]_vars
  PROVE  [CS!Next]_(<<Permits, Waiting>>)
<1>a. CountedSays /\ CountsFinite /\ CountedSays' /\ CountsFinite'
  BY Counted, CountedFinite, CountedNext
<1>b. count \in Nat /\ Cardinality(InFlight) \in Nat /\ Cardinality(InFlight)' \in Nat
  BY <1>a DEF TypeOK, CountsFinite
<1> USE SemaphoreAssumption DEF Caller
<1>1. ASSUME NEW c \in Co, TakePermit(c) PROVE CS!Take(c)
  <2>1. InFlight' = InFlight /\ Waiting' = Waiting
    BY <1>1 DEF TakePermit, InFlight, Waiting, TimedOut, timerVars
  <2>2. c \notin Waiting
    BY <1>a, <1>1 DEF TakePermit, CountedSays, WaitPc
  <2> QED BY <1>1, <1>b, <2>1, <2>2 DEF TakePermit, CS!Take
<1>2. ASSUME NEW c \in Co, NEW to \in {"interrupt", "register"}, AddWaiter(c, to) PROVE CS!Block(c)
  <2>1. InFlight' = InFlight
    <3>1. \A y : y \in InFlight' <=> y \in InFlight
      BY <1>a, <1>2 DEF CountedSays, TypeOK, AddWaiter, Goto, SignalPc
    <3> QED BY <3>1
  <2>2. c \notin Waiting /\ Waiting' = Waiting \cup {c}
    <3>1. \A y : y \in Waiting' <=> y \in Waiting \/ y = c
      BY <1>a, <1>2, Untimed DEF CountedSays, TypeOK, AddWaiter, Goto, WaitPc, timerVars
    <3>2. c \notin Waiting
      BY <1>a, <1>2 DEF CountedSays, AddWaiter, Goto, WaitPc
    <3> QED BY <3>1, <3>2
  <2> QED BY <1>2, <2>1, <2>2 DEF AddWaiter, CS!Block
<1>3. ASSUME NEW c \in Co, take_slot(c) \/ push_wait_q(c) PROVE UNCHANGED <<Permits, Waiting>>
  <2>1. \A y : (y \in InFlight' <=> y \in InFlight) /\ (y \in Waiting' <=> y \in Waiting)
    BY <1>a, <1>3 DEF CountedSays, TypeOK, take_slot, push_wait_q, Goto, SignalPc,
        WaitPc, timerVars
  <2>2. InFlight' = InFlight /\ Waiting' = Waiting
    BY <2>1
  <2> QED BY <1>3, <2>2 DEF take_slot, push_wait_q, valueVars, Permits
<1>4. ASSUME NEW c \in Co, signal(c) PROVE CS!Signal
  <2>1. CASE waiters = 0
    <3>1. \A y : (y \in InFlight' <=> y \in InFlight) /\ (y \in Waiting' <=> y \in Waiting)
      BY <1>a, <1>4, <2>1 DEF CountedSays, TypeOK, signal, inc_count_fn, Return,
          SignalPc, WaitPc, timerVars
    <3>2. InFlight' = InFlight /\ Waiting' = Waiting
      BY <3>1
    <3> QED BY <1>4, <1>b, <2>1, <3>2 DEF signal, inc_count_fn, CS!Signal
  <2>2. CASE waiters > 0
    <3>1. \A y : (y \in InFlight' <=> y \in InFlight \/ y = c) /\ (y \in Waiting' <=> y \in Waiting)
      BY <1>a, <1>4, <2>2 DEF CountedSays, TypeOK, signal, inc_count_fn, Return,
          SignalPc, WaitPc, timerVars
    <3>2. c \notin InFlight
      BY <1>a, <1>4 DEF CountedSays, signal, SignalPc
    <3>3. Waiting' = Waiting
      BY <3>1
    <3>4. Cardinality(InFlight)' = Cardinality(InFlight) + 1
      BY <1>a, <3>1, <3>2, Added DEF CountsFinite
    <3>5. count' = count
      BY <1>4, <2>2 DEF signal, inc_count_fn
    <3> QED BY <1>b, <3>3, <3>4, <3>5 DEF CS!Signal
  <2> QED BY <1>4, <2>1, <2>2 DEF signal, inc_count_fn
<1>5. ASSUME NEW x \in Caller, pick_from_wait_q(x) PROVE UNCHANGED <<Permits, Waiting>>
  <2>0. /\ pc[x] = "pick" /\ pc' = [pc EXCEPT ![x] = "wait_and_pop"]
        /\ UNCHANGED <<current, owner>>
    BY <1>5, Untimed DEF pick_from_wait_q, Goto, timerVars
  <2>1. \A y : (y \in InFlight' <=> y \in InFlight) /\ (y \in Waiting' <=> y \in Waiting)
    BY <1>a, <2>0 DEF CountedSays, TypeOK, SignalPc, WaitPc
  <2>2. InFlight' = InFlight /\ Waiting' = Waiting
    BY <2>1
  <2> QED BY <1>5, <2>2 DEF pick_from_wait_q, valueVars, Permits
<1>6. ASSUME NEW x \in Caller, wait_and_pop(x) PROVE \E c \in Co : CS!Grant(c)
  <2>1. PICK c \in waitQ[slot[x]] : /\ waitQ' = [waitQ EXCEPT ![slot[x]] = @ \ {c}]
                                    /\ pc' = [pc EXCEPT ![x] = Return(x), ![c] = "run"]
    BY <1>6 DEF wait_and_pop
  <2>2. c \in Co /\ pc[c] = "parked" /\ pc[x] = "wait_and_pop" /\ UNCHANGED <<count, current, owner>>
    BY <1>6, <2>1 DEF TypeOK, PlaceInv, ParkSays, wait_and_pop, valueVars, timerVars
  <2>3. \A k \in Timer : current[k] = NoTask
    BY Untimed
  <2>4. c \in Waiting /\ x \in InFlight
    BY <1>a, <2>2, <2>3 DEF CountedSays, SignalPc, WaitPc
  <2>5. /\ pc'[x] = Return(x) /\ pc'[c] = "run" /\ x # c
        /\ \A y \in Caller : y # x /\ y # c => pc'[y] = pc[y]
    BY <2>1, <2>2 DEF TypeOK
  <2>6. pc[x] \notin WaitPc /\ pc'[c] \notin WaitPc /\ pc'[x] \notin WaitPc
    BY <2>2, <2>5 DEF WaitPc, Return
  <2>7. \A y : y \in Waiting' <=> y \in Waiting /\ y # c
    BY <1>a, <2>2, <2>3, <2>5, <2>6 DEF CountedSays
  <2>8. Waiting' = Waiting \ {c}
    BY <2>7
  <2>9. Cardinality(InFlight)' = Cardinality(InFlight) + (-1)
    BY <1>a, <2>1, <2>2, <2>3, WokenBySignal DEF SignalPc
  <2>10. Cardinality(InFlight) > 0
    BY <1>a, <2>4, FS_EmptySet DEF CountsFinite
  <2> QED BY <1>b, <2>2, <2>4, <2>8, <2>9, <2>10 DEF CS!Grant
<1>7. ASSUME NEW x \in Caller, cancel(x) PROVE FALSE
  BY <1>7, Untimed DEF cancel, PlaceInv, GotSays
<1>8. ASSUME NEW k \in Timer, NEW ts \in SUBSET armed[k], pick_all_expired(k, ts) PROVE FALSE
  BY <1>8, Untimed DEF pick_all_expired
<1>9. ASSUME NEW k \in Timer, timer_callback_fn(k) PROVE FALSE
  BY <1>9, Untimed DEF timer_callback_fn
<1>10. ASSUME NEW k \in Timer, timeout_apply(k) PROVE FALSE
  BY <1>10, Untimed DEF timeout_apply, PlaceInv, TimerSays
<1>11. CASE UNCHANGED vars
  <2>1. UNCHANGED <<InFlight, Waiting>>
    BY <1>11 DEF vars, valueVars, queueVars, timerVars, InFlight, Waiting, TimedOut
  <2> QED BY <1>11, <2>1 DEF vars, valueVars, Permits
<1> QED BY <1>1, <1>2, <1>3, <1>4, <1>5, <1>6, <1>7, <1>8, <1>9, <1>10, <1>11
  DEF Next, UserStep, WaitStep, SignalStep, TickStep, wait, wait_for, try_wait, CS!Next

(* Without timed waits Sem_t is the counting semaphore of its callers (the  *)
(* safety half of ImplementsSemaphore): a wait takes a permit at once or is *)
(* granted one later, a signal adds exactly one.                            *)
THEOREM SemaphoreCounts == ASSUME Task = {} PROVE Spec => CS!Spec
<1>1. Init => CS!Init
  <2> SUFFICES ASSUME Init PROVE CS!Init
    OBVIOUS
  <2>1. InFlight = {} /\ Waiting = {}
    BY InitPlaces, Counted, SemaphoreAssumption DEF Init, CountedSays, Caller, SignalPc,
        WaitPc
  <2> QED BY <2>1, FS_EmptySet, SemaphoreAssumption DEF Init, CS!Init
<1>2. TypeOK /\ PlaceInv /\ [Next]_vars => [CS!Next]_(<<count + Cardinality(InFlight), Waiting>>)
  BY NextPlaces, UntimedStep DEF Permits
<1> QED BY InitPlaces, NextPlaces, <1>1, <1>2, PTL DEF Spec, CS!Spec
=============================================================================
