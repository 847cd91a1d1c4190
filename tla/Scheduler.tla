------------------------------ MODULE Scheduler ------------------------------
(***************************************************************************)
(* The ready-queue protocol of sched/Scheduler.cpp and                     *)
(* sched/SchedManager.cpp: how a coroutine is handed to a scheduler        *)
(* (apply), how a scheduler takes the next one (pickup_ready), how idle    *)
(* schedulers steal, and how a coroutine enters and leaves its stack       *)
(* (run, process_co_exec_end).                                             *)
(*                                                                         *)
(* Every scheduler is an OS thread.  Timer threads are the other threads   *)
(* that call SchedManager::apply: the tick threads of Timer and the        *)
(* thread of Epoller.  A thread's position in the code is pc[t], named     *)
(* after the function it is in; the thread-locals of the code (co,         *)
(* res, buf_co, trans_size, the loop index of stealing_work) are arg,      *)
(* bag, trans and victim.                                                  *)
(*                                                                         *)
(* A heap or a lock-free queue is the set of the coroutines in it: which   *)
(* one comes first is a matter of priority, and every choice is allowed.   *)
(***************************************************************************)
EXTENDS Integers, FiniteSets

CONSTANTS
  CPU_CORE,            \* number of schedulers (CMakeLists.txt: 6)
  TIMERS,              \* number of other threads that wake coroutines
  Co,                  \* addresses at which a Co_t may live
  MainCo,              \* the coroutine Coroutine.cpp:init makes of main()
  NoCo,                \* nullptr
  APPLY_BUFFER_SIZE    \* capacity of Scheduler::buffer (128)

ASSUME ConstantsAssumption ==
  /\ CPU_CORE \in Nat \ {0}
  /\ TIMERS \in Nat
  /\ IsFiniteSet(Co)
  /\ MainCo \in Co
  /\ NoCo \notin Co
  /\ APPLY_BUFFER_SIZE \in Nat \ {0}

Sched  == 0 .. CPU_CORE - 1
Timer  == CPU_CORE .. CPU_CORE + TIMERS - 1
Thread == 0 .. CPU_CORE + TIMERS - 1
None   == -1           \* occupy_thread == -1, an unlocked lock, no scheduler

VARIABLES
  ready,         \* ready[s]: the heap Scheduler::ready
  readyCount,    \* Scheduler::ready_count
  buffer,        \* Scheduler::buffer
  semReady,      \* value of Scheduler::sem_ready
  schedLock,     \* the thread that holds Scheduler::sched_lock, or None
  status,        \* Co_t::status; an unused address counts as DEAD
  scheduler,     \* Co_t::scheduler (the scheduler's index, None for nullptr)
  occupyThread,  \* Co_t::sched.occupy_thread
  stkActive,     \* Co_t::stk_active_lock is held
  parked,        \* coroutines in a wait queue, a timer or an await list
  pc,            \* where each thread is
  arg,           \* the coroutine being applied
  target,        \* the scheduler it is applied to
  bag,           \* the thread's local vector of coroutines
  current,       \* the coroutine a scheduler has picked or runs
  victim,        \* loop index of stealing_work
  trans          \* trans_size of pull_half_co

queueVars  == <<ready, readyCount, buffer, semReady, schedLock>>
coVars     == <<status, scheduler, occupyThread, stkActive, parked>>
threadVars == <<pc, arg, target, bag, current, victim, trans>>
vars == <<queueVars, coVars, threadVars>>

Status == {"NEW", "READY", "RUNNING", "INTERRUPT", "WAITING", "DEAD"}

ApplyPc  == {"apply", "tryLock", "push", "lazy", "drain", "ovLock", "ovPush", "signal"}
BufferPc == {"checkBuf", "pullLock", "pullTest", "pull", "pullPop", "pbLock", "pbPush"}
PickPc   == {"pick", "steal", "stealLock", "stealMove", "stLock", "stPush", "try2",
             "block", "end", "endSteal", "start"} \cup BufferPc
CoPc     == {"run", "leave", "dying", "idle"}
Pc       == ApplyPc \cup PickPc \cup CoPc \cup {"abort"}

TypeOK ==
  /\ ready \in [Sched -> SUBSET Co]
  /\ readyCount \in [Sched -> Int]
  /\ buffer \in [Sched -> SUBSET Co]
  /\ semReady \in [Sched -> Nat]
  /\ schedLock \in [Sched -> Thread \cup {None}]
  /\ status \in [Co -> Status]
  /\ scheduler \in [Co -> Sched \cup {None}]
  /\ occupyThread \in [Co -> Sched \cup {None}]
  /\ stkActive \in [Co -> BOOLEAN]
  /\ parked \in SUBSET Co
  /\ pc \in [Thread -> Pc]
  /\ arg \in [Thread -> Co \cup {NoCo}]
  /\ target \in [Thread -> Sched \cup {None}]
  /\ bag \in [Thread -> SUBSET Co]
  /\ current \in [Sched -> Co \cup {NoCo}]
  /\ victim \in [Sched -> 0 .. CPU_CORE]
  /\ trans \in [Sched -> Nat]

-----------------------------------------------------------------------------
(* Every scheduler thread enters Scheduler::start, except that the main     *)
(* thread first applies the coroutine it has made of main() to itself.      *)

Home == 0

Init ==
  /\ ready = [s \in Sched |-> {}]
  /\ readyCount = [s \in Sched |-> 0]
  /\ buffer = [s \in Sched |-> {}]
  /\ semReady = [s \in Sched |-> 0]
  /\ schedLock = [s \in Sched |-> None]
  /\ status = [c \in Co |-> IF c = MainCo THEN "NEW" ELSE "DEAD"]
  /\ scheduler = [c \in Co |-> None]
  /\ occupyThread = [c \in Co |-> IF c = MainCo THEN Home ELSE None]
  /\ stkActive = [c \in Co |-> FALSE]
  /\ parked = {}
  /\ pc = [t \in Thread |-> IF t = Home THEN "apply" ELSE IF t \in Sched THEN "pick" ELSE "idle"]
  /\ arg = [t \in Thread |-> IF t = Home THEN MainCo ELSE NoCo]
  /\ target = [t \in Thread |-> None]
  /\ bag = [t \in Thread |-> {}]
  /\ current = [s \in Sched |-> NoCo]
  /\ victim = [s \in Sched |-> 0]
  /\ trans = [s \in Sched |-> 0]

Goto(t, from, to) == pc[t] = from /\ pc' = [pc EXCEPT ![t] = to]

(* The coroutines cs get the fields f of a new scheduler entry.             *)
SetAll(f, cs, v) == [c \in Co |-> IF c \in cs THEN v ELSE f[c]]

(* status := READY and scheduler := this for every coroutine of cs.         *)
get_ready_to_push(s, cs) ==
  /\ status' = SetAll(status, cs, "READY")
  /\ scheduler' = SetAll(scheduler, cs, s)

-----------------------------------------------------------------------------
(* What a running coroutine and a timer thread do.                          *)

(* co::create: a Co_t is constructed at a free address and applied.         *)
Create(s, c) ==
  /\ Goto(s, "run", "apply")
  /\ status[c] = "DEAD" /\ c # MainCo
  /\ \A i \in Sched : current[i] # c
  /\ status' = [status EXCEPT ![c] = "NEW"]
  /\ scheduler' = [scheduler EXCEPT ![c] = None]
  /\ occupyThread' = [occupyThread EXCEPT ![c] = None]
  /\ arg' = [arg EXCEPT ![s] = c]
  /\ UNCHANGED <<queueVars, stkActive, parked, target, bag, current, victim, trans>>

(* A waiting coroutine is claimed by whoever wakes it (Sem_t::signal, an    *)
(* expired TimerTask, wakeup_await_co_all of a dying coroutine) and applied.*)
Wake(t, c) ==
  /\ pc[t] \in {"run", "dying", "idle"}
  /\ c \in parked
  /\ parked' = parked \ {c}
  /\ arg' = [arg EXCEPT ![t] = c]
  /\ pc' = [pc EXCEPT ![t] = "apply"]
  /\ UNCHANGED <<queueVars, status, scheduler, occupyThread, stkActive, target, bag,
                 current, victim, trans>>

(* Mutant: the coroutine enters the wait queue before interrupt(). *)
WaitOn_still_running(s) ==
  LET c == current[s] IN
  /\ Goto(s, "run", "leave")
  /\ UNCHANGED status
  /\ scheduler' = [scheduler EXCEPT ![c] = None]
  /\ parked' = parked \cup {c}
  /\ UNCHANGED <<queueVars, occupyThread, stkActive, arg, target, bag, current,
                 victim, trans>>

(* Sem_t::wait_impl: the coroutine is WAITING, out of its scheduler and in  *)
(* a wait queue while its thread is still on its stack.                     *)
WaitOn(s) ==
  LET c == current[s] IN
  /\ Goto(s, "run", "leave")
  /\ status' = [status EXCEPT ![c] = "WAITING"]
  /\ scheduler' = [scheduler EXCEPT ![c] = None]
  /\ parked' = parked \cup {c}
  /\ UNCHANGED <<queueVars, occupyThread, stkActive, arg, target, bag, current,
                 victim, trans>>

(* The swap to the scheduler's context and process_co_exec_end.             *)
process_co_exec_end(s) ==
  /\ Goto(s, "leave", "pick")
  /\ stkActive' = [stkActive EXCEPT ![current[s]] = FALSE]
  /\ current' = [current EXCEPT ![s] = NoCo]
  /\ UNCHANGED <<queueVars, status, scheduler, occupyThread, parked, arg, target,
                 bag, victim, trans>>

(* co::sleep and co::await: off the stack first, then WAITING in the timer  *)
(* or in the callee's list.  Only coroutine_sleep calls                     *)
(* remove_from_scheduler.                                                   *)
coroutine_sleep(s) ==
  LET c == current[s] IN
  /\ Goto(s, "run", "pick")
  /\ stkActive' = [stkActive EXCEPT ![c] = FALSE]
  /\ status' = [status EXCEPT ![c] = "WAITING"]
  /\ scheduler' = [scheduler EXCEPT ![c] = None]
  /\ parked' = parked \cup {c}
  /\ current' = [current EXCEPT ![s] = NoCo]
  /\ UNCHANGED <<queueVars, occupyThread, arg, target, bag, victim, trans>>

coroutine_await(s) ==
  LET c == current[s] IN
  /\ Goto(s, "run", "pick")
  /\ stkActive' = [stkActive EXCEPT ![c] = FALSE]
  /\ status' = [status EXCEPT ![c] = "WAITING"]
  /\ parked' = parked \cup {c}
  /\ current' = [current EXCEPT ![s] = NoCo]
  /\ UNCHANGED <<queueVars, scheduler, occupyThread, arg, target, bag, victim, trans>>

coroutine_yield(s) ==
  LET c == current[s] IN
  /\ Goto(s, "run", "apply")
  /\ stkActive' = [stkActive EXCEPT ![c] = FALSE]
  /\ status' = [status EXCEPT ![c] = "INTERRUPT"]
  /\ scheduler' = [scheduler EXCEPT ![c] = None]
  /\ current' = [current EXCEPT ![s] = NoCo]
  /\ arg' = [arg EXCEPT ![s] = c]
  /\ UNCHANGED <<queueVars, occupyThread, parked, target, bag, victim, trans>>

(* co::wrap, then coroutine_dead: its awaiting callers are applied (Wake)   *)
(* before the handle is let go.                                             *)
coroutine_dead(s) ==
  LET c == current[s] IN
  /\ Goto(s, "run", "dying")
  /\ c # MainCo
  /\ stkActive' = [stkActive EXCEPT ![c] = FALSE]
  /\ status' = [status EXCEPT ![c] = "DEAD"]
  /\ UNCHANGED <<queueVars, scheduler, occupyThread, parked, arg, target, bag,
                 current, victim, trans>>

dead_end(s) ==
  /\ Goto(s, "dying", "pick")
  /\ current' = [current EXCEPT ![s] = NoCo]
  /\ UNCHANGED <<queueVars, coVars, arg, target, bag, victim, trans>>

-----------------------------------------------------------------------------
(* SchedManager::apply_impl and Scheduler::apply_ready.                     *)

(* apply_impl throws for a RUNNING coroutine and asserts that a READY one   *)
(* is in no scheduler.                                                      *)
Rejected(c) == \/ status[c] = "RUNNING"
               \/ status[c] = "READY" /\ scheduler[c] # None

(* Back to the thread it belongs to, or to a scheduler whose load looked    *)
(* least when get_load read it: the loads are read one after the other,     *)
(* without a lock, so any scheduler may be the one.                         *)
apply_impl(t, s) ==
  LET c == arg[t] IN
  /\ Goto(t, "apply", "tryLock")
  /\ ~Rejected(c)
  /\ occupyThread[c] \in {None, s}
  /\ occupyThread' = [occupyThread EXCEPT ![c] = s]
  /\ target' = [target EXCEPT ![t] = s]
  /\ get_ready_to_push(s, {c})
  /\ UNCHANGED <<queueVars, stkActive, parked, arg, bag, current, victim, trans>>

Acquire(t, s, from, to) ==
  /\ Goto(t, from, to)
  /\ schedLock[s] = None
  /\ schedLock' = [schedLock EXCEPT ![s] = t]

(* try_lock_for_backoff gives up only after it has seen the lock held.      *)
try_lock(t) ==
  /\ \/ Acquire(t, target[t], "tryLock", "push")
     \/ /\ Goto(t, "tryLock", "lazy")
        /\ schedLock[target[t]] # None
        /\ UNCHANGED schedLock
  /\ UNCHANGED <<ready, readyCount, buffer, semReady, coVars, arg, target, bag,
                 current, victim, trans>>

(* push_to_ready, then unlock.                                              *)
push_to_ready(t) ==
  LET s == target[t] IN
  /\ Goto(t, "push", "signal")
  /\ ready' = [ready EXCEPT ![s] = @ \cup {arg[t]}]
  /\ readyCount' = [readyCount EXCEPT ![s] = @ + 1]
  /\ schedLock' = [schedLock EXCEPT ![s] = None]
  /\ UNCHANGED <<buffer, semReady, coVars, arg, target, bag, current, victim, trans>>

(* apply_ready_lazy: into the buffer, or, when it is full, the buffer is    *)
(* emptied into a vector.                                                   *)
apply_ready_lazy(t) ==
  LET s == target[t] IN
  /\ \/ /\ Goto(t, "lazy", "signal")
        /\ Cardinality(buffer[s]) < APPLY_BUFFER_SIZE
        /\ buffer' = [buffer EXCEPT ![s] = @ \cup {arg[t]}]
     \/ /\ Goto(t, "lazy", "drain")
        /\ Cardinality(buffer[s]) = APPLY_BUFFER_SIZE
        /\ UNCHANGED buffer
  /\ UNCHANGED <<ready, readyCount, semReady, schedLock, coVars, arg, target, bag,
                 current, victim, trans>>

(* pull_from_buffer pops one coroutine at a time into the local vector.     *)
PopBuffer(t, s, at, c) ==
  /\ pc[t] = at
  /\ c \in buffer[s]
  /\ Cardinality(bag[t]) < APPLY_BUFFER_SIZE
  /\ buffer' = [buffer EXCEPT ![s] = @ \ {c}]
  /\ bag' = [bag EXCEPT ![t] = @ \cup {c}]
  /\ UNCHANGED <<ready, readyCount, semReady, schedLock, coVars, pc, arg, target,
                 current, victim, trans>>

PopDone(t, s) == buffer[s] = {} \/ Cardinality(bag[t]) >= APPLY_BUFFER_SIZE

(* Mutant: buf_co.push_back(co) is missing. *)
drain_end_drops_co(t) ==
  LET s == target[t]
      all == bag[t] \cup {arg[t]} IN
  /\ Goto(t, "drain", "ovLock")
  /\ PopDone(t, s)
  /\ get_ready_to_push(s, all)
  /\ UNCHANGED bag
  /\ UNCHANGED <<queueVars, occupyThread, stkActive, parked, arg, target, current,
                 victim, trans>>

drain_end(t) ==
  LET s == target[t]
      all == bag[t] \cup {arg[t]} IN
  /\ Goto(t, "drain", "ovLock")
  /\ PopDone(t, s)
  /\ bag' = [bag EXCEPT ![t] = all]
  /\ get_ready_to_push(s, all)
  /\ UNCHANGED <<queueVars, occupyThread, stkActive, parked, arg, target, current,
                 victim, trans>>

overflow_lock(t) ==
  /\ Acquire(t, target[t], "ovLock", "ovPush")
  /\ UNCHANGED <<ready, readyCount, buffer, semReady, coVars, arg, target, bag,
                 current, victim, trans>>

(* push_all_to_ready: the heap takes the vector, which is gone.             *)
push_all_to_ready(t, s) ==
  /\ ready' = [ready EXCEPT ![s] = @ \cup bag[t]]
  /\ readyCount' = [readyCount EXCEPT ![s] = @ + Cardinality(bag[t])]
  /\ bag' = [bag EXCEPT ![t] = {}]

(* Mutant: apply_ready_all is called with from_buffer false. *)
overflow_push_signals(t) ==
  LET s == target[t] IN
  /\ Goto(t, "ovPush", "signal")
  /\ push_all_to_ready(t, s)
  /\ schedLock' = [schedLock EXCEPT ![s] = None]
  /\ semReady' = [semReady EXCEPT ![s] = @ + Cardinality(bag[t])]
  /\ UNCHANGED <<buffer, coVars, arg, target, current, victim, trans>>

overflow_push(t) ==
  LET s == target[t] IN
  /\ Goto(t, "ovPush", "signal")
  /\ push_all_to_ready(t, s)
  /\ schedLock' = [schedLock EXCEPT ![s] = None]
  /\ UNCHANGED <<buffer, semReady, coVars, arg, target, current, victim, trans>>

(* Where the caller of apply goes on: a timer thread, coroutine_yield (and  *)
(* the start of the main thread), coroutine_dead, or the running coroutine. *)
Return(t) ==
  CASE t \in Timer -> "idle"
    [] t \in Sched /\ current[t] = NoCo -> "pick"
    [] t \in Sched /\ current[t] # NoCo /\ status[current[t]] = "DEAD" -> "dying"
    [] OTHER -> "run"

(* Mutant: only a scheduler that looks asleep is signalled. *)
signal_if_asleep(t) ==
  /\ Goto(t, "signal", Return(t))
  /\ semReady' = [semReady EXCEPT ![target[t]] = IF pc[target[t]] = "block" THEN @ + 1 ELSE @]
  /\ arg' = [arg EXCEPT ![t] = NoCo]
  /\ target' = [target EXCEPT ![t] = None]
  /\ UNCHANGED <<ready, readyCount, buffer, schedLock, coVars, bag, current, victim,
                 trans>>

(* sem_ready.signal() and the return from apply.                            *)
signal(t) ==
  /\ Goto(t, "signal", Return(t))
  /\ semReady' = [semReady EXCEPT ![target[t]] = @ + 1]
  /\ arg' = [arg EXCEPT ![t] = NoCo]
  /\ target' = [target EXCEPT ![t] = None]
  /\ UNCHANGED <<ready, readyCount, buffer, schedLock, coVars, bag, current, victim,
                 trans>>

-----------------------------------------------------------------------------
(* Scheduler::pickup_ready, from the first try_wait to the second.          *)

pick_try_wait(s) ==
  /\ \/ /\ semReady[s] > 0
        /\ Goto(s, "pick", "checkBuf")
        /\ semReady' = [semReady EXCEPT ![s] = @ - 1]
     \/ /\ semReady[s] = 0
        /\ Goto(s, "pick", "steal")
        /\ UNCHANGED semReady
  /\ UNCHANGED <<ready, readyCount, buffer, schedLock, coVars, arg, target, bag, current,
                 victim, trans>>

NextVictim(s) == victim' = [victim EXCEPT ![s] = @ + 1]

(* pull_half_co first reads ready.empty() without the lock: while another   *)
(* thread holds it and changes the heap, either answer may come out.        *)
steal_look(s) ==
  LET v == victim[s] IN
  /\ v < CPU_CORE
  /\ \/ /\ v = s \/ ready[v] = {} \/ schedLock[v] # None
        /\ pc[s] = "steal"
        /\ NextVictim(s)
        /\ UNCHANGED pc
     \/ /\ v # s /\ (ready[v] # {} \/ schedLock[v] # None)
        /\ Goto(s, "steal", "stealLock")
        /\ UNCHANGED victim
  /\ UNCHANGED <<queueVars, coVars, arg, target, bag, current, trans>>

steal_lock(s) ==
  /\ Acquire(s, victim[s], "stealLock", "stealMove")
  /\ trans' = [trans EXCEPT ![s] = 0]
  /\ UNCHANGED <<ready, readyCount, buffer, semReady, coVars, arg, target, bag,
                 current, victim>>

(* Mutant: a thief takes everything. *)
PullCount_all(s) == Cardinality(ready[victim[s]]) + trans[s]

(* pull_count: half of what was ready when the lock was taken.              *)
PullCount(s) == (Cardinality(ready[victim[s]]) + trans[s]) \div 2

(* Mutant: a thief does not look whether its try_wait succeeded. *)
steal_one_unchecked(s, c) ==
  LET v == victim[s] IN
  /\ pc[s] = "stealMove"
  /\ trans[s] < PullCount(s)
  /\ c \in ready[v]
  /\ semReady' = [semReady EXCEPT ![v] = @ - 1]
  /\ ready' = [ready EXCEPT ![v] = @ \ {c}]
  /\ bag' = [bag EXCEPT ![s] = @ \cup {c}]
  /\ scheduler' = [scheduler EXCEPT ![c] = None]
  /\ occupyThread' = [occupyThread EXCEPT ![c] = None]
  /\ trans' = [trans EXCEPT ![s] = @ + 1]
  /\ UNCHANGED <<readyCount, buffer, schedLock, status, stkActive, parked, pc, arg,
                 target, current, victim>>

(* Mutant: the coroutine stays in the victim's heap. *)
steal_one_copies(s, c) ==
  LET v == victim[s] IN
  /\ pc[s] = "stealMove"
  /\ trans[s] < PullCount(s)
  /\ semReady[v] > 0
  /\ c \in ready[v]
  /\ semReady' = [semReady EXCEPT ![v] = @ - 1]
  /\ bag' = [bag EXCEPT ![s] = @ \cup {c}]
  /\ scheduler' = [scheduler EXCEPT ![c] = None]
  /\ occupyThread' = [occupyThread EXCEPT ![c] = None]
  /\ trans' = [trans EXCEPT ![s] = @ + 1]
  /\ UNCHANGED <<ready, readyCount, buffer, schedLock, status, stkActive, parked, pc,
                 arg, target, current, victim>>

(* One round of pull_half_co's loop: a token and a coroutine.               *)
steal_one(s, c) ==
  LET v == victim[s] IN
  /\ pc[s] = "stealMove"
  /\ trans[s] < PullCount(s)
  /\ semReady[v] > 0
  /\ c \in ready[v]
  /\ semReady' = [semReady EXCEPT ![v] = @ - 1]
  /\ ready' = [ready EXCEPT ![v] = @ \ {c}]
  /\ bag' = [bag EXCEPT ![s] = @ \cup {c}]
  /\ scheduler' = [scheduler EXCEPT ![c] = None]
  /\ occupyThread' = [occupyThread EXCEPT ![c] = None]
  /\ trans' = [trans EXCEPT ![s] = @ + 1]
  /\ UNCHANGED <<readyCount, buffer, schedLock, status, stkActive, parked, pc, arg,
                 target, current, victim>>

(* Mutant: ready_count -= trans_size is missing. *)
steal_unlock_keeps_count(s) ==
  LET v == victim[s] IN
  /\ Goto(s, "stealMove", "steal")
  /\ trans[s] >= PullCount(s) \/ semReady[v] = 0
  /\ schedLock' = [schedLock EXCEPT ![v] = None]
  /\ trans' = [trans EXCEPT ![s] = 0]
  /\ NextVictim(s)
  /\ UNCHANGED <<ready, readyCount, buffer, semReady, coVars, arg, target, bag, current>>

steal_unlock(s) ==
  LET v == victim[s] IN
  /\ Goto(s, "stealMove", "steal")
  /\ trans[s] >= PullCount(s) \/ semReady[v] = 0
  /\ readyCount' = [readyCount EXCEPT ![v] = @ - trans[s]]
  /\ schedLock' = [schedLock EXCEPT ![v] = None]
  /\ trans' = [trans EXCEPT ![s] = 0]
  /\ NextVictim(s)
  /\ UNCHANGED <<ready, buffer, semReady, coVars, arg, target, bag, current>>

(* Mutant: the loot is not bound to the thief. *)
steal_end_keeps_owner(s) ==
  /\ victim[s] = CPU_CORE
  /\ \/ /\ Goto(s, "steal", "try2")
        /\ bag[s] = {}
        /\ UNCHANGED coVars
     \/ /\ Goto(s, "steal", "stLock")
        /\ bag[s] # {}
        /\ get_ready_to_push(s, bag[s])
        /\ UNCHANGED <<occupyThread, stkActive, parked>>
  /\ victim' = [victim EXCEPT ![s] = 0]
  /\ UNCHANGED <<queueVars, arg, target, bag, current, trans>>

(* The loot belongs to this thread now; apply_ready_all does nothing for an *)
(* empty vector.                                                            *)
steal_end(s) ==
  /\ victim[s] = CPU_CORE
  /\ \/ /\ Goto(s, "steal", "try2")
        /\ bag[s] = {}
        /\ UNCHANGED coVars
     \/ /\ Goto(s, "steal", "stLock")
        /\ bag[s] # {}
        /\ occupyThread' = SetAll(occupyThread, bag[s], s)
        /\ get_ready_to_push(s, bag[s])
        /\ UNCHANGED <<stkActive, parked>>
  /\ victim' = [victim EXCEPT ![s] = 0]
  /\ UNCHANGED <<queueVars, arg, target, bag, current, trans>>

loot_lock(s) ==
  /\ Acquire(s, s, "stLock", "stPush")
  /\ UNCHANGED <<ready, readyCount, buffer, semReady, coVars, arg, target, bag,
                 current, victim, trans>>

(* apply_ready_all with unlock_exit false: the lock is kept, the tokens     *)
(* follow.                                                                  *)
loot_push(s) ==
  /\ Goto(s, "stPush", "try2")
  /\ push_all_to_ready(s, s)
  /\ semReady' = [semReady EXCEPT ![s] = @ + Cardinality(bag[s])]
  /\ UNCHANGED <<buffer, schedLock, coVars, arg, target, current, victim, trans>>

(* The second try_wait: a token leads past the buffer, to                   *)
(* end_pull_from_buffer; without one the lock is dropped.                   *)
second_try_wait(s) ==
  /\ \/ /\ semReady[s] > 0
        /\ Goto(s, "try2", "endSteal")
        /\ semReady' = [semReady EXCEPT ![s] = @ - 1]
        /\ UNCHANGED schedLock
     \/ /\ semReady[s] = 0
        /\ Goto(s, "try2", "block")
        /\ schedLock' = [schedLock EXCEPT ![s] = IF @ = s THEN None ELSE @]
        /\ UNCHANGED semReady
  /\ UNCHANGED <<ready, readyCount, buffer, coVars, arg, target, bag, current,
                 victim, trans>>

(* sem_ready.wait().                                                        *)
sem_wait(s) ==
  /\ Goto(s, "block", "checkBuf")
  /\ semReady[s] > 0
  /\ semReady' = [semReady EXCEPT ![s] = @ - 1]
  /\ UNCHANGED <<ready, readyCount, buffer, schedLock, coVars, arg, target, bag,
                 current, victim, trans>>

-----------------------------------------------------------------------------
(* pickup_ready, the buffer stage and the end.                              *)

(* The unlocked reads of ready_count: a zero leads to the lock the first    *)
(* time and to the buffer the second time.                                  *)
check_ready_count(s) ==
  /\ \/ Goto(s, "checkBuf", IF readyCount[s] = 0 THEN "pullLock" ELSE "pull")
     \/ Goto(s, "pull", IF readyCount[s] = 0 THEN "pullPop" ELSE "end")
  /\ UNCHANGED <<queueVars, coVars, arg, target, bag, current, victim, trans>>

recheck_lock(s) ==
  /\ Acquire(s, s, "pullLock", "pullTest")
  /\ UNCHANGED <<ready, readyCount, buffer, semReady, coVars, arg, target, bag,
                 current, victim, trans>>

(* Mutant: the lock is kept while the buffer is pulled. *)
recheck_keeps_lock(s) ==
  /\ \/ /\ readyCount[s] > 0
        /\ Goto(s, "pullTest", "end")
     \/ /\ ~(readyCount[s] > 0)
        /\ Goto(s, "pullTest", "pull")
  /\ UNCHANGED <<queueVars, coVars, arg, target, bag, current, victim, trans>>

recheck(s) ==
  /\ \/ /\ readyCount[s] > 0
        /\ Goto(s, "pullTest", "end")
        /\ UNCHANGED schedLock
     \/ /\ ~(readyCount[s] > 0)
        /\ Goto(s, "pullTest", "pull")
        /\ schedLock' = [schedLock EXCEPT ![s] = None]
  /\ UNCHANGED <<ready, readyCount, buffer, semReady, coVars, arg, target, bag,
                 current, victim, trans>>

pull_end(s) ==
  /\ PopDone(s, s)
  /\ \/ /\ Goto(s, "pullPop", "pull")
        /\ bag[s] = {}
        /\ UNCHANGED coVars
     \/ /\ Goto(s, "pullPop", "pbLock")
        /\ bag[s] # {}
        /\ get_ready_to_push(s, bag[s])
        /\ UNCHANGED <<occupyThread, stkActive, parked>>
  /\ UNCHANGED <<queueVars, arg, target, bag, current, victim, trans>>

buffer_lock(s) ==
  /\ Acquire(s, s, "pbLock", "pbPush")
  /\ UNCHANGED <<ready, readyCount, buffer, semReady, coVars, arg, target, bag,
                 current, victim, trans>>

buffer_push(s) ==
  /\ Goto(s, "pbPush", "end")
  /\ push_all_to_ready(s, s)
  /\ UNCHANGED <<buffer, semReady, schedLock, coVars, arg, target, current, victim,
                 trans>>

(* The end of pickup_ready: the lock is taken unless it is already held.    *)
end_lock(s) ==
  /\ pc[s] \in {"end", "endSteal"}
  /\ Acquire(s, s, pc[s], pc[s])
  /\ UNCHANGED <<ready, readyCount, buffer, semReady, coVars, arg, target, bag,
                 current, victim, trans>>

(* assert(ans_list[0] || ans_list[1]): the process ends when the heap is    *)
(* empty, ...                                                               *)
pickup_assert(s) ==
  /\ pc[s] \in {"end", "endSteal"}
  /\ schedLock[s] = s
  /\ ready[s] = {}
  /\ pc' = [pc EXCEPT ![s] = "abort"]
  /\ readyCount' = [readyCount EXCEPT ![s] = @ - 1]
  /\ UNCHANGED <<ready, buffer, semReady, schedLock, coVars, arg, target, bag,
                 current, victim, trans>>

(* ... otherwise its top is taken out.                                      *)
pickup_pop(s, c) ==
  /\ pc[s] \in {"end", "endSteal"}
  /\ schedLock[s] = s
  /\ c \in ready[s]
  /\ pc' = [pc EXCEPT ![s] = "start"]
  /\ ready' = [ready EXCEPT ![s] = @ \ {c}]
  /\ readyCount' = [readyCount EXCEPT ![s] = @ - 1]
  /\ schedLock' = [schedLock EXCEPT ![s] = None]
  /\ current' = [current EXCEPT ![s] = c]
  /\ UNCHANGED <<buffer, semReady, coVars, arg, target, bag, victim, trans>>

(* Mutant: stk_active_lock is not taken. *)
run_without_stack_lock(s) ==
  LET c == current[s] IN
  /\ Goto(s, "start", "run")
  /\ status[c] = "READY"
  /\ stkActive' = [stkActive EXCEPT ![c] = TRUE]
  /\ status' = [status EXCEPT ![c] = "RUNNING"]
  /\ UNCHANGED <<queueVars, scheduler, occupyThread, parked, arg, target, bag,
                 current, victim, trans>>

(* Scheduler::run: the stack must have been left by the thread that ran it  *)
(* last.                                                                    *)
run(s) ==
  LET c == current[s] IN
  /\ Goto(s, "start", "run")
  /\ status[c] = "READY"
  /\ ~stkActive[c]
  /\ stkActive' = [stkActive EXCEPT ![c] = TRUE]
  /\ status' = [status EXCEPT ![c] = "RUNNING"]
  /\ UNCHANGED <<queueVars, scheduler, occupyThread, parked, arg, target, bag,
                 current, victim, trans>>

-----------------------------------------------------------------------------
Aborted == \E t \in Thread : pc[t] = "abort"

(* What user code chooses to do.                                            *)
CoStep(s) ==
  \/ \E c \in Co : Create(s, c)
  \/ WaitOn(s) \/ coroutine_sleep(s) \/ coroutine_await(s) \/ coroutine_yield(s)
  \/ coroutine_dead(s)

ApplyStep(t) ==
  \/ \E s \in Sched : apply_impl(t, s)
  \/ try_lock(t) \/ push_to_ready(t) \/ apply_ready_lazy(t)
  \/ \E s \in Sched, c \in Co : s = target[t] /\ PopBuffer(t, s, "drain", c)
  \/ drain_end(t) \/ overflow_lock(t) \/ overflow_push(t) \/ signal(t)

PickStep(s) ==
  \/ pick_try_wait(s)
  \/ steal_look(s) \/ steal_lock(s) \/ (\E c \in Co : steal_one(s, c)) \/ steal_unlock(s)
  \/ steal_end(s) \/ loot_lock(s) \/ loot_push(s) \/ second_try_wait(s) \/ sem_wait(s)
  \/ check_ready_count(s) \/ recheck_lock(s) \/ recheck(s)
  \/ (\E c \in Co : PopBuffer(s, s, "pullPop", c)) \/ pull_end(s)
  \/ buffer_lock(s) \/ buffer_push(s)
  \/ end_lock(s) \/ pickup_assert(s) \/ (\E c \in Co : pickup_pop(s, c))
  \/ run(s) \/ process_co_exec_end(s) \/ dead_end(s)

Next ==
  \/ /\ ~Aborted
     /\ \/ \E t \in Thread : ApplyStep(t) \/ \E c \in Co : Wake(t, c)
        \/ \E s \in Sched : CoStep(s) \/ PickStep(s)
  \/ /\ Aborted
     /\ UNCHANGED vars

(* The library's own steps go on, and a spin lock that is free again and    *)
(* again is taken at last.  Nothing is assumed of coroutines.               *)
LockStep(t) ==
  \/ overflow_lock(t)
  \/ t \in Sched /\ \/ steal_lock(t) \/ loot_lock(t) \/ recheck_lock(t)
                    \/ buffer_lock(t) \/ end_lock(t)

Fairness ==
  /\ \A t \in Thread : WF_vars(~Aborted /\ ApplyStep(t)) /\ SF_vars(~Aborted /\ LockStep(t))
  /\ \A s \in Sched : WF_vars(~Aborted /\ PickStep(s))

Spec == Init /\ [][Next]_vars
FairSpec == Spec /\ Fairness

-----------------------------------------------------------------------------
(* Where a coroutine is.                                                    *)

Place == ({"ready", "buffer", "current"} \X Sched)
         \cup ({"arg", "bag"} \X Thread) \cup ({"parked", "dead"} \X {Home})

(* Until push, lazy or drain_end the applying thread alone holds arg[t].    *)
HasArg(t) == pc[t] \in {"apply", "tryLock", "push", "lazy", "drain"}

(* A thread that leaves a stack has given its coroutine away already.       *)
Holds(s) == IF current[s] = NoCo \/ pc[s] = "leave" THEN {} ELSE {current[s]}

Contents(p) ==
  CASE p[1] = "ready"   -> ready[p[2]]
    [] p[1] = "buffer"  -> buffer[p[2]]
    [] p[1] = "current" -> Holds(p[2])
    [] p[1] = "arg"     -> IF HasArg(p[2]) THEN {arg[p[2]]} ELSE {}
    [] p[1] = "bag"     -> bag[p[2]]
    [] p[1] = "parked"  -> parked
    [] p[1] = "dead"    -> {c \in Co : status[c] = "DEAD" /\ \A s \in Sched : current[s] # c}

(* Every coroutine is in exactly one place: apply, the buffer, its          *)
(* overflow, stealing and pickup never lose one and never queue one twice.  *)
ExactlyOnePlace ==
  /\ \A p, q \in Place : p # q => Contents(p) \cap Contents(q) = {}
  /\ \A c \in Co : \E p \in Place : c \in Contents(p)

(* A scheduler with a token that it has not yet turned into a coroutine.    *)
HoldsToken(s) == pc[s] \in BufferPc \cup {"end", "endSteal", "abort"}

(* Threads that have handed a coroutine to s, or put it among those they    *)
(* are about to push there, and still owe s the signal.                     *)
Owing(s) == {t \in Thread : target[t] = s /\ pc[t] \in {"signal", "ovLock", "ovPush"}}

(* The vector of t holds coroutines on their way from the buffer of s to    *)
(* its heap.                                                                *)
Carries(t, s) == target[t] = s \/ (t = s /\ pc[s] \in BufferPc)

InTransit(s) == UNION {bag[t] : t \in {u \in Thread : Carries(u, s)}}

(* sem_ready never drifts from the work: what is queued at a scheduler is   *)
(* what its semaphore, the token it holds and the pending signals add up to.*)
TokensMatchWork ==
  \A s \in Sched :
    Cardinality(ready[s] \cup buffer[s] \cup InTransit(s))
      = semReady[s] + Cardinality(Owing(s)) + (IF HoldsToken(s) THEN 1 ELSE 0)

(* What a thief has taken out of s and not yet subtracted from its count.   *)
Robbed(s) == LET t == schedLock[s] IN
             IF t \in Sched /\ pc[t] = "stealMove" THEN trans[t] ELSE 0

(* ready_count is the size of the heap, up to the thief that holds the      *)
(* lock, and never runs below zero (until the assertion of pickup_ready has *)
(* failed).                                                                 *)
CountExact ==
  \A s \in Sched : pc[s] # "abort" => readyCount[s] = Cardinality(ready[s]) + Robbed(s)

(* A scheduler that went through the buffer stage finds a coroutine in its  *)
(* heap, although thieves empty it by half any number of times in between.  *)
BufferPathFindsCo == \A s \in Sched : pc[s] = "end" => ready[s] # {}

(* No two threads execute on the stack of one coroutine.                    *)
OnStack(s) == /\ current[s] # NoCo
              /\ \/ pc[s] = "leave"
                 \/ status[current[s]] # "DEAD" /\ pc[s] \in ApplyPc \cup {"run"}

StackExclusive ==
  \A s, u \in Sched : OnStack(s) /\ OnStack(u) /\ s # u => current[s] # current[u]

(* What a queued coroutine says about itself (status, scheduler and         *)
(* occupy_thread) is where it is queued.                                    *)
OwnerAgrees ==
  \A s \in Sched : \A c \in ready[s] \cup buffer[s] :
    status[c] = "READY" /\ scheduler[c] = s /\ occupyThread[c] = s

(* apply_impl never throws or asserts, and run asserts a READY coroutine.   *)
AssertionsHold ==
  /\ \A t \in Thread : pc[t] = "apply" => ~Rejected(arg[t])
  /\ \A s \in Sched : pc[s] = "start" => status[current[s]] = "READY"

(* A thread holds at most one sched_lock, and none while it runs a          *)
(* coroutine, waits for a token or waits for a stack.                       *)
Locked(t) == {s \in Sched : schedLock[s] = t}

LockDiscipline ==
  \A t \in Thread : /\ Cardinality(Locked(t)) <= 1
                    /\ pc[t] \in CoPc \cup {"pick", "block", "start"} => Locked(t) = {}

(* Scheduler.cpp:269: assert(ans_list[0] || ans_list[1]).                   *)
PickupAssertion ==
  \A s \in Sched : pc[s] \in {"end", "endSteal"} /\ schedLock[s] = s => ready[s] # {}

(* Coroutine.cpp:160: "occupy thread of main coroutine must be this thread":*)
(* no other thread picks the main coroutine.                                *)
MainStaysHome == \A s \in Sched : current[s] = MainCo => s = Home

(* The scheduler implements Dispatch: a coroutine is submitted when it      *)
(* becomes READY and executes while it is RUNNING.                          *)
queued == {c \in Co : status[c] = "READY"}

Executes(s) == current[s] # NoCo /\ status[current[s]] = "RUNNING" /\ pc[s] # "leave"

executing == [s \in Sched |-> IF Executes(s) THEN current[s] ELSE NoCo]

D == INSTANCE Dispatch WITH Worker <- Sched, Task <- Co, NoTask <- NoCo

ImplementsDispatch == D!Spec

(* A scheduler asleep in sem_ready.wait() with work in its heap or buffer   *)
(* is woken, or the work is stolen.                                         *)
BlockedIsWoken ==
  \A s \in Sched :
    (pc[s] = "block" /\ ready[s] \cup buffer[s] # {})
      ~> (pc[s] # "block" \/ ready[s] \cup buffer[s] = {} \/ Aborted)

(* A token always becomes an executed coroutine: the wait for the buffer,   *)
(* the lock and the stack all end.                                          *)
TokenRuns ==
  \A s \in Sched : HoldsToken(s) ~> (pc[s] = "run" \/ Aborted)

(* The schedulers never all sleep, and never steal from each other for ever,*)
(* while a coroutine waits to be executed.                                  *)
WorkConserved == queued # {} ~> (Aborted \/ \E s \in Sched : Executes(s))

(* Nobody sleeps beside work: neither the scheduler that has it nor all of  *)
(* them (sem_ready.wait, stealing_work).                                    *)
WorkWakes == BlockedIsWoken /\ WorkConserved
=============================================================================
