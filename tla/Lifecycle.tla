------------------------------ MODULE Lifecycle ------------------------------
(***************************************************************************)
(* A coroutine from create to destroy: Coroutine.cpp and Coroutine.h (the  *)
(* caller's side) and the callbacks of Scheduler.cpp that its scheduler    *)
(* runs after the coroutine has left its stack (the callee's side).        *)
(*                                                                         *)
(* pc[c] is the next step of the thread that executes c, its callback      *)
(* included; "none" when no thread does.  status_lock[c] holds the         *)
(* coroutine whose thread has the lock: an await takes the lock of the     *)
(* callee, and its callback releases it on the scheduler's stack.          *)
(* await_caller_lock is only ever taken by a holder of status_lock, so it  *)
(* is not a variable.  How a ready coroutine finds a scheduler is module   *)
(* Scheduler's subject: here it is applied, made ready and run by any of   *)
(* Workers threads.                                                        *)
(***************************************************************************)
EXTENDS Integers, FiniteSets

CONSTANTS
  Co,           \* coroutines; a destroyed one may be created again
  Main,         \* the main coroutine, which runs from the start
  None,         \* no coroutine
  Workers,      \* number of scheduler threads
  MaxOps,       \* bound: creates, awaits, yields and sleeps of a run
  ZeroSleep,    \* whether a sleep may last zero microseconds
  Careless      \* whether a handle may be destroyed before it was awaited

ASSUME LifecycleAssumption ==
  /\ Main \in Co /\ None \notin Co
  /\ Workers \in Nat \ {0} /\ MaxOps \in Nat
  /\ ZeroSleep \in BOOLEAN /\ Careless \in BOOLEAN

VARIABLES
  status, status_lock, await_caller,   \* fields of Co_t
  invoker,      \* where the invoker of a coroutine is: "pool", "frame"
  alive,        \* coroutines whose Co_t exists
  stack,        \* coroutines that have a stack
  owner,        \* the coroutine that holds the handle
  joined,       \* handles whose await has returned
  written,      \* coroutines whose function has returned: buf has its value
  pc, handle,   \* handle: the argument of await_impl or destroy
  applying,     \* a coroutine that the thread puts into a ready queue itself
  buffer, ready, timer,
  sleep_zero,   \* the duration of the sleep is zero
  ops,
  thrown        \* the coroutine whose destroy threw: ~Co is noexcept

objectVars == <<status, status_lock, await_caller, invoker, alive, stack>>
userVars   == <<owner, joined, written, ops, thrown>>
queueVars  == <<applying, buffer, ready, timer>>
vars == <<objectVars, userVars, queueVars, pc, handle, sleep_zero>>

Status == {"NEW", "READY", "RUNNING", "INTERRUPT", "WAITING", "DEAD"}
Pc == {"none", "body", "lock", "await", "register", "releaseCaller",
       "releaseCallee", "returned", "yield", "applySelf", "sleep", "addTask",
       "dead", "wakeup", "freeStack", "finish", "waitLock", "check"}

TypeOK ==
  /\ status \in [Co -> Status]
  /\ status_lock \in [Co -> Co \cup {None}]
  /\ await_caller \in [Co -> SUBSET Co]
  /\ invoker \in [Co -> {"none", "pool", "frame"}]
  /\ \A s \in {alive, stack, joined, written, buffer, ready, timer, sleep_zero} :
        s \subseteq Co
  /\ owner \in [Co -> Co \cup {None}]
  /\ pc \in [Co -> Pc]
  /\ handle \in [Co -> Co \cup {None}]
  /\ applying \in [Co -> Co \cup {None}]
  /\ ops \in 0 .. MaxOps
  /\ thrown \in Co \cup {None}

(* After init: the main coroutine runs; it has the thread's own stack.      *)
Init ==
  /\ status = [c \in Co |-> IF c = Main THEN "RUNNING" ELSE "NEW"]
  /\ status_lock = [c \in Co |-> None]
  /\ await_caller = [c \in Co |-> {}]
  /\ invoker = [c \in Co |-> "none"]
  /\ alive = {Main} /\ stack = {Main}
  /\ owner = [c \in Co |-> None]
  /\ joined = {} /\ written = {} /\ sleep_zero = {}
  /\ pc = [c \in Co |-> IF c = Main THEN "body" ELSE "none"]
  /\ handle = [c \in Co |-> None]
  /\ applying = [c \in Co |-> None]
  /\ buffer = {} /\ ready = {} /\ timer = {}
  /\ ops = 0
  /\ thrown = None

-----------------------------------------------------------------------------
Goto(c, from, to) ==
  /\ pc[c] = from /\ applying[c] = None
  /\ pc' = [pc EXCEPT ![c] = to]

Unlocked(c) == status_lock[c] = None

lock(c, d)   == Unlocked(d) /\ status_lock' = [status_lock EXCEPT ![d] = c]
unlock(d)    == status_lock' = [status_lock EXCEPT ![d] = None]

CountOp == ops < MaxOps /\ ops' = ops + 1

Owned(c) == {d \in Co : owner[d] = c}

(* The coroutines that c waits for, or will wait for before its function    *)
(* returns, directly or not.                                                *)
WaitsFor(c) ==
  LET next(s) == s \cup {d \in Co : \E e \in s : handle[e] = d \/ owner[d] = e}
      chain[n \in 0 .. Cardinality(Co)] == IF n = 0 THEN {c} ELSE next(chain[n - 1])
  IN  chain[Cardinality(Co)]

(* SchedManager::apply(w) by the thread of c: into the buffer, or into a    *)
(* ready queue, which takes w's own lock first.                             *)
apply(c, w) ==
  \/ buffer' = buffer \cup {w} /\ UNCHANGED <<applying, ready, timer>>
  \/ applying' = [applying EXCEPT ![c] = w] /\ UNCHANGED <<buffer, ready, timer>>

(* get_ready_to_push sets the status under the coroutine's own lock.        *)
get_ready_to_push(w) ==
  /\ Unlocked(w)
  /\ status' = [status EXCEPT ![w] = "READY"]
  /\ ready' = ready \cup {w}
  /\ UNCHANGED <<status_lock, await_caller, invoker, alive, stack, userVars,
                 timer, pc, handle, sleep_zero>>

apply_end(c) ==
  /\ applying[c] # None
  /\ get_ready_to_push(applying[c])
  /\ applying' = [applying EXCEPT ![c] = None]
  /\ UNCHANGED buffer

apply_ready_all(w) ==
  /\ w \in buffer
  /\ get_ready_to_push(w)
  /\ buffer' = buffer \ {w}
  /\ UNCHANGED applying

(* A scheduler thread switches to w: the first time on a new stack, else    *)
(* where it left.                                                           *)
Busy == {c \in Co : pc[c] # "none" \/ applying[c] # None}

run(w) ==
  /\ w \in ready
  /\ Cardinality(Busy) < Workers
  /\ ready' = ready \ {w}
  /\ status' = [status EXCEPT ![w] = "RUNNING"]
  /\ stack' = stack \cup {w}
  /\ pc' = [pc EXCEPT ![w] = IF handle[w] = None THEN "body" ELSE "returned"]
  /\ UNCHANGED <<status_lock, await_caller, invoker, alive, userVars, applying,
                 buffer, timer, handle, sleep_zero>>

-----------------------------------------------------------------------------
(* construct: c makes d with the invoker in the pool, or, in co::await, on  *)
(* its own frame, and awaits it at once.                                    *)
construct(c, d, is_await) ==
  /\ Goto(c, "body", IF is_await THEN "lock" ELSE "body")
  /\ CountOp
  /\ d \notin alive
  /\ alive' = alive \cup {d}
  /\ status' = [status EXCEPT ![d] = "NEW"]
  /\ invoker' = [invoker EXCEPT ![d] = IF is_await THEN "frame" ELSE "pool"]
  /\ owner' = [owner EXCEPT ![d] = c]
  /\ handle' = [handle EXCEPT ![c] = IF is_await THEN d ELSE None]
  /\ joined' = joined \ {d} /\ written' = written \ {d}
  /\ apply(c, d)
  /\ UNCHANGED <<status_lock, await_caller, stack, thrown, sleep_zero>>

(* c awaits a handle, its own or one it was given a reference to.  The      *)
(* program awaits nobody who waits for it (nothing in the code would end    *)
(* that), nor a handle that its owner destroys.                             *)
await_call(c, d) ==
  /\ Goto(c, "body", "lock")
  /\ \/ CountOp
     \/ owner[d] = c /\ d \notin joined /\ UNCHANGED ops
  /\ d \in alive /\ owner[d] # None /\ invoker[d] # "frame"
  /\ c \notin WaitsFor(d)
  /\ pc[owner[d]] \in {"waitLock", "check"} => handle[owner[d]] # d
  /\ handle' = [handle EXCEPT ![c] = d]
  /\ UNCHANGED <<objectVars, owner, joined, written, thrown, queueVars, sleep_zero>>

(* Mutant: a callee that has not run yet is not waited for. *)
await_impl_not_new(c) ==
  LET d == handle[c] IN
  /\ pc[c] = "lock" /\ Unlocked(d)
  /\ \/ status[d] \in {"DEAD", "NEW"} /\ Goto(c, "lock", "returned") /\ UNCHANGED status_lock
     \/ status[d] \notin {"DEAD", "NEW"} /\ Goto(c, "lock", "await") /\ lock(c, d)
  /\ UNCHANGED <<status, await_caller, invoker, alive, stack, userVars,
                 queueVars, handle, sleep_zero>>

(* Under the callee's lock: a dead callee is not awaited; else the lock is  *)
(* kept over the switch to the scheduler.                                   *)
await_impl(c) ==
  LET d == handle[c] IN
  /\ pc[c] = "lock" /\ Unlocked(d)
  /\ \/ status[d] = "DEAD" /\ Goto(c, "lock", "returned") /\ UNCHANGED status_lock
     \/ status[d] # "DEAD" /\ Goto(c, "lock", "await") /\ lock(c, d)
  /\ UNCHANGED <<status, await_caller, invoker, alive, stack, userVars,
                 queueVars, handle, sleep_zero>>

(* interrupt(status, false): the callback takes the lock of its coroutine.  *)
interrupt(c, from, new_status, to) ==
  /\ Goto(c, from, to)
  /\ lock(c, c)
  /\ status' = [status EXCEPT ![c] = new_status]
  /\ UNCHANGED <<await_caller, invoker, alive, stack, userVars, queueVars,
                 handle, sleep_zero>>

(* coroutine_await *)
await_interrupt(c) == interrupt(c, "await", "WAITING", "register")

register(c) ==
  /\ Goto(c, "register", "releaseCaller")
  /\ await_caller' = [await_caller EXCEPT ![handle[c]] = @ \cup {c}]
  /\ UNCHANGED <<status, status_lock, invoker, alive, stack, userVars,
                 queueVars, handle, sleep_zero>>

release_caller(c) ==
  /\ Goto(c, "releaseCaller", "releaseCallee")
  /\ unlock(c)
  /\ UNCHANGED <<status, await_caller, invoker, alive, stack, userVars,
                 queueVars, handle, sleep_zero>>

(* Mutant: the callee's lock is kept. *)
release_callee_keeps(c) ==
  /\ Goto(c, "releaseCallee", "none")
  /\ UNCHANGED <<objectVars, userVars, queueVars, handle, sleep_zero>>

release_callee(c) ==
  /\ Goto(c, "releaseCallee", "none")
  /\ unlock(handle[c])
  /\ UNCHANGED <<status, await_caller, invoker, alive, stack, userVars,
                 queueVars, handle, sleep_zero>>

(* await_impl returns; co::await destroys the handle at once.               *)
await_return(c) ==
  LET in_frame == invoker[handle[c]] = "frame" IN
  /\ Goto(c, "returned", IF in_frame THEN "waitLock" ELSE "body")
  /\ handle' = [handle EXCEPT ![c] = IF in_frame THEN @ ELSE None]
  /\ joined' = joined \cup {handle[c]}
  /\ UNCHANGED <<objectVars, owner, written, ops, thrown, queueVars, sleep_zero>>

-----------------------------------------------------------------------------
(* coroutine_yield *)
yield(c) ==
  /\ Goto(c, "body", "yield")
  /\ CountOp
  /\ UNCHANGED <<objectVars, owner, joined, written, thrown, queueVars, handle,
                 sleep_zero>>

(* Lock, INTERRUPT, remove_from_scheduler, unlock.                          *)
yield_interrupt(c) ==
  /\ Goto(c, "yield", "applySelf")
  /\ Unlocked(c)
  /\ status' = [status EXCEPT ![c] = "INTERRUPT"]
  /\ UNCHANGED <<status_lock, await_caller, invoker, alive, stack, userVars,
                 queueVars, handle, sleep_zero>>

yield_apply(c) ==
  /\ Goto(c, "applySelf", "none")
  /\ apply(c, c)
  /\ UNCHANGED <<objectVars, userVars, handle, sleep_zero>>

(* coroutine_sleep: without a duration it returns before interrupt.         *)
sleep(c, zero) ==
  /\ Goto(c, "body", "sleep")
  /\ CountOp
  /\ sleep_zero' = IF zero THEN sleep_zero \cup {c} ELSE sleep_zero \ {c}
  /\ UNCHANGED <<objectVars, owner, joined, written, thrown, queueVars, handle>>

sleep_interrupt(c) ==
  /\ \/ c \in sleep_zero /\ Goto(c, "sleep", "none") /\ UNCHANGED status
     \/ /\ c \notin sleep_zero /\ Goto(c, "sleep", "addTask")
        /\ Unlocked(c) /\ status' = [status EXCEPT ![c] = "WAITING"]
  /\ UNCHANGED <<status_lock, await_caller, invoker, alive, stack, userVars,
                 queueVars, handle, sleep_zero>>

add_task(c) ==
  /\ Goto(c, "addTask", "none")
  /\ timer' = timer \cup {c}
  /\ UNCHANGED <<objectVars, userVars, applying, buffer, ready, handle, sleep_zero>>

(* wakeup_callback, on the timer's thread.                                  *)
timeout(c) ==
  /\ c \in timer
  /\ timer' = timer \ {c}
  /\ buffer' = buffer \cup {c}
  /\ UNCHANGED <<objectVars, userVars, applying, ready, pc, handle, sleep_zero>>

-----------------------------------------------------------------------------
(* The function of c returns: its locals are gone, its value is in buf, and *)
(* an invoker of the pool is destroyed.                                     *)
invoker_wrapper(c) ==
  /\ c # Main
  /\ Goto(c, "body", "dead")
  /\ Owned(c) = {}
  /\ written' = written \cup {c}
  /\ invoker' = [invoker EXCEPT ![c] = IF @ = "pool" THEN "none" ELSE @]
  /\ UNCHANGED <<status, status_lock, await_caller, alive, stack, owner, joined,
                 ops, thrown, queueVars, handle, sleep_zero>>

(* coroutine_dead *)
dead_interrupt(c) == interrupt(c, "dead", "DEAD", "wakeup")

(* Mutant: an awaiting caller is skipped. *)
wakeup_await_co_all_one(c) ==
  /\ \/ \E w \in await_caller[c] :
          /\ Goto(c, "wakeup", "freeStack")
          /\ await_caller' = [await_caller EXCEPT ![c] = {}]
          /\ apply(c, w)
     \/ /\ await_caller[c] = {}
        /\ Goto(c, "wakeup", "freeStack")
        /\ UNCHANGED <<await_caller, queueVars>>
  /\ UNCHANGED <<status, status_lock, invoker, alive, stack, userVars, handle,
                 sleep_zero>>

(* One round of the loop of wakeup_await_co_all, or its end.                *)
wakeup_await_co_all(c) ==
  /\ \/ \E w \in await_caller[c] :
          /\ Goto(c, "wakeup", "wakeup")
          /\ await_caller' = [await_caller EXCEPT ![c] = @ \ {w}]
          /\ apply(c, w)
     \/ /\ await_caller[c] = {}
        /\ Goto(c, "wakeup", "freeStack")
        /\ UNCHANGED <<await_caller, queueVars>>
  /\ UNCHANGED <<status, status_lock, invoker, alive, stack, userVars, handle,
                 sleep_zero>>

free_stk(c) ==
  /\ Goto(c, "freeStack", "finish")
  /\ stack' = stack \ {c}
  /\ UNCHANGED <<status, status_lock, await_caller, invoker, alive, userVars,
                 queueVars, handle, sleep_zero>>

dead_finish(c) ==
  /\ Goto(c, "finish", "none")
  /\ status' = [status EXCEPT ![c] = "DEAD"]
  /\ unlock(c)
  /\ UNCHANGED <<await_caller, invoker, alive, stack, userVars, queueVars,
                 handle, sleep_zero>>

-----------------------------------------------------------------------------
(* ~Co of a handle that nobody else is awaiting.                            *)
destroy_call(c, d) ==
  /\ Goto(c, "body", "waitLock")
  /\ owner[d] = c
  /\ Careless \/ d \in joined
  /\ \A e \in Co \ {c} : handle[e] # d
  /\ handle' = [handle EXCEPT ![c] = d]
  /\ UNCHANGED <<objectVars, userVars, queueVars, sleep_zero>>

(* Mutant: destroy does not wait for the lock. *)
wait_until_lockable_never(c) ==
  /\ Goto(c, "waitLock", "check")
  /\ UNCHANGED <<objectVars, userVars, queueVars, handle, sleep_zero>>

(* The lock is taken and given back; the status is read after that.         *)
wait_until_lockable(c) ==
  /\ Goto(c, "waitLock", "check")
  /\ Unlocked(handle[c])
  /\ UNCHANGED <<objectVars, userVars, queueVars, handle, sleep_zero>>

destroy(c) ==
  LET d == handle[c] IN
  /\ pc[c] = "check"
  /\ \/ /\ status[d] # "DEAD"
        /\ thrown' = c
        /\ UNCHANGED <<alive, invoker, owner, joined, handle, pc>>
     \/ /\ status[d] = "DEAD"
        /\ Goto(c, "check", "body")
        /\ alive' = alive \ {d}
        /\ invoker' = [invoker EXCEPT ![d] = "none"]
        /\ owner' = [owner EXCEPT ![d] = None]
        /\ joined' = joined \ {d}
        /\ handle' = [handle EXCEPT ![c] = None]
        /\ UNCHANGED thrown
  /\ UNCHANGED <<status, status_lock, await_caller, stack, written, ops,
                 queueVars, sleep_zero>>

-----------------------------------------------------------------------------
(* What the callbacks and a call that has begun do.                         *)
Step(c) ==
  \/ await_impl(c) \/ await_interrupt(c) \/ register(c) \/ release_caller(c)
  \/ release_callee(c) \/ await_return(c) \/ yield_interrupt(c) \/ yield_apply(c)
  \/ sleep_interrupt(c) \/ add_task(c) \/ dead_interrupt(c)
  \/ wakeup_await_co_all(c) \/ free_stk(c) \/ dead_finish(c)
  \/ wait_until_lockable(c) \/ destroy(c)

(* What the program chooses.                                                *)
Choose(c) ==
  \/ \E d \in Co : \/ \E is_await \in BOOLEAN : construct(c, d, is_await)
                   \/ await_call(c, d) \/ destroy_call(c, d)
  \/ yield(c)
  \/ \E zero \in {FALSE, ZeroSleep} : sleep(c, zero)
  \/ invoker_wrapper(c)

(* What scheduler threads and the timer's thread do for c.                  *)
Serve(c) == apply_ready_all(c) \/ run(c) \/ timeout(c)

Next == thrown = None /\ \E c \in Co : \/ Step(c) \/ apply_end(c)
                                       \/ Choose(c) \/ Serve(c)

(* Threads get their turn and timers expire; a lock, and a turn on a ready  *)
(* queue, is had in the end by who tries again and again.  A function goes  *)
(* on until it returns.                                                     *)
Fairness ==
  \A c \in Co : /\ SF_vars(thrown = None /\ (Step(c) \/ apply_end(c)))
               /\ SF_vars(thrown = None /\ Serve(c))
               /\ WF_vars(thrown = None /\ Choose(c))

Spec == Init /\ [][Next]_vars
FairSpec == Spec /\ Fairness

-----------------------------------------------------------------------------
(* ~Co throws only for a handle of which no await has returned: who has     *)
(* been woken finds the callee dead, although it is woken before the        *)
(* callee's callback has ended (destroy, coroutine_dead).                   *)
OnlyUnjoinedThrows == thrown # None => handle[thrown] \notin joined

(* A coroutine that is not dead is in one place: a thread executes it, or   *)
(* it is on its way to a ready queue or in one, or a timer or exactly one   *)
(* callee will wake it.  Only a sleep of zero loses it (coroutine_sleep).   *)
Places(c) ==
  UNION {{"thread"}     \X {d \in {c} : pc[d] \notin
                              {"none", "releaseCaller", "releaseCallee"}},
         {"applied by"} \X {d \in Co : applying[d] = c},
         {"waits for"}  \X {d \in Co : c \in await_caller[d]},
         {"buffer"}     \X ({c} \cap buffer),
         {"ready"}      \X ({c} \cap ready),
         {"timer"}      \X ({c} \cap timer)}

Resting(c) == status[c] = "DEAD" /\ pc[c] = "none"

OnePlace ==
  \A c \in alive :
    \/ Cardinality(Places(c)) = 1
    \/ Places(c) = {} /\ (Resting(c) \/ c \in sleep_zero)

(* Once a dying coroutine has gone through its callers, no caller is added: *)
(* await_impl and coroutine_dead exclude each other (await_impl,            *)
(* coroutine_await, wakeup_await_co_all).                                   *)
NoLateCaller ==
  \A d \in Co : (pc[d] \in {"freeStack", "finish"} \/ Resting(d))
                  => await_caller[d] = {}

(* The invoker that co::await puts on the caller's frame is in use until    *)
(* the function returns; the caller is still inside construct until then.   *)
InvokerAlive ==
  \A d \in alive : invoker[d] = "frame" /\ d \notin written
    => /\ handle[owner[d]] = d
       /\ pc[owner[d]] \notin {"returned", "waitLock", "check", "body"}

(* The value an await moves out of buf has been put there.                  *)
AwaitFindsValue == \A c \in Co : pc[c] = "returned" => handle[c] \in written

(* No coroutine is lost, run by two threads or used when it is gone: the    *)
(* frames and the result of an await (co::await, coroutine_dead).           *)
CoroutinesKept ==
  /\ TypeOK /\ OnePlace /\ OnlyUnjoinedThrows
  /\ NoLateCaller /\ InvokerAlive /\ AwaitFindsValue

(* A Co_t is freed when nobody will touch it again: its callback is over,   *)
(* its lock is free, it is in no queue and nobody awaits it (destroy).      *)
FreedOnlyAtRest ==
  [][\A d \in alive \ alive' :
       /\ Resting(d) /\ Places(d) = {} /\ Unlocked(d) /\ await_caller[d] = {}
       /\ \A c \in Co : handle'[c] # d]_vars

(* Lifecycle implements Join: a coroutine has ended from the moment its     *)
(* status is DEAD, and an await begins when await_impl has seen the status. *)
phase == [c \in Co |-> IF c \notin alive THEN "none"
                       ELSE IF status[c] = "DEAD" THEN "ended" ELSE "live"]

(* The coroutine that c waits for in the await it has begun.                *)
awaited == [c \in Co |-> IF pc[c] \in {"lock", "waitLock", "check"} THEN None ELSE handle[c]]

J == INSTANCE Join

ImplementsJoin == J!Spec

(* Every call of await and destroy ends, when functions return and no sleep *)
(* of zero has lost a coroutine: the chain of status locks that await_impl, *)
(* coroutine_await, coroutine_dead and get_ready_to_push build never closes.*)
CallsEnd ==
  \A c \in Co : (handle[c] # None) ~> (handle[c] = None \/ sleep_zero # {})
===============================================================================
