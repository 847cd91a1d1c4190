--------------------------------- MODULE Cfs ---------------------------------
(***************************************************************************)
(* The accounting that should make the scheduler fair: nice and v_runtime  *)
(* of CfsSchedEntity, the boost of a coroutine that a timer has woken, the *)
(* priority a coroutine enters a ready queue with, and min_v_runtime.      *)
(*                                                                         *)
(* A coroutine's ready queue is a set: QuaternaryHeap's order is a matter  *)
(* of SortWrapLessCmp, and any of the set may be on top.  Times are        *)
(* nanoseconds.                                                            *)
(***************************************************************************)
EXTENDS Integers, FiniteSets

CONSTANTS
  Co, Sched,
  Own,          \* nice values that coroutines are created with
  Slice,        \* nanoseconds a coroutine may run before it stops
  MaxRuntime    \* bound: nanoseconds a coroutine runs in all

nice_to_weigh(n) ==
  CASE n = -20 -> 88761 [] n = -10 -> 9548 [] n = 0 -> 1024 [] n = 10 -> 110 [] n = 19 -> 15

PRIORITY_HIGHEST == -20
precision == 131072           \* 2^17

Nices == {-20, -10, 0, 10, 19}

CfsAssumption ==
  /\ Own \subseteq Nices
  /\ Slice \subseteq Nat /\ MaxRuntime \in Nat

VARIABLES
  where,            \* "new", "buffer", "ready", "running", "waiting", "sleeping", "ended"
  occupy_thread,
  own,              \* the nice value of create
  nice, prev_nice, v_runtime, real_runtime_ns,
  wakeup_timer,     \* wakeup_reason is CO_WAKEUP_TIMER
  stk_active,       \* the thread that ran it has not come to process_co_exec_end
  key,              \* its priority in the heap
  reboosted,        \* up_nice was called for a boosted coroutine
  contended,        \* whether queues are full or locked, work is stolen, and
                    \* coroutines wait on semaphores: never or at times
  min_v_runtime     \* of each scheduler

entityVars == <<own, nice, prev_nice, v_runtime, real_runtime_ns>>
vars == <<where, occupy_thread, entityVars, wakeup_timer, stk_active, key,
          reboosted, contended, min_v_runtime>>

Where == {"new", "buffer", "ready", "running", "waiting", "sleeping", "ended"}

TypeOK ==
  /\ where \in [Co -> Where]
  /\ occupy_thread \in [Co -> Sched]
  /\ own \in [Co -> Own]
  /\ nice \in [Co -> Nices] /\ prev_nice \in [Co -> Nices]
  /\ v_runtime \in [Co -> Nat] /\ key \in [Co -> Nat]
  /\ real_runtime_ns \in [Co -> 0 .. MaxRuntime]
  /\ wakeup_timer \in [Co -> BOOLEAN] /\ stk_active \in [Co -> BOOLEAN]
  /\ reboosted \in [Co -> BOOLEAN] /\ contended \in BOOLEAN
  /\ min_v_runtime \in [Sched -> Nat]

Init ==
  /\ where = [c \in Co |-> "new"]
  /\ occupy_thread \in [Co -> Sched]
  /\ own \in [Co -> Own]
  /\ nice = own /\ prev_nice = [c \in Co |-> 0]
  /\ v_runtime = [c \in Co |-> 0] /\ key = [c \in Co |-> 0]
  /\ real_runtime_ns = [c \in Co |-> 0]
  /\ wakeup_timer = [c \in Co |-> FALSE] /\ stk_active = [c \in Co |-> FALSE]
  /\ reboosted = [c \in Co |-> FALSE] /\ contended \in BOOLEAN
  /\ min_v_runtime = [s \in Sched |-> 0]

-----------------------------------------------------------------------------
real_runtime(ns) == (ns \div precision) * precision

(* (real_runtime << 10) / nice_to_weigh                                     *)
Charge(ns, n) == (real_runtime(ns) * 1024) \div nice_to_weigh(n)

Set(f, c, x) == [f EXCEPT ![c] = x]

Ready(s) == {c \in Co : where[c] = "ready" /\ occupy_thread[c] = s}

(* What get_ready_to_push does to the entity: a coroutine without runtime   *)
(* starts where the scheduler is; one that a timer has woken is boosted     *)
(* (up_nice).                                                               *)
get_ready_to_push(c, s) ==
  LET v == IF v_runtime[c] = 0 THEN min_v_runtime[s] ELSE v_runtime[c] IN
  \/ /\ ~wakeup_timer[c]
     /\ v_runtime' = Set(v_runtime, c, v)
     /\ UNCHANGED <<nice, prev_nice, reboosted>>
  \/ /\ wakeup_timer[c]
     /\ v_runtime' = Set(v_runtime, c, Charge(real_runtime_ns[c], PRIORITY_HIGHEST))
     /\ prev_nice' = Set(prev_nice, c, nice[c])
     /\ nice' = Set(nice, c, PRIORITY_HIGHEST)
     /\ reboosted' = Set(reboosted, c, reboosted[c] \/ nice[c] = PRIORITY_HIGHEST)

(* sort_wrap: the priority that the heap keeps, after the boost.            *)
Priority(c) == v_runtime'[c]

(* apply_ready: into the heap, or into the buffer when sched_lock is taken. *)
apply(c, s) ==
  /\ get_ready_to_push(c, s)
  /\ \/ /\ where' = Set(where, c, "ready")
        /\ key' = Set(key, c, Priority(c))
     \/ /\ contended
        /\ where' = Set(where, c, "buffer")
        /\ UNCHANGED key
  /\ UNCHANGED <<own, real_runtime_ns, min_v_runtime>>

create(c) ==
  /\ where[c] = "new"
  /\ apply(c, occupy_thread[c])
  /\ UNCHANGED <<occupy_thread, wakeup_timer, stk_active>>

(* apply_ready_all readies what comes from the buffer, or from another      *)
(* scheduler, once more.                                                    *)
apply_ready_all(c, s) ==
  /\ \/ where[c] = "buffer" /\ occupy_thread[c] = s
     \/ /\ contended
        /\ where[c] = "ready" /\ occupy_thread[c] # s
        /\ Cardinality(Ready(occupy_thread[c])) > 1
  /\ get_ready_to_push(c, s)
  /\ where' = Set(where, c, "ready")
  /\ key' = Set(key, c, Priority(c))
  /\ occupy_thread' = Set(occupy_thread, c, s)
  /\ UNCHANGED <<own, real_runtime_ns, min_v_runtime, wakeup_timer, stk_active>>

(* pickup_ready and run: min_v_runtime is compared with the new top.        *)
pickup_ready(c) ==
  LET s == occupy_thread[c]
      rest == Ready(s) \ {c}
  IN
  /\ where[c] = "ready" /\ ~stk_active[c]
  /\ \A d \in Co : where[d] = "running" => occupy_thread[d] # s
  /\ where' = Set(where, c, "running")
  /\ stk_active' = Set(stk_active, c, TRUE)
  /\ \/ rest = {} /\ UNCHANGED min_v_runtime
     \/ \E top \in rest :
          min_v_runtime' =
            Set(min_v_runtime, s,
                IF min_v_runtime[s] = 0 \/ key[top] < min_v_runtime[s]
                THEN key[top] ELSE min_v_runtime[s])
  /\ UNCHANGED <<occupy_thread, entityVars, wakeup_timer, key, reboosted>>

-----------------------------------------------------------------------------
(* Mutant: back_nice forgets to swap. *)
back_nice_no_swap(c) ==
  /\ wakeup_timer' = Set(wakeup_timer, c, FALSE)
  /\ UNCHANGED <<nice, prev_nice>>

(* process_co_exec_end: the boost ends.                                     *)
back_nice(c) ==
  /\ wakeup_timer' = Set(wakeup_timer, c, FALSE)
  /\ IF wakeup_timer[c]
     THEN /\ nice' = Set(nice, c, prev_nice[c])
          /\ prev_nice' = Set(prev_nice, c, nice[c])
     ELSE UNCHANGED <<nice, prev_nice>>

Runs(c, ns) ==
  /\ where[c] = "running"
  /\ ns \in Slice /\ real_runtime_ns[c] + ns =< MaxRuntime
  /\ real_runtime_ns' = Set(real_runtime_ns, c, real_runtime_ns[c] + ns)

(* A coroutine that yields, sleeps or dies switches to its scheduler, which *)
(* ends the boost and then runs the callback with its interrupt             *)
(* (up_v_runtime).                                                          *)
leave(c, ns, to) ==
  /\ Runs(c, ns)
  /\ where' = Set(where, c, to)
  /\ stk_active' = Set(stk_active, c, FALSE)
  /\ back_nice(c)
  /\ v_runtime' = Set(v_runtime, c, Charge(real_runtime_ns'[c], nice'[c]))
  /\ UNCHANGED <<occupy_thread, own, key, reboosted, min_v_runtime>>

(* Sem_t::wait: the interrupt comes first, on the coroutine's own stack;    *)
(* from then on a signal may apply it, before its thread has left.          *)
sem_wait(c, ns) ==
  /\ contended
  /\ Runs(c, ns)
  /\ where' = Set(where, c, "waiting")
  /\ v_runtime' = Set(v_runtime, c, Charge(real_runtime_ns'[c], nice[c]))
  /\ UNCHANGED <<occupy_thread, own, nice, prev_nice, wakeup_timer, stk_active,
                 key, reboosted, min_v_runtime>>

process_co_exec_end(c) ==
  /\ stk_active[c] /\ where[c] # "running"
  /\ stk_active' = Set(stk_active, c, FALSE)
  /\ back_nice(c)
  /\ v_runtime' = IF wakeup_timer[c]
                  THEN Set(v_runtime, c, Charge(real_runtime_ns[c], prev_nice[c]))
                  ELSE v_runtime
  /\ UNCHANGED <<where, occupy_thread, own, real_runtime_ns, key, reboosted,
                 min_v_runtime>>

(* The end of coroutine_yield, or a signal.                                 *)
wakeup(c) ==
  /\ where[c] = "waiting"
  /\ apply(c, occupy_thread[c])
  /\ UNCHANGED <<occupy_thread, wakeup_timer, stk_active>>

(* wakeup_callback of coroutine_sleep.                                      *)
timeout(c) ==
  /\ where[c] = "sleeping"
  /\ wakeup_timer' = Set(wakeup_timer, c, TRUE)
  /\ where' = Set(where, c, "waiting")
  /\ UNCHANGED <<occupy_thread, entityVars, stk_active, key, reboosted, min_v_runtime>>

Next ==
  /\ UNCHANGED contended
  /\ \E c \in Co :
      \/ create(c) \/ pickup_ready(c) \/ process_co_exec_end(c) \/ wakeup(c) \/ timeout(c)
      \/ \E s \in Sched : apply_ready_all(c, s)
      \/ \E ns \in Slice : \/ sem_wait(c, ns)
                           \/ \E to \in {"waiting", "sleeping", "ended"} : leave(c, ns, to)

Spec == Init /\ [][Next]_vars

-----------------------------------------------------------------------------
(* The nice value a coroutine was created with survives every boost, unless *)
(* get_ready_to_push finds the coroutine boosted already (it came through   *)
(* the buffer, was stolen, or a signal was faster than process_co_exec_end).*)
Kept(c) ==
  \/ nice[c] = own[c]
  \/ wakeup_timer[c] /\ nice[c] = PRIORITY_HIGHEST /\ prev_nice[c] = own[c]

NiceLostByReboost == \A c \in Co : Kept(c) \/ reboosted[c]

(* The priority in the heap is the coroutine's v_runtime, unless a signal   *)
(* was faster than process_co_exec_end with a boosted coroutine.            *)
KeyStaleByReboost ==
  \A c \in Co : where[c] = "ready" => key[c] = v_runtime[c] \/ reboosted[c]

(* Where queues are free and nobody waits on semaphores, the nice value is  *)
(* always kept, and the priority of a ready coroutine is its real runtime   *)
(* over its weight, or over the greatest one after a sleep (up_nice,        *)
(* back_nice, up_v_runtime).  Who has no runtime starts where others are.   *)
OwnNiceKept == \A c \in Co : Kept(c)

PriorityEarned ==
  \A c \in Co : where[c] = "ready" /\ real_runtime(real_runtime_ns[c]) > 0
    => key[c] = Charge(real_runtime_ns[c],
                       IF wakeup_timer[c] THEN PRIORITY_HIGHEST ELSE own[c])

(* Who is boosted after a timeout keeps the nice value of its create, and a *)
(* ready coroutine's priority is its v_runtime, but for the coroutines that *)
(* get_ready_to_push boosted twice; where no lock is contended and nobody   *)
(* waits on a semaphore none is, and the priority is the real runtime over  *)
(* the weight (up_nice, back_nice, up_v_runtime).                           *)
BoostsAccounted ==
  /\ TypeOK /\ NiceLostByReboost /\ KeyStaleByReboost
  /\ ~contended => OwnNiceKept /\ PriorityEarned

(* (a.priority - b.priority) >> (sizeof(uint64_t) - 1), the lowest bit: bit *)
(* 7 of the difference of two unsigned numbers of 64 bits.                  *)
SortWrapLessCmp(a, b) == ((a - b) \div 2^7) % 2 = 1

(* For priorities below 2^63 the comparison is the sign of their difference *)
(* (Scheduler.h:60-61).                                                     *)
OrderedByPriority ==
  \A c, d \in Co :
    where[c] = "ready" /\ where[d] = "ready" /\ occupy_thread[c] = occupy_thread[d]
      => (SortWrapLessCmp(key[c], key[d]) <=> key[c] < key[d])
===============================================================================
